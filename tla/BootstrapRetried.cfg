\* A caller that retries each step, two transactions in flight, over every
\* choice of coin selection and of the indexer's view.
SPECIFICATION FairSpec
CONSTANTS
    o0 = o0
    o1 = o1
    o2 = o2
    o3 = o3
    k1 = k1
    k2 = k2
    None = None
    OutRefs <- AllOutputs
    SeedOutputs <- FourOutputs
    Trees <- TwoTrees
    Nonces = {n1}
    InlineDatumLimits = {l1}
    Reserves <- DocumentedReserves
    MaxPool = 2
    MaxRotations = 1
INVARIANTS
    TypeOK
    SeedsKept
    AuthorityAsAsked
    RecordTrue
PROPERTIES
    Completes
\* The bootstrap ends: once the record is assembled nothing is left to do.
CHECK_DEADLOCK FALSE
