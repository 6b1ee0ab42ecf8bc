\* The spendable UTxOs the devnet harness passes, step by step.
SPECIFICATION Spec
CONSTANTS
    o0 = o0
    o1 = o1
    o2 = o2
    o3 = o3
    k1 = k1
    k2 = k2
    None = None
    OutRefs <- AllOutputs
    SeedOutputs <- FourOutputs
    Trees <- TwoTrees
    Nonces = {n1}
    InlineDatumLimits = {l1}
    Reserves <- HarnessReserves
    MaxPool = 1
    MaxRotations = 1
INVARIANTS
    SeedsKept
\* The bootstrap ends: once the record is assembled nothing is left to do.
CHECK_DEADLOCK FALSE
