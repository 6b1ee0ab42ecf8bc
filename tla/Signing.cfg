\* Every tree of two levels; two builds, two answers of three wallets.
SPECIFICATION Spec
CONSTANTS
    k1 = k1
    k2 = k2
    hash = hash
    short = short
    w1 = w1
    w2 = w2
    idle = idle
    None = None
    KeyHashes = {k1, k2}
    ScriptHashes = {hash}
    BadHashes = {short}
    MULTISIG_MAX_SIZE = 6
    Trees <- AllTrees
    Depth <- AllDepths
    NewTrees <- SomeTrees
    Wallets = {w1, w2, idle}
    Holds <- MCHolds
    Payer = k1
    MaxSets = 2
    MaxMoves = 1
INVARIANTS
    NeverPermissionless
    NeverUnsatisfiable
    SignersCountOnce
    RefusalsUnderstood
