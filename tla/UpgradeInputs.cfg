SPECIFICATION Spec
CONSTANTS
    k1 = k1
    k2 = k2
    None = None
    Keys <- MCKeys
    FounderTree <- MCFounderTree
    Trees <- MCTrees
    Multisigs = {a, b}
    KeyCreds = {k2}
    MalformedCreds = {bad}
    Wirings = {w1, w2}
    MalformedWirings = {broken}
    Founder = a
    FirstWiring = w1
    GenesisAda = 2
    MaxTreeSize = 4
    MaxPool = 1
    MaxRef = 3
    MaxRotations = 2
INVARIANTS
    RefusalsExplained
    NothingLawfulRefused
