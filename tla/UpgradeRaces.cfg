SPECIFICATION Spec
CONSTANTS
    k1 = k1
    k2 = k2
    None = None
    Keys <- MCKeys
    FounderTree <- MCFounderTree
    Trees <- MCRaceTrees
    Multisigs = {a, b}
    KeyCreds = {}
    MalformedCreds = {}
    Wirings = {w1}
    MalformedWirings = {}
    Founder = a
    FirstWiring = w1
    GenesisAda = 2
    MaxTreeSize = 4
    MaxPool = 2
    MaxRef = 3
    MaxRotations = 2
INVARIANTS
    TypeOK
    RefusalsExplained
PROPERTIES
    ParamsAdaNeverDrained
    HeldUpByItsActorAlone
