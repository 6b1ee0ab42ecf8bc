\* Two holders and amounts that can be split: every partial transfer,
\* seizure and burn, two transactions in flight.
SPECIFICATION Spec
CONSTANTS
    MaxNext = 3
    Holders <- TwoHolders
    Admin = 2
    Nobody = 0
    ScriptWallet = 0
    TokenIds <- ThreeTokens
    MaxSupply = 3
    MaxPool = 2
INVARIANTS
    TypeOK
PROPERTIES
    MetadataKept
    FrozenCannotSend
    KeepsPromise
