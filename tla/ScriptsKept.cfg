SPECIFICATION Spec
CONSTANTS
    MaxNext = 3
    Holders <- TwoHolders
    Admin = 2
    Nobody = 0
    ScriptWallet = 2
    TokenIds <- OneToken
    MaxSupply = 1
    MaxPool = 1
INVARIANTS
    ScriptsKept
