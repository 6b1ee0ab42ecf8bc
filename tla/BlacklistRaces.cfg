\* Four holders and three transactions in flight over a list of up to five
\* nodes, so that freezes and unfreezes of neighbours race.
SPECIFICATION Spec
CONSTANTS
    MaxNext = 5
    Holders <- FourHolders
    Admin = 2
    Nobody = 0
    ScriptWallet = 0
    TokenIds <- OneToken
    MaxSupply = 1
    MaxPool = 3
INVARIANTS
    BlacklistSound
