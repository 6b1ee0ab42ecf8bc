SPECIFICATION Spec
CONSTANTS
    MaxNext = 4
    Dummies <- TwoDummies
    FreezeAndSeizes <- OneFES
    Publishable <- Both
    PolicyOf <- PolicyNumbers
    MintingLogic <- MintingHashes
    TransferLogic <- TransferHashes
    Holders <- Two
    Admin = 2
    Nobody = 0
    ScriptWallet = 0
    Plg = 16
    CoreTransfer = 6
    ThirdParty = 18
    IssuanceLogic = 12
    Params <- MCParams
    IssuanceCbor <- MCCbor
    LogicRef <- MCLogicRef
    ThirdPartyRef <- MCThirdRef
    OriginRef <- MCOrigin
    BlacklistRef <- MCLists
    TxIds <- MCTxIds
    MaxTokens = 2
    MaxSupply = 2
    MaxPool = 1
    Delayed <- Registrations
    Configured <- OneFES
    Suspects <- One
INVARIANTS
    TypeOK
    DirectorySound
    OwnBuildsAccepted
    OnlyOwnerServes
    FrozenTokensStay
