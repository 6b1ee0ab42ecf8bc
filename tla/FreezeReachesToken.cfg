SPECIFICATION Spec
CONSTANTS
    MaxNext = 4
    Dummies <- None
    FreezeAndSeizes <- TwoFES
    Publishable <- TwoFES
    PolicyOf <- TwoPolicies
    MintingLogic <- TwoMintingHashes
    TransferLogic <- TwoTransferHashes
    Holders <- Two
    Admin = 2
    Nobody = 0
    ScriptWallet = 0
    Plg = 16
    CoreTransfer = 6
    ThirdParty = 18
    IssuanceLogic = 12
    Params <- MCParams
    IssuanceCbor <- MCCbor
    LogicRef <- MCLogicRef
    ThirdPartyRef <- MCThirdRef
    OriginRef <- MCOrigin
    BlacklistRef <- TwoLists
    TxIds <- MCTxIds
    MaxTokens = 1
    MaxSupply = 1
    MaxPool = 0
    Delayed <- Registrations
    Configured <- OneFES
    Suspects <- One
PROPERTIES
    FreezeReachesToken
