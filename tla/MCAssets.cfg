SPECIFICATION Spec
CONSTANTS
    Nft = {"n1", "n2"}
    Holder = {"ann", "bob", "coord"}
    Coord = "coord"
    NftBlock = {"seal1", "seal2", "mint", "there", "back", "use", "burn", "burn2", "both"}
    NftActionOf <- MCActionOf
    NftCall = {c1, c2}
    MaxNftCalls = 3
    MaxNftPruned = 1
    MaxNftTroubles = 1
    TokenId = {"gold"}
    ClassId = {"c1", "c2"}
    CollOf <- MCCollOf
    Who = {"ann", "bob"}
    RegKey = {"k0", "k1"}
    BootKey = "k0"
    Absent = Absent
    RegRequest <- MCRequest
    FullBps = 2
    GraceWindow = 1
    RegCall = {c1, c2}
    MaxRegCalls = 3
    MaxRegTroubles = 1
    MaxRegNow = 1
    MaxRegPruned = 1
    Wallet = {"ann", "bob"}
    FormsOf <- MCFormsOf
    FlowAsset = {"gold", "silver"}
    Pms = "pms"
    TreasuryAddr = "tre"
    FeeAddr = "tre"
    CapOf <- MCCapOf
    DecayOf <- MCDecayOf
    AuthorityOf <- MCAuthorityOf
    FullRate = 2
    BaseFee = 1
    MintFee = 1
    TreasuryRate = 1
    ConversionOf <- MCConversionOf
    EmissionLeft = 3
    FlowStart <- MCFlowStart
    FlowRequest <- MCFlowRequest
    FlowCall = {c1, c2}
    MaxFlowCalls = 3
    MaxFlowEvents = 1
CHECK_DEADLOCK FALSE
SYMMETRY CallSymmetry
INVARIANTS
    NftsExact
    CollectionHasOneOwner
    RegistriesHold
    ValueAccounted
    SupplyRespected
    RoyaltyPaid
PROPERTY CoinsMoveByRight
