SPECIFICATION LedgersSpec
CONSTANTS
    halt = halt
    resume = resume
    fee = fee
    lower = lower
    low = low
    hidden = hidden
    broken = broken
    Update = {hidden, broken}
    Direct = {hidden}
    Settings <- MCSettings
    InitialCfg <- MCInitialCfg
    NoCfg = NoCfg
    Duration <- MCDuration
    Task = {t1, t2}
    NoId = NoId
    MaxTime = 2
    MaxCalls = 4
    MaxCrashes = 1
    BLedger = {"A", "B", "C"}
    Configured = {"A", "B"}
    CfgOwner <- MCCfgOwner
    BCoinId = {"a1", "a2"}
    BStart <- MCStart
    BAmount = {1, 2}
    BAddr = {"x", "y"}
    Transfer = {"t1", "t2"}
    LedgerOp = {"p", "q"}
    BOwner = {"ann", "bob"}
    NoOwner = "nobody"
    CrossFee = 1
    MaxResubmits = 1
    MaxToggles = 2
    MaxBridgeCrashes = 1
    OldBlocks = {1, 2, 3, 4}
    Genesis = 4
    ParentsOf <- MCParents
    OldTyped <- MCOldTyped
    NewTyped <- MCNewTyped
    OldStores <- MCStores
    NoVersion = NoVersion
    TipLimit = 1
    MaxBoots = 3
CHECK_DEADLOCK FALSE
SYMMETRY TaskSymmetry
INVARIANTS
    TimelockRespected
    EnactedWasApplied
    BridgeConserves
    LedgersSurvive
    SchemaSound
