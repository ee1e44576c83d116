SPECIFICATION EconomySpec
CONSTANTS
    FeeNode = {"n1", "n2"}
    SelfNode = "n1"
    LedgerOwner = "none"
    PayWallet = {"w1", "w2"}
    Burner = {"w2"}
    SelfWallet = "w1"
    OwnerWallet = "w2"
    NoWallet = "nobody"
    TreasuryChoice = {"w2", "nobody"}
    Distributor = {"task", "http"}
    Http = "http"
    FeeSizes = {1, 3}
    GlobalBurn = 2
    LedgerBurn = 1
    RuntimeBurn = {5}
    BpsScale = 3
    TreasuryPct = 1
    PctScale = 4
    FreshnessMs = 1
    NodeTtl = 3
    MaxNodes = 1
    GasPerTx = 1
    GasMin = 0
    GasSizes = {1, 2}
    CellThread = {"t", "u"}
    MaxFees = 4
    MaxRefunds = 1
    MaxCounted = 2
    MaxSigned = 2
    MaxClock = 4
    MaxCellOps = 5
    MaxFeeBoots = 1
    base = base
    ramp = ramp
    conv = conv
    Call = {base, ramp, conv}
    VoieOf <- MCVoieOf
    Requested <- MCRequested
    Boot <- MCBoot
    Corridor <- MCCorridor
    Supply0 = 4
    PerYear = 4
    MaxTime = 2
    MaxCrashes = 1
INVARIANTS
    CeilingButLate
    BudgetFrozen
    PoolAccounted
    
PROPERTIES
    NewestRegistrationWins
CHECK_DEADLOCK FALSE
