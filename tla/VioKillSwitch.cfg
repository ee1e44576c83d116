SPECIFICATION Spec
CONSTANTS
    halt = halt
    resume = resume
    fee = fee
    lower = lower
    low = low
    hidden = hidden
    broken = broken
    Update = {halt, fee}
    Direct = {}
    Settings <- MCSettings
    InitialCfg <- MCInitialCfg
    NoCfg = NoCfg
    Duration <- MCDuration
    Task = {t1, t2}
    NoId = NoId
    MaxTime = 1
    MaxCalls = 4
    MaxCrashes = 0
CHECK_DEADLOCK FALSE
PROPERTY KillSwitchHolds
