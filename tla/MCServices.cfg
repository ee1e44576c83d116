SPECIFICATION Spec
CONSTANTS
    k1 = k1
    k2 = k2
    x1 = x1
    c1 = c1
    c2 = c2
    h1 = h1
    h2 = h2
    Key = {k1, k2}
    NoKey = nokey
    Forged = {x1}
    Caller <- Callers
    Request = {r1, r2}
    SBlock = {b1, b2}
    Spending = {b1}
    SGas = 1
    MaxKeyCalls = 3
    MaxRestarts = 1
    MaxArms = 1
    CContract = {c1, c2}
    CTerms <- Terms
    Original <- Registered
    NoContract = nocontract
    CCaller = {a1, a2}
    CEvent <- Events
    Quantity = {1, 3, 5, 7}
    Hook = {h1, h2}
    HookTag <- Tags
    StreamTags = {"a"}
    BusCapacity = 2
    MaxHooks = 2
    MaxAttempts = 2
    MaxDeliveries = 1
    MaxEvents = 3
    MaxContractCalls = 3
    ABlock = {1, 2, 3, 4, 5, 6, 7}
    Content <- Contents
    Sealed = {2, 4, 7}
    Me = "me"
    Filters <- Asked
    Limits = {1, 2}
    ReadBatch = 1
    Retention = 1
    ActivityBuffer = 1
    PageTtl = 1
    PageCap = 2
    MaxClock = 3
    MaxWalks = 2
    MaxSweeps = 1
INVARIANT SubmissionsSettle
PROPERTY RevokedForGood
PROPERTY LayersHold
INVARIANT FeesExact
INVARIANT EventsDelivered
INVARIANT ListingSound
SYMMETRY Symmetric
CHECK_DEADLOCK FALSE
