SPECIFICATION Spec
CONSTANTS
    gen = gen
    pair = pair
    clash = clash
    child = child
    rival = rival
    mintA = mintA
    mintB = mintB
    plain = plain
    x = x
    y = y
    z = z
    w = w
    v = v
    k = k
    Block = {gen, pair, clash, mintA, mintB}
    Genesis = gen
    ParentOf <- MCParentOf
    Outpoint = {x, y, z, w, v}
    Spends <- MCSpends
    Creates <- MCCreates
    Key = {k}
    NoKey = NoKey
    KeyOf <- MCKeyOf
    Task = {t1, t2}
    QueueCap = 1
    MaxBatch = 2
    MaxAttempts = 2
    MaxBlocks = 1
    MaxExits = 1
    MaxDrops = 1
    MaxSubmits = 3
CHECK_DEADLOCK FALSE
SYMMETRY TaskSymmetry
INVARIANTS
    NoDoubleSpend
    ClaimsExact
    AntiReplay
    AnswersBacked
