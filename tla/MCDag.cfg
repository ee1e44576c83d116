SPECIFICATION Spec
CONSTANTS
    DagBlock = {"g", "a", "b", "c"}
    Root = "g"
    IdRank <- MCIdRank
    DagThread = {t, u}
    MaxWindow = 1
    PruneEvery = 2
    TipLimit = 1
    TrimEvery = 2
    BloomCap = 2
    WarmLimit = 1
    MaxParents = 2
    MaxDagBatch = 2
    MaxDagCalls = 3
    MaxDagBoots = 1
    MaxStoreFails = 1
    Coin = {"c1", "c2", "d1", "d2", "e1", "f1", "g1"}
    FirstCoin = {"c1", "c2"}
    CoinOwner <- MCCoinOwner
    Tx = {"x1", "x2", "x3", "x4", "x5", "x6"}
    Spends <- MCSpends
    Creates <- MCCreates
    ShardOf <- MCShardOf
    NumShards = 2
    ShardCap = 1
    SpentLimit = 3
    CoinThread = {t, u}
    QueueCap = 2
    MaxCoinBoots = 1
INVARIANTS
    FrontierSound
    RecentDeduplicated
    SpentOnceButStale
    CoinViewsExact
SYMMETRY ThreadSymmetry
CHECK_DEADLOCK FALSE
