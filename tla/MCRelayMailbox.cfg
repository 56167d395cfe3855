SPECIFICATION RelaySpec
CONSTANTS
    k1 = k1  k2 = k2  c1 = c1  t1 = t1  t2 = t2  t3 = t3
    m1 = m1  p1 = p1  p2 = p2  Null = Null  Sweeper = Sweeper
    Keys = {k1, k2}
    InviteKeys = {}
    MsgIds = {m1}
    Sizes = {1}
    Caps = {}
    Tokens = {}
    MaxQueueDepth = 1
    MaxRouteCount = 1
    MaxSlots = 1
    RetentionTtl = 1
    PullLease = 1
    PullBudget = 1
    MaxExpiry = 1
    MaxClock = 1
    MaxSeq = 2
    Procs = {p1, p2}
    Ops = {"push", "pull", "ack"}
    PushRateBurst = 1
    PushRateRefill = 1
    CreateBurst = 1
    CreateRefill = 0
    MayCrash = TRUE
    MayDisconnect = FALSE
    MayFail = FALSE
SYMMETRY ProcSymmetry
INVARIANTS BucketsAccounted
PROPERTIES StoreSpec
