SPECIFICATION RelaySpec
CONSTANTS
    k1 = k1  k2 = k2  c1 = c1  t1 = t1  t2 = t2  t3 = t3
    m1 = m1  p1 = p1  p2 = p2  Null = Null  Sweeper = Sweeper
    Keys = {k1}
    InviteKeys = {k1}
    MsgIds = {m1}
    Sizes = {1}
    Caps = {c1}
    Tokens = {t1, t2}
    MaxQueueDepth = 1
    MaxRouteCount = 1
    MaxSlots = 1
    RetentionTtl = 1
    PullLease = 1
    PullBudget = 1
    MaxExpiry = 1
    MaxClock = 1
    MaxSeq = 1
    Procs = {p1, p2}
    Ops = {"push", "create"}
    PushRateBurst = 1
    PushRateRefill = 1
    CreateBurst = 1
    CreateRefill = 0
    MayCrash = FALSE
    MayDisconnect = FALSE
    MayFail = FALSE
SYMMETRY ProcSymmetry
INVARIANT PushNeverAnswersExpired
