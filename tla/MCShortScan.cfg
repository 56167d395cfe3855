\* A relay restarted with a smaller queue depth than a mailbox holds.
SPECIFICATION ScanSpec
CONSTANTS
    k1 = k1  k2 = k2  m1 = m1  m2 = m2  Null = Null
    Keys = {k1, k2}
    InviteKeys = {}
    MsgIds = {m1, m2}
    Sizes = {1, 2}
    Caps = {}
    Tokens = {}
    MaxQueueDepth = 2
    MaxRouteCount = 2
    MaxSlots = 1
    RetentionTtl = 2
    PullLease = 1
    PullBudget = 4
    MaxExpiry = 1
    MaxClock = 2
    MaxSeq = 2
    ScanBatch = 2
    MaxBodyBytesCeiling = 2
SYMMETRY DeliverySymmetry
INVARIANT ScanOverlooksNothing
