SPECIFICATION Spec
CONSTANTS
    k1 = k1  k2 = k2  m1 = m1  m2 = m2  Null = Null
    c1 = c1  c2 = c2  t1 = t1  t2 = t2  t3 = t3  t4 = t4
    Keys = {k1, k2}
    InviteKeys = {}
    MsgIds = {m1, m2}
    Sizes = {1, 2}
    Caps = {}
    Tokens = {}
    MaxQueueDepth = 2
    MaxRouteCount = 2
    MaxSlots = 1
    RetentionTtl = 2
    PullLease = 1
    PullBudget = 2
    MaxExpiry = 1
    MaxClock = 2
    MaxSeq = 3
SYMMETRY MailboxSymmetry
INVARIANTS RoutesExactlyLive NoLoss FirstDeliveryInOrder
PROPERTIES LeaseHeld MailboxesPromised
