SPECIFICATION Spec
CONSTANTS
    k1 = k1  k2 = k2  m1 = m1  m2 = m2  Null = Null
    c1 = c1  c2 = c2  t1 = t1  t2 = t2  t3 = t3  t4 = t4
    Keys = {k1, k2}
    InviteKeys = {k1, k2}
    MsgIds = {m1}
    Sizes = {1}
    Caps = {c1, c2}
    Tokens = {t1, t2, t3}
    MaxQueueDepth = 1
    MaxRouteCount = 1
    MaxSlots = 1
    RetentionTtl = 2
    PullLease = 1
    PullBudget = 2
    MaxExpiry = 2
    MaxClock = 2
    MaxSeq = 2
SYMMETRY InviteSymmetry
INVARIANTS TypeOK ResourceBounds SlotMatchesHistory OneRedemption OneHandshake
PROPERTIES RevokedIsDead SlotNeverEvicted SlotsPromised
