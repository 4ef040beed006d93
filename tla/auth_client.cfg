SPECIFICATION FairSpec
CONSTANTS
    t1 = t1
    t2 = t2
    t3 = t3
    u1 = u1
    u2 = u2
    Tasks = {t1, t2, t3}
    Users = {u1, u2}
    Admins = {u2}
    NoUser = NoUser
    Workloads <- MCWorkloads
    MaxLosses = 1
INVARIANTS
    TypeOK
    PresentsCurrentPair
    LogoutSticks
    GuardsAskTheServer
    FlagAndUserAgree
PROPERTY EveryCallEnds
CHECK_DEADLOCK FALSE
