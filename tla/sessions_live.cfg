SPECIFICATION FairSpec
CONSTANTS
    Users = {u1}
    Calls = {"login", "rotate", "logout"}
    Requests = {r1, r2, r3}
    NoUser = NoUser
    NoSession = NoSession
    Second = 1
    RefreshTtl = 1
    Leeway = 0
    MaxTime = 0
PROPERTIES
    EveryRequestEnds
    LogoutTakesEffect
CHECK_DEADLOCK FALSE
