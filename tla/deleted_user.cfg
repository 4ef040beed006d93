SPECIFICATION Spec
CONSTANTS
    Users = {u1}
    Calls = {"login", "rotate", "logout", "delete", "require"}
    Requests = {r1, r2, r3}
    NoUser = NoUser
    NoSession = NoSession
    Second = 1
    RefreshTtl = 1
    Leeway = 0
    MaxTime = 0
SYMMETRY Symmetry
INVARIANT DeletionStopsRotation
CHECK_DEADLOCK FALSE
