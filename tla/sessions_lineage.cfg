SPECIFICATION Spec
CONSTANTS
    Users = {u1, u2}
    Calls = {"login", "rotate", "logout"}
    Requests = {r1, r2, r3}
    NoUser = NoUser
    NoSession = NoSession
    Second = 2
    RefreshTtl = 0
    Leeway = 0
    MaxTime = 2
SYMMETRY Symmetry
INVARIANTS
    LineageOK
    TokenOutlastsSession
PROPERTY
    ImplementsLifecycle
CHECK_DEADLOCK FALSE
