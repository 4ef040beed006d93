SPECIFICATION Spec
CONSTANTS
    Users = {u1}
    Calls = {"login", "rotate", "logout", "delete", "require"}
    Requests = {r1, r2, r3, r4}
    NoUser = NoUser
    NoSession = NoSession
    Second = 1
    RefreshTtl = 1
    Leeway = 0
    MaxTime = 0
SYMMETRY Symmetry
INVARIANTS
    TypeOK
    AnsweredEndIsFinal
    DeletionStopsLogin
    OrphansComeFromFailures
    AuditSound
CHECK_DEADLOCK FALSE
