SPECIFICATION Spec
CONSTANTS
    Users = {u1, u2}
    Codes = {c1, c2}
    Requests = {r1, r2, r3}
    NoUser = NoUser
    NoToken = NoToken
    NoCode = NoCode
    LinkTtl = 0
    OtpTtl = 0
    MaxTime = 1
SYMMETRY Symmetry
INVARIANTS
    TypeOK
    SingleUse
    SessionMatchesRequest
    ExpiredNeverLogsIn
    NewerCodeReplacesOlder
    OneGuessPerCode
    DeletionStopsOneTimeLogin
    SpentRecordExplained
CHECK_DEADLOCK FALSE
