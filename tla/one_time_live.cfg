SPECIFICATION FairSpec
CONSTANTS
    Users = {u1}
    Codes = {c1}
    Requests = {r1, r2, r3}
    NoUser = NoUser
    NoToken = NoToken
    NoCode = NoCode
    LinkTtl = 0
    OtpTtl = 0
    MaxTime = 0
PROPERTY RightCodeGetsIn
CHECK_DEADLOCK FALSE
