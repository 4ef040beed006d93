SPECIFICATION Spec
CONSTANTS
    Resident = resident
    Emails = {e1, e2}
    Passwords = {p1, p2}
    Names = {n1}
    Providers = {g1, g2}
    HomeEmail = e1
    HomePassword = p1
    HomeProvider = g1
    Workloads = {
        {"signup", "request_email_verification", "verify_email", "request_email_change", "confirm_email_change"},
        {"change_password", "request_password_reset", "complete_password_reset", "delete_account"},
        {"initiate_account_link", "complete_account_link", "unlink_account", "delete_account"},
        {"change_password", "update_profile"}}
    None = None
    Requests = {r1, r2, r3}
    TokenTtl = 0
    MaxTime = 1
SYMMETRY Symmetry
INVARIANTS
    TypeOK
    AnsweredWriteSticks
    ChangeKnewPassword
    TokenActsOnce
    ExpiredTokensDoNothing
    DuplicatesExplained
    LinkLossNeedsOverlap
    SpentTokenExplained
CHECK_DEADLOCK FALSE
