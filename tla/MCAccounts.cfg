SPECIFICATION Spec
CONSTANTS
    Threads = {t1, t2}
    Names = {admin, other}
    AdminName = admin
    Ordinary = {"user"}
    Tokens = {s1, s2}
    StaticToken = FALSE
    Idle = idle
    MaxId = 3
SYMMETRY Symmetric
INVARIANTS
    TypeOK
    SessionsHaveAccounts
PROPERTIES
    LoneChangesKeepAnAdmin
CHECK_DEADLOCK FALSE
