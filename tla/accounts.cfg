SPECIFICATION Spec
CONSTANTS
    admin = admin  officer = officer  p1 = p1  p2 = p2  t1 = t1  t2 = t2
    None = None
    User = {admin, officer}
    Password = {p1, p2}
    OldPassword <- OfficerIsOld
    DefaultUser = admin
    DefaultPassword = p1
    Thread = {t1, t2}
    MaxCalls = 2
    MaxFaults = 1
INVARIANTS TypeOK PasswordSticks AuditFollows
PROPERTY LastManager
CHECK_DEADLOCK FALSE
