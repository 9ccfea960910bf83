CONSTANTS
    Sessions = {k1, k2}
    Chosen = {p1}
    Temporary = {t1}
    Roles = {teacher}
    Requests = {r1, r2}
    None = None
    Ops = {"login", "refresh", "logout", "change", "reset", "roles"}
    MaxFailed = 1
    MaxVersion = 2
SPECIFICATION FairSpec
PROPERTIES
    ImplementsPolicy
    RequestsFinish
