CONSTANTS
    Sessions = {k1, k2, k3}
    Chosen = {p1, p2}
    Temporary = {t1}
    Roles = {teacher, student}
    Requests = {r1, r2}
    None = None
    Ops = {"login", "refresh", "logout", "change", "reset", "roles"}
    MaxFailed = 1
    MaxVersion = 2
SYMMETRY Symmetry
SPECIFICATION Spec
INVARIANTS
    TypeOK
    OneLiveTokenPerFamily
    UsableTokensKnowPassword
    TokenRolesMatchVersion
    TemporaryPasswordsFlagged
    LockoutOvershootBounded
