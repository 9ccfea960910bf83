CONSTANTS
    p0 = p0
    p1 = p1
    p2 = p2
    p3 = p3
    r1 = r1
    r2 = r2
    Nothing = Nothing
    l1 = l1
    l2 = l2
    n1 = n1
    n2 = n2
    Logins = {l1, l2}
    Names = {n1, n2}
    Passwords = {p0, p1, p2, p3}
    Requests = {r1, r2}
    Files <- MCFiles
    InitialAccounts <- MCAccountsBefore
SPECIFICATION AccountsSpec
INVARIANTS
    AccountsReported
    RecentPasswordsRefused
SYMMETRY Symmetry
\* Each request is sent once, so that the run ends when both are answered.
CHECK_DEADLOCK FALSE
