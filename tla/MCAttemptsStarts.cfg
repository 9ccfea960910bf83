CONSTANTS
    mcq = mcq
    short = short
    right = right
    wrong = wrong
    None = None
    Attempts = {a1, a2, a3}
    Students = {s1}
    Requests = {r1, r2}
    Items <- MCOneItem
    Payloads <- MCOnePayload
    Kind <- MCKind
    Accepted <- MCAccepted
    MaxAttempts = 1
    Duration = 0
    OpensAt = 0
    ClosesAt = 2
    MaxTime = 1
    MaxRevision = 1

SPECIFICATION FairSpec
INVARIANTS
    LimitOvershootBounded
PROPERTIES
    ImplementsLifecycle
    RequestsFinish
