CONSTANTS
    mcq = mcq
    short = short
    right = right
    wrong = wrong
    None = None
    Attempts = {a1}
    Students = {s1, s2}
    Requests = {r1, r2, r3}
    Items <- MCOneItem
    Payloads <- MCPayloads
    Kind <- MCKind
    Accepted <- MCAccepted
    MaxAttempts = 1
    Duration = 1
    OpensAt = 0
    ClosesAt = 2
    MaxTime = 2
    MaxRevision = 2
SYMMETRY Symmetry
SPECIFICATION Spec
INVARIANTS
    TypeOK
    ScoreMatchesAnswers
    SubmitRepliesAgree
    AcknowledgedAnswersStored
