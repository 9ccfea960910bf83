CONSTANTS
    None = None
    t1 = t1
    s1 = s1
    c1 = c1
    k1 = k1
    math = math
    physics = physics
    teacher = teacher
    pupil = pupil
    Terms = {t1, t2}
    Subjects = {s1, s2}
    Courses = {c1, c2}
    Classes = {k1, k2}
    Codes = {math, physics}
    Users = {teacher, pupil}
    Spans <- MCSpans
    Batches <- MCBatches
    Requests = {r1, r2}
    maxBulkItems = 2
    MaxEdits = 1
SPECIFICATION MCSpec
SYMMETRY Symmetry
INVARIANTS
    TypeOK
    BulkReportExact
PROPERTIES
    ArchivedIsFinal
CHECK_DEADLOCK FALSE
