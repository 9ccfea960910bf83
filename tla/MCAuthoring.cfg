CONSTANTS
    exam = exam
    s1 = s1
    s2 = s2
    s3 = s3
    s4 = s4
    i1 = i1
    i2 = i2
    i3 = i3
    i4 = i4
    i5 = i5
    i6 = i6
    q1 = q1
    q2 = q2
    v1 = v1
    v2 = v2
    v3 = v3
    v4 = v4
    None = None
    Assessment = exam
    Sections = {s1, s2, s3, s4}
    Items = {i1, i2, i3, i4, i5, i6}
    Questions = {q1, q2}
    Versions = {v1, v2, v3, v4}
    Positions = {0, 10}
    Orders <- MCOrders
    InitialRows <- MCRows
    Requests = {r1, r2}
SPECIFICATION Spec
INVARIANTS TypeOK VersionsInOrder
PROPERTIES ReorderHonoured RequestsFinish
CHECK_DEADLOCK FALSE
