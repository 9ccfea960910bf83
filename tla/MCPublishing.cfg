CONSTANTS
    None = None
    s1 = s1
    i1 = i1
    c1 = c1
    Sections = {s1, s2}
    Items = {i1, i2}
    Classes = {c1}
    Edits <- MCEdits
    Requests = {r1, r2}
    Settings <- MCSettings
    PerSecond = 2
    MaxTime = 3
    MaxEdits = 2
SPECIFICATION MCSpec
INVARIANTS
    TypeOK
    PublishedOnce
    LateEditsBounded
    StatusJustified
PROPERTIES
    LonePublishExact
    ScheduleHonoured
