CONSTANTS
    c1 = c1
    x1 = x1
    x2 = x2
    k1 = k1
    k2 = k2
    r1 = r1
    r2 = r2
    None = None
    ResourceIds = {x1, x2}
    Classes = {c1}
    Users = {teacher, student}
    Admins = {}
    Teachers = {teacher}
    Keys = {k1, k2}
    Requests = {r1, r2}
    InitialTables <- MCTables
    Uploads <- MCUploads
    Providers = {"local", "supabase"}
    MaxRetries = 1
    MaxChanges = 1
SPECIFICATION Spec
SYMMETRY Symmetry
INVARIANTS TypeOK RowsHaveObjects RepliesJustified
\* Each request is sent once, so that the run ends when both are answered.
CHECK_DEADLOCK FALSE
