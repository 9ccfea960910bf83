CONSTANTS
    Values = {v1, v2}
    MaxJobs = 2
    None = None
SPECIFICATION FairSpec
INVARIANTS
    LastEditKept
PROPERTIES
    LastEditArrives
