CONSTANTS
    mcq = mcq
    short = short
    essay = essay
    None = None
    Graders = {g1, g2}
    Items <- MCItems
    Kind <- MCKind
    Points <- MCPoints
    Correct <- MCCorrect
SPECIFICATION FairSpec
INVARIANTS
    GradedOnlyWhenComplete
    GradesCounted
    ResultPageComplete
PROPERTIES
    GradersFinish
