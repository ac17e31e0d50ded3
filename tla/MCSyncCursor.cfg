SPECIFICATION FairSpec
CONSTANTS
    Entry = {e1, e2, e3}
    NoTarget = NoTarget
    PageSize = 1
    ApplyWindow = 2
    MaxHead = 3
    MaxBreaks = 1
INVARIANTS
    TypeOK
    NothingSkipped
PROPERTIES
    CatchesUp
CHECK_DEADLOCK FALSE
