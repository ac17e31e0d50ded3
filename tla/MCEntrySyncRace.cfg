SPECIFICATION Spec
CONSTANTS
    Content = {a, b}
    NoFile = NoFile
    Unknown = Unknown
    TooLarge = {}
    MaxApplyTries = 2
    MaxEdits = 4
    MaxRemote = 2
    MaxFaults = 2
    MaxTogether = 4
    Overlap = "all"
    CrashWindows = {"upsert", "delete"}
SYMMETRY ContentSymmetry
INVARIANTS
    CursorCoversOnlyApplied
    PublishedBytesMatchHash
    StaleIsPullable
PROPERTIES
    LossTakesOverlap
    PendingEditSurvives
CHECK_DEADLOCK FALSE
