SPECIFICATION Spec
CONSTANTS
    Content = {a, b}
    NoFile = NoFile
    Unknown = Unknown
    TooLarge = {}
    MaxApplyTries = 3
    MaxEdits = 2
    MaxRemote = 1
    MaxFaults = 0
    MaxTogether = 5
    Overlap = "all"
    CrashWindows = {}
SYMMETRY ContentSymmetry
PROPERTIES
    PullLosesNothing
CHECK_DEADLOCK FALSE
