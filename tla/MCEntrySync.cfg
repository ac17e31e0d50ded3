SPECIFICATION FairSpec
CONSTANTS
    Content = {a, b}
    NoFile = NoFile
    Unknown = Unknown
    TooLarge = {a}
    MaxApplyTries = 3
    MaxEdits = 2
    MaxRemote = 2
    MaxFaults = 1
    MaxTogether = 5
    Overlap = "none"
    CrashWindows = {}
INVARIANTS
    TypeOK
PROPERTIES
    Converges
CHECK_DEADLOCK FALSE
