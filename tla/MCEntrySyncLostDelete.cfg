SPECIFICATION FairSpec
CONSTANTS
    Content = {a, b}
    NoFile = NoFile
    Unknown = Unknown
    TooLarge = {}
    MaxApplyTries = 3
    MaxEdits = 1
    MaxRemote = 0
    MaxFaults = 1
    MaxTogether = 5
    Overlap = "none"
    CrashWindows = {"delete"}
PROPERTIES
    Converges
CHECK_DEADLOCK FALSE
