SPECIFICATION Spec
CONSTANTS
    Contender = {p1, p2}
    Gone = Gone
    Nothing = Nothing
    File = {f}
    MaxEdits = 1
    MaxErrors = 0
    SettledStart = TRUE
    SpacedErrors = TRUE
    Entry = {a}
    Path = {p}
    Hash = {h}
    None = None
    MaxRev = 1
    MaxId = 1
    MaxCalls = 1
    MaxTries = 1
    Offered = {"ensure"}
INVARIANTS
    OneHolder
CHECK_DEADLOCK FALSE
