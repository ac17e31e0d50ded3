SPECIFICATION Spec
CONSTANTS
    None = None
    Entry = {a, b, c}
    Path = {p, q, m}
    Config = {m}
    Text = {p}
    SameSecond = FALSE
    MaxRemote = 2
    MaxHere = 1
SYMMETRY EntrySymmetry
INVARIANTS
    OwnersKeepFiles
CHECK_DEADLOCK FALSE
