SPECIFICATION Spec
CONSTANTS
    None = None
    Entry = {a, b, c}
    Path = {p, q, m}
    Config = {m}
    Text = {p}
    SameSecond = FALSE
    MaxRemote = 2
    MaxHere = 2
SYMMETRY EntrySymmetry
INVARIANTS
    PullTypeOK
    LocalWorkSurvives
    PullDelivers
    GroupsAreApart
    RaisesOnlyOnClash
PROPERTIES
    FailureRestores
CHECK_DEADLOCK FALSE
