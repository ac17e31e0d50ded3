SPECIFICATION Spec
CONSTANTS
    Contender = {p1, p2, p3}
    Gone = Gone
    Nothing = Nothing
    File = {f}
    MaxEdits = 3
    MaxErrors = 1
    SettledStart = TRUE
    SpacedErrors = TRUE
    Entry = {a, b}
    Path = {p, q}
    Hash = {h}
    None = None
    MaxRev = 1
    MaxId = 3
    MaxCalls = 3
    MaxTries = 3
    Offered = {"ensure", "remote", "local", "clear", "upsert", "delete", "mark",
               "block", "clean", "reconcile", "blob", "connection"}
INVARIANTS
    TypesOK
    OneHolderUnlessBreached
    SomebodyWins
    OneHook
    MetadataOpens
PROPERTIES
    StoreKeepsPromise
    ChangesAreRecorded
    ChangesAreReported
CHECK_DEADLOCK FALSE
