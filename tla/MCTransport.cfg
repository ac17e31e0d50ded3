SPECIFICATION Spec
CONSTANTS
    Item = {1, 2, 3}
    Bare = {}
    Group = {21, 22}
    Read = {31}
    SizeOf <- ItemSize
    GrownTo <- GroupNeeds
    Cached = {2}
    MaxBytes = 4
    CacheBytes = 2
    Workers = 2
    MaxOwned = 2
    MaxDrains = 2
    MaxReads = 1
    MaxFails = 1
    HashJob = {1, 2, 3, 4}
    Slot = {1, 2}
    MaxWorkerFails = 2
    Transfer = {1, 2, 3, 4, 5}
    Lane = {"upload", "download"}
    LaneOf <- LaneOfTransfer
    InitialLimit = 2
    Maximum = 3
    MaxRequests = 3
    MaxPolicies = 2
    MaxOdd = 1
INVARIANTS
    TypesOK
    NoBytesLeak
    AdmittedFits
    OwnDigest
    NoIdleSlot
    EndIsClean
    PolicyIsLatest
PROPERTIES
    WorkComesToRest
    PoolsKeepPromise
    AnswersStay
    RequestsSettle
CHECK_DEADLOCK FALSE
