SPECIFICATION FairSpec
CONSTANTS
    MaxNeeds = 2
    MaxFails = 2
    MaxPartial = 1
    MaxCalls = 2
INVARIANTS
    TypeOK
    NoLostWakeup
PROPERTIES
    SyncNowHonest
    NeedsAreMet
CHECK_DEADLOCK FALSE
