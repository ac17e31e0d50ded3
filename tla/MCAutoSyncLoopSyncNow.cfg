SPECIFICATION Spec
CONSTANTS
    MaxNeeds = 1
    MaxFails = 1
    MaxPartial = 0
    MaxCalls = 1
PROPERTIES
    FailureMeansUnfinished
CHECK_DEADLOCK FALSE
