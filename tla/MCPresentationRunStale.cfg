CONSTANTS
    Workers = {w1, w2}
    MaxAttempts = 3
    MaxCrashes = 0
SPECIFICATION FairSpec
PROPERTIES
    StaleWorkersWriteNothing
CHECK_DEADLOCK FALSE
