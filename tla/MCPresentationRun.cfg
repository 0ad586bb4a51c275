CONSTANTS
    Workers = {w1, w2}
    MaxAttempts = 3
    MaxCrashes = 2
SPECIFICATION FairSpec
INVARIANTS
    TypeOK
    EpochsAreExclusive
    AttemptsFollowEpochs
    NewestFileWins
PROPERTIES
    CancelFences
    RunSettles
    FencedImplemented
CHECK_DEADLOCK FALSE
