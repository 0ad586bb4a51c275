CONSTANTS
    Actions = {send}
    Clients = {c1, c2}
    Workers = {w1, w2}
    MaxAttempts = 2
    MaxFaults = 0
SPECIFICATION FairSpec
INVARIANTS
    QueuedIsApproved
CHECK_DEADLOCK FALSE
