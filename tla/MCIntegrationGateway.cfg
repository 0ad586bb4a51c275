CONSTANTS
    Actions = {send}
    Clients = {c1, c2}
    Workers = {w1, w2}
    MaxAttempts = 2
    MaxFaults = 1
SPECIFICATION Spec
INVARIANTS
    TypeOK
    ApprovalGates
    
    RetriesAreBounded
    RejectionHolds
PROPERTIES
    SuccessIsFinal
CHECK_DEADLOCK FALSE
