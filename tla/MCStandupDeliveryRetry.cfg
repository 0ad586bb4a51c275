CONSTANTS
    Clients = {c1}
    Workers = {w1}
    Texts = {"", "done"}
    Days = {"monday"}
    MaxRequests = 1
    MaxJobs = 1
    MaxAttempts = 2
    Faults = {"timeout"}
SPECIFICATION Spec
INVARIANTS
    NoSecondReply
CHECK_DEADLOCK FALSE
