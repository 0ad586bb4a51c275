CONSTANTS
    Clients = {c1}
    Workers = {w1}
    Texts = {"", "done"}
    Days = {"monday"}
    MaxRequests = 1
    MaxJobs = 1
    MaxAttempts = 1
    Faults = {"outage"}
SPECIFICATION FairSpec
PROPERTIES
    FailureShows
CHECK_DEADLOCK FALSE
