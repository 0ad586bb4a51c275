CONSTANTS
    Clients = {c1, c2}
    Workers = {w1}
    Texts = {"", "done"}
    Days = {"monday"}
    MaxRequests = 4
    MaxJobs = 2
    MaxAttempts = 1
    Faults = {}
SPECIFICATION Spec
INVARIANTS
    TypeOK
    OnlyConsentedText
    OneReply
PROPERTIES
    SkippedStaysSilent
    SentIsFinal
CHECK_DEADLOCK FALSE
