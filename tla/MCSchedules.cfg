CONSTANTS
    e1 = e1
    w1 = w1
    w2 = w2
    t1 = t1
    t2 = t2
    o1 = o1
    o2 = o2
    Editors <- OneEditor
    Runners <- TwoRunners
    Cron = {}
    Plans <- DailyPlans
    Horizon = 2
    ReviewRows = 7
    ReviewTries = 2
    MaxEdits = 1
    MaxFaults = 1
    Tickers <- TwoTickers
    Owners <- TwoOwners
    Schedules <- DailyPlans
    WeekLength = 2
    CatchUp = 0
    MaxNow = 2
    MaxRequests = 2
    MaxTickerDeaths = 1
SPECIFICATION FairSpec
INVARIANTS
    TypeOK
    
    OneArmed
    OneDraft
    FiredOnce
    SwitchedOnIsArmed

    
CHECK_DEADLOCK FALSE
