CONSTANTS
    e1 = e1
    w1 = w1
    w2 = w2
    t1 = t1
    t2 = t2
    o1 = o1
    o2 = o2
    Editors <- OneEditor
    Runners <- OneRunner
    Cron <- OneRunner
    Plans <- DailyPlans
    Horizon = 2
    ReviewRows = 7
    ReviewTries = 2
    MaxEdits = 0
    MaxFaults = 0
    Tickers <- NoTickers
    Owners <- TwoOwners
    Schedules <- DailyPlans
    WeekLength = 2
    CatchUp = 0
    MaxNow = 2
    MaxRequests = 0
    MaxTickerDeaths = 1
SPECIFICATION FairSpec
PROPERTIES
    DueReviewsRun
CHECK_DEADLOCK FALSE
