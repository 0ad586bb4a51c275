CONSTANTS
    r1 = r1
    r2 = r2
    s1 = s1
    s2 = s2
    w1 = w1
    w2 = w2
    a1 = a1
    a2 = a2
    a3 = a3
    l1 = l1
    l2 = l2
    l3 = l3
    none = none
    Payers <- Requests
    Costs <- TwoCosts
    Allowances <- OneAllowance
    DefaultAllowance = 3
    Grants <- NoneOrOne
    MaxMonth = 2
    MaxPays = 4
    Editing <- Requests
    Slides <- TwoSlides
    Wordings <- OneTask
    Absent = none
    MaxRevisions = 3
    MaxKits = 2
    MaxEditing = 3
    Callers <- Requests
    Works <- OneTask
    Tools <- TwoSlides
    MaxCalls = 4
    Deliveries <- Requests
    Stamps = {1, 2}
    InboxRows = 2
    MaxDeliveries = 3
    Personas <- ThreePersonas
    Parents <- OneParent
    NoParent = none
    Turns <- Requests
    MaxDelegationDepth = 3
    MaxWorkerAgents = 1
    MaxChildTasks = 1
    MaxTurns = 3
    MaxDelegations = 3
    Chats <- Requests
    Tasks <- OneTask
    MaxChats = 5
    Sharers <- Requests
    Links <- ThreeLinks
    MAX_ACTIVE_PER_DIAGRAM = 1
    MaxHours = 1
    MaxSaves = 1
    MaxClock = 1
    MaxSharings = 4
    Mailers <- Requests
    Uids <- TwoStamps
    MaxItems = 3
    MaxMails = 3
    Planners <- Requests
    WorkItems <- OneTask
    Lunch = none
    DiscardsKept = 1
    MaxPlanRequests = 3
    MaxNews = 1
    Configs <- TwoDays
    Agendas <- SomeAgendas
    MeetingMinutes = 3
    AdminMinutes = 2
    MAX_STEPS = 8
    Writers <- Requests
    Texts <- TwoWordings
    Prepared = w1
    Blank = w2
    MaxWrites = 4
    StandupWorkers <- StandupWorker
    IntegrationWorkers <- IntegrationWorker
    Tries <- FewTries
    Produced = {"deliver", "integration.execute", "coding"}
    MaxQueued = 2
    MaxDeaths = 1
    Setters <- Requests
    MaxSettings = 3
    Linkers <- Requests
    Homes <- TwoWordings
    HomeOf <- OneOfFirst
    Unbound = none
    MaxLinkings = 3
    Posters <- Requests
    Boxes <- TwoStamps
    OAuthBoxes <- OneParent
    NoBox = none
    Consents <- OneTask
    MaxPostings = 3
    People <- Requests
    CurrentGoals = 1
    Observations <- TwoSlides
    MaxProfileCalls = 3
    Dialers <- Requests
    SeedSpan <- TwoEvents
    DraftSpans <- SomeSpans
    MaxDials = 3
    Askers <- Requests
    Sessions <- TwoSlides
    AskedFor <- SomeIntents
    HistoryTurns = 1
    MaxAsked = 3
    Chatters <- Requests
    MaxChatting = 4
    Operators <- Requests
    RunIds <- TwoSlides
    RequireApproval = TRUE
    WriteEnabled = FALSE
    Work <- ThreeThings
    Sort <- SortOfThings
    Words <- WordsOfThings
    Size <- SizeOfThings
    Collectors = {l1, l2}
    Reviewer = l1
    MaxBullets = 2
    MaxEvents = 4
    Messages <- FiveMessages
    Topics <- ThreePersonas
    FirstTopics <- TwoTopics
    MaxOps = 2
    Pushers = {l1, l2}
    MaxMapping = 2
    Composers <- Requests
    Projects <- TwoWordings
    NoProject = none
    NameLength <- LengthOfNames
    OnHold <- OneTask
    Records <- FourRecords
    ReadAhead <- TwoRows
    Told <- OneRow
    Said <- TwoSayings
    GrantChoices <- TwoGrants
    MaxComposed = 3
    PageUrls <- TwoWordings
    WellFormed <- OneTask
    PublicIps = {a1}
    PrivateIps = {a2}
    MAX_REDIRECTS = 1
    MAX_PAGE_BYTES = 1
    MAX_LINE_CHARS = 6
    MinRoom = 2
    MAX_TEXT_CHARS = 20
    SkipTags = {"nav"}
    Headings = {"h1"}
    Lists = {"ul"}
    Blocks = {"p", "ul"}
    Void = {}
    TextLines <- ThreeLines
    MaxTokens = 3
    Faces = {a1, a2}
    Refs = {s1, s2}
    NoRef = none
    Viewers <- Requests
    Packages <- ThreePackages
    Appearances <- OneAppearance
    Bytes = {"image", "page"}
    HostOrder <- ThreeHosts
    HostKind <- KindOfHosts
    StaticHosts = {l1}
    MAX_CANDIDATES = 3
    MaxPortraits = 2
    Emails = {w1, w2}
    Signers <- Requests
    MAX_FAILURES = 1
    LockoutWindow = 1
    SessionTtl = 2
    Seeded = TRUE
    MaxSignInTime = 2
    MaxSignIns = 4
    Recorders <- Requests
    Tailers = {l1}
    HomeSpace = w1
    EventKinds <- AwayEvent
    NoticeKinds <- HomeNotice
    FlowIds = {"email_request_to_followup", "slack_message_to_task", "github_failure_to_notify"}
    MaxSeq = 3
    MaxArtifacts = 1
    StreamLimit = 2
    NewestLimit = 2
    PullLimits = {1}
    RowIds = {1, 2, 3}
    MaxTime = 2
    Listings <- SomeListings
    MaxRemovals = 1
    StatusPatches = {"none"}
    Makers <- Requests
    OldProjects = {a1}
    DesignIds = {a1, a2}
    Unfound = none
    Roadmaps <- OneRoadmap
    FindingSets <- TwoFindings
    MaxIntakes = 1
    MaxReviews = 2
    SignalLimit = 2
    Generators <- Requests
    Uploads <- ThreeUploads
    Outputs <- OneOutput
    Questions <- TwoQuestions
    NoScope = none
    Folders = {s1}
    Placeholder = w2
    ExtrasThere = TRUE
    ChunkSize = 2
    Weight <- WeightOfChunks
    PassageLimit = 2
    MaxDocuments = 3
    MaxReindexed = 2
    IndexTries = 1
SPECIFICATION Spec
SYMMETRY Interchange
INVARIANTS
    TypeOK
    
    LastWordHolds
    
    
    HappensOnce
    
    
    PastKept
    ViewsSound
    GivenUpInTime
    KeysStayHome
    
CHECK_DEADLOCK FALSE
