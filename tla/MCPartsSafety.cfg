SPECIFICATION Spec
CONSTANTS
    MaxOpenings = 3
    MaxDrafts = 2
    ComposeEvents = 1
    Threads = {"a", "b"}
    MaxAsks = 2
    MaxProposals = 1
    MaxPosts = 2
    AskEvents = 3
    AskFaults = 1
    Callers = {"r1", "r2"}
    MaxIds = 2
    CalendarEvents = 4
    Ticks = {"k1", "k2"}
    Ahead = 1
    Lookback = 2
    LastMinute = 5
    SoonFaults = 1
    MaxMoves = 2
    Limit = 2
    MaxFiles = 4
    MaxTasks = 2
    MaxRequests = 3
    BoardFaults = 1
    Recurring = {1}
    Mails = {"m"}
    Folders = {"inbox", "archive"}
    Home = "inbox"
    MaxOps = 2
    MaxFetches = 2
    Queries = {"a"}
    FieldSets = {{"x", "y"}}
    PageSize = 1
    StartMail = 2
    MaxMail = 4
    MaxSearches = 2
    SearchEvents = 2
    MaxPages = 3
    PageRequests = 3
    PageFaults = 1
    Tags = {"t"}
CHECK_DEADLOCK FALSE
INVARIANTS
    ComposeHolds PagesHold BoardHolds SearchHolds ListingHolds AskHolds
    RowsKept DatesHold
PROPERTIES
    TwoTabsHold
