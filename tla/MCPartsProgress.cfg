SPECIFICATION Spec
CHECK_DEADLOCK FALSE
CONSTANTS
    MaxIterations = 3
    MaxCallsPerIteration = 2
    Requests = {"r1", "r2"}
    MailLimit = 2
    MaxTime = 3
    MaxMade = 2
    MaxFaults = 2
    Workers = {"w1", "w2"}
    DocTexts = {"a", "b"}
    Unwritten = "unwritten"
    FailureLimit = 2
    MaxUpdates = 2
    Calls = {"c1", "c2"}
    MaxAgents = 4
    MaxEvents = 4
    Users = {"ann", "bob"}
    MaxMessage = 3
    Owner <- OwnerDef
    PerUser <- PerUserDef
    Total <- TotalDef
    HeadroomFactor = 1
    BatchEvents = 3
    Tabs = {"ann", "guest"}
    Guests = {"guest"}
    MaxOpens = 3
    MaxEdits = 2
    Mails = {"m1", "d"}
    Drafts = {"d"}
    Folders <- FoldersDef
    ReaderOpens = 2
    ReaderEvents = 2
INVARIANTS
    TurnsHold BriefsFresh RowsOfDocuments ConnectionsHold CardsHavePromises
    DocumentsHold 
PROPERTIES
    TurnsEnd DocumentsSettle BatchesFair EverybodysTurn DocumentsConverge
