SPECIFICATION FairSpec
CONSTANTS
    m1 = m1
    m2 = m2
    r1 = r1
    r2 = r2
    Messages = {m1}
    Clients = {r1, r2}
    Inbox = Inbox
    Junk = Junk
    Trash = Trash
    Other = Other
    UserFolders = {Other}
    Subfolders <- MCSubfolders
    Received <- MCReceived
    Window = 1
    Gone = Gone
    NoRow = NoRow
    MaxRequests = 2
    MaxRules = 1
    OldRules = {"BLOCK"}
    MaxTrouble = 1
CHECK_DEADLOCK FALSE
INVARIANTS MirrorHolds
PROPERTIES SweepHonours BlockedLeaves
