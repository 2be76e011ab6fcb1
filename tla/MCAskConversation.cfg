SPECIFICATION Spec
CONSTANTS
    Threads = {"a"}
    MaxAsks = 1
    MaxProposals = 1
    MaxPosts = 1
    MaxEvents = 2
    MaxFaults = 1
CHECK_DEADLOCK FALSE
INVARIANTS StopKeepsCards
