SPECIFICATION Spec
CONSTANTS
    MaxPages = 3
    MaxRequests = 3
    MaxFaults = 1
    Tags = {"t"}
CHECK_DEADLOCK FALSE
INVARIANTS SubpagesGoToo
