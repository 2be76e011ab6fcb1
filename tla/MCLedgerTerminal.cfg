SPECIFICATION Spec
CONSTANTS
    MaxMessage = 1
    Requests = {r1, r2}
    IdleLimit = 1
    MaxCrashes = 0
SYMMETRY Symmetry
PROPERTY PromotedIsTerminal
CHECK_DEADLOCK FALSE
