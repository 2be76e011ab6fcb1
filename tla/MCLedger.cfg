SPECIFICATION Spec
CONSTANTS
    MaxMessage = 2
    Requests = {r1, r2, r3}
    IdleLimit = 1
    MaxCrashes = 1
SYMMETRY Symmetry
CHECK_DEADLOCK FALSE
INVARIANTS LedgerHolds 
PROPERTIES PromotedStays
