SPECIFICATION FairSpec
CONSTANTS
    m1 = m1
    w1 = w1
    w2 = w2
    Messages = {m1}
    Workers = {w1, w2}
    MaxSnoozes = 2
    MaxFaults = 1
    Nothing = Nothing
INVARIANTS SnoozesHold
PROPERTIES NotEarly DueEnds
