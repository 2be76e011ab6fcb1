SPECIFICATION FairSpec
CONSTANTS
    i1 = i1
    i2 = i2
    k1 = k1
    k2 = k2
    r1 = r1
    Tasks = {i1, i2}
    Ticks = {k1, k2}
    Requests = {r1}
    LastNth = 2
    MaxEdits = 1
    MaxFaults = 1
    Nothing = Nothing
INVARIANTS RemindersHold
PROPERTIES DueIsSent
