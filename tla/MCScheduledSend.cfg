SPECIFICATION FairSpec
CONSTANTS
    m1 = m1  m2 = m2
    w1 = w1  w2 = w2
    Msgs = {m1, m2}
    Workers = {w1, w2}
    MaxDelay = 1
    StuckAfter = 1
    MaxCrashes = 1
    NoMsg = NoMsg
INVARIANTS DeliveryHolds
PROPERTIES SettledIsFinal ImplementsOneShot DueIsSettled
