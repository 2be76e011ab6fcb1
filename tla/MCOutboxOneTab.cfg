SPECIFICATION FairSpec
CONSTANTS
    t1 = t1
    f1 = f1
    f2 = f2
    Tabs = {t1}
    Folders = {f1, f2}
    MaxOps = 2
    MaxAttempts = 2
    MaxWait = 1
    BatchSize = 2
    MaxReloads = 1
    MaxFailures = 2
INVARIANTS OrderHolds
PROPERTIES OpsAccounted QueueDrains
