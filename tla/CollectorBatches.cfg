CONSTANTS
    c1 = c1
    c2 = c2
    Controllers = {c1, c2}
    NumDB = 3
    BatchLimit = 0
    MaxRows = 1
    MaxTime = 1
    Interval = 1
    RestartDelay = 1
SPECIFICATION FairSpec
CHECK_DEADLOCK FALSE
INVARIANTS OneConnectionIssue UnreachableHasNoSummary NoSilentLoss
PROPERTIES CollectionAdvances CollectionPublished
