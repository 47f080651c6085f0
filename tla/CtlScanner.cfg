CONSTANTS
    t1 = t1
    t2 = t2
    Callers = {t1, t2}
    MaxAddr = 5
    BatchLimit = 1
    MaxScans = 2
SPECIFICATION FairSpec
CHECK_DEADLOCK FALSE
INVARIANTS ScannerTypeOK OneScan FoundInRange LockHasOwner
PROPERTIES ImplementsScanJob ScanAdvances ScanEnds
