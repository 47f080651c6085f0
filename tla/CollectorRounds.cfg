CONSTANTS
    c1 = c1
    c2 = c2
    Controllers = {c1}
    NumDB = 2
    BatchLimit = 0
    MaxRows = 1
    MaxTime = 3
    Interval = 1
    RestartDelay = 1
SPECIFICATION Spec
CHECK_DEADLOCK FALSE
INVARIANTS TypeOK PublishedClosed ModuleHasExt PublishedExtExact
PROPERTIES ImplementsCommitLog PublishedIsFrozen
