CONSTANTS
    t1 = t1
    t2 = t2
    t3 = t3
    s1 = s1
    s2 = s2
    n1 = n1
    p1 = p1
    p2 = p2
    Threads = {t1, t2, t3}
    Sessions = {s1}
    Nodes = {n1}
    Scripts = {p1}
    MaxChunks = 2
    CountModulus = 3
    None = None
SPECIFICATION FairSpec
CHECK_DEADLOCK FALSE
INVARIANTS RTACTypeOK LoopsSeeListed ClearedIsOver FinishedIsComplete
PROPERTIES ImplementsTaskList SessionEnds
