CONSTANTS
    t1 = t1
    t2 = t2
    t3 = t3
    n1 = n1
    n2 = n2
    c1 = c1
    c2 = c2
    Threads = {t1, t2}
    Names = {n1, n2}
    Contents = {c1}
    Hole = Hole
    None = None
    InitialFiles <- MCInitialFiles
SPECIFICATION FairSpec
CHECK_DEADLOCK FALSE
PROPERTIES RequestsEnd
