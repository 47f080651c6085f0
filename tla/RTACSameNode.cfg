CONSTANTS
    t1 = t1
    t2 = t2
    t3 = t3
    s1 = s1
    s2 = s2
    n1 = n1
    p1 = p1
    p2 = p2
    Threads = {t1}
    Sessions = {s1, s2}
    Nodes = {n1}
    Scripts = {p1, p2}
    MaxChunks = 1
    CountModulus = 2
    None = None
SPECIFICATION Spec
CHECK_DEADLOCK FALSE
INVARIANTS RunsOwnScript
