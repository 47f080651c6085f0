CONSTANTS
    t1 = t1
    t2 = t2
    e1 = e1
    e2 = e2
    Threads = {t1, t2}
    Endpoints = {e1, e2}
    Ops = {"get", "set"}
    Bad = Bad
    None = None
    Leaked = Leaked
SPECIFICATION FairSpec
PROPERTIES RequestsAnswered
