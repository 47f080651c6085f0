CONSTANTS
    t1 = t1
    t2 = t2
    e1 = e1
    e2 = e2
    Threads = {t1, t2}
    Endpoints = {e1, e2}
    Ops = {"list", "add", "del", "wipe", "get", "set", "version"}
    Bad = Bad
    None = None
    Leaked = Leaked
SPECIFICATION FairSpec
INVARIANTS DaemonTypeOK EditorsNeverBusy ServesWithTable
PROPERTIES ImplementsTableOps LocksStayLost RequestsAdvance AnsweredOrWaits
