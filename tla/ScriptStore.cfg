CONSTANTS
    t1 = t1
    t2 = t2
    t3 = t3
    n1 = n1
    n2 = n2
    c1 = c1
    c2 = c2
    Threads = {t1, t2, t3}
    Names = {n1, n2}
    Contents = {c1, c2}
    Hole = Hole
    None = None
    InitialFiles <- MCInitialFiles
SPECIFICATION Spec
SYMMETRY ThreadSymmetry
VIEW View
CHECK_DEADLOCK FALSE
INVARIANTS StoreTypeOK UniqueNames AddedIsOnFile ReadersSeeWhole ExecUsesStored
