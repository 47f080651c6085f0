CONSTANTS
    r1 = r1
    row = row
    NumDB = 4
    RowSets <- MCRowSets
    MaxTime = 3
    Clients = {r1}
    Kinds = {"poool", "report"}
    Window = 1
SPECIFICATION Spec
CHECK_DEADLOCK FALSE
INVARIANTS RereadersOneCollection
