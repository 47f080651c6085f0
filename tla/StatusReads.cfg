CONSTANTS
    r1 = r1
    row = row
    NumDB = 4
    RowSets <- MCRowSets
    MaxTime = 2
    Clients = {r1}
    Kinds = {"status", "history", "poool", "report", "farmap", "issues"}
    Window = 1
SPECIFICATION Spec
CHECK_DEADLOCK FALSE
INVARIANTS ReadsAreFinal StatusOneCollection
PROPERTIES KeepsArchive
