CONSTANTS
    Letters = {"D", "N"}
    MaxLength = 7
SPECIFICATION Spec
CHECK_DEADLOCK FALSE
INVARIANTS ParsesItems
