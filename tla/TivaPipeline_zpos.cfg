\* The status register may say that no position is available.
CONSTANTS
    MAX_QUE_SIZE = 1
    PositionStatus = {TRUE, FALSE}
    MaxColours = 3
    MaxIrqs = 1
SPECIFICATION Spec
INVARIANT ZPosIsAPosition
CHECK_DEADLOCK FALSE
