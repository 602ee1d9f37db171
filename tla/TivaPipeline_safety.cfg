\* Queues of length 2: order inside a queue matters, and every send can meet a
\* full queue.
CONSTANTS
    MAX_QUE_SIZE = 2
    PositionStatus = {TRUE}
    MaxColours = 4
    MaxIrqs = 2
SPECIFICATION Spec
INVARIANTS
    TypeOK
    HandlesReady
    OrderKept
    Accounted
    SamplePerInterrupt
    ZXPacedByStatusReads
CHECK_DEADLOCK FALSE
