\* What must happen when the tasks are scheduled, and the abstract channel.
\* One message fills each queue.
CONSTANTS
    MAX_QUE_SIZE = 1
    PositionStatus = {TRUE}
    MaxColours = 3
    MaxIrqs = 1
SPECIFICATION FairSpec
PROPERTIES
    ImplementsChannel
    StartupCompletes
    BurstDrains
    SendsEnd
CHECK_DEADLOCK FALSE
