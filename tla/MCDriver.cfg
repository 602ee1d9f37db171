\* A queue and a mutex among three tasks and an interrupt; the tick count wraps.
\* Two buffers, two descriptors in each ring, an event queue of one, and a heap
\* that runs out.
CONSTANTS
    low = low
    mid = mid
    high = high
    idler = idler
    Tasks <- MCTasks
    Idle = idler
    NoTask = NoTask
    MaxPriorities = 4
    TickModulus = 4
    Priority <- MCPriority
    Suppressible = 3
    MaxTicks = 4
    Queues <- MCQueues
    Scenarios <- MCScenarios
    MaxCalls <- MCMaxCalls
    HeapUnits = 8
    NULL = NULL
    Buffers = {b1, b2}
    RxRing = 2
    TxRing = 2
    EventLength = 1
    Sizes = {2}
    Frames <- MCFrames
    MaxFrames = 3
    MaxSends = 1
    MaxOther = 1
SPECIFICATION MCSpec
INVARIANTS
    HighestRuns
    NoLostWakeup
    InheritanceRight
    BuffersAccounted
PROPERTIES
    NoEarlyTimeout
    FifoSpec
    DriverIsChannel
CHECK_DEADLOCK FALSE
