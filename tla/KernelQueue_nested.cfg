\* Two mutexes, one asked for while the other is held.
CONSTANTS
    low = low
    mid = mid
    high = high
    idler = idler
    Tasks <- MCTasks
    Idle = idler
    NoTask = NoTask
    MaxPriorities = 4
    TickModulus = 8
    Priority <- MCPriority
    Suppressible = 3
    MaxTicks = 5
    Queues <- MCMutexes
    Scenarios <- MCNested
    MaxCalls <- MCNestedCalls
SPECIFICATION Spec
INVARIANT
    SelectsATask
CHECK_DEADLOCK FALSE
