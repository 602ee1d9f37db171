\* A mutex that changes hands while a timed out task looks for it again.
CONSTANTS
    low = low
    mid = mid
    high = high
    idler = idler
    Tasks <- MCTasks
    Idle = idler
    NoTask = NoTask
    MaxPriorities = 4
    TickModulus = 8
    Priority <- MCPriority
    Suppressible = 3
    MaxTicks = 5
    Queues <- MCMutexes
    Scenarios <- MCOvertaken
    MaxCalls <- MCOvertakenCalls
SPECIFICATION Spec
INVARIANT
    AdjustedTimeoutNotZero
CHECK_DEADLOCK FALSE
