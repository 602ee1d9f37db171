\* Delays, suspension, deletion, notifications, event groups and timers; the tick
\* count wraps.
CONSTANTS
    low = low
    mid = mid
    high = high
    daemon = daemon
    idler = idler
    eventGroup = eventGroup
    oneShot = oneShot
    autoReload = autoReload
    Tasks <- MCTasks
    Idle = idler
    NoTask = NoTask
    MaxPriorities = 4
    TickModulus = 4
    Priority <- MCPriority
    Suppressible = 3
    MaxTicks = 5
    Queues <- MCQueues
    Groups = {eventGroup}
    Timers = {oneShot, autoReload}
    AutoReload = {autoReload}
    Periods <- MCPeriods
    Daemon = daemon
    TimerQueue = "timers"
    Streams <- MCStreams
    Scenarios <- MCScenarios
    MaxCalls <- MCMaxCalls
SPECIFICATION StreamsSpec
INVARIANTS
    KernelConsistent
    WaitsRight
    ExpiryRight
    DaemonWakesInTime
    StreamsRight
CHECK_DEADLOCK FALSE
