\* Any call may fail, and the process may be killed and started again: what is
\* lost, what a frame may go through, and what must happen when the two threads are
\* scheduled.
CONSTANTS
    MQ_MAXMSG = 2
    Failures = {"setup", "mq_open", "fopen", "read"}
    MaxFrames = 3
    MaxReadErrors = 1
    MaxStarts = 2
    COM_TASK_PORT = 1000
    MAX_QUE_SIZE = 1
    RecordLen = 2
    StreamSize = 2
    MaxRuns = 1
    Plans <- MCPlans
SPECIFICATION MCSpec
INVARIANTS
    CrashLoss
    NeverBackwards
    SocketsRight
PROPERTIES
    ImplementsChannel
    EndsAfterNextFrame
    QueueDrains
    SocketsLive
CHECK_DEADLOCK FALSE
