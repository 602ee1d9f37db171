\* Two TCP stacks and their applications.
SPECIFICATION Spec
CONSTANTS
    Client = Client Server = Server NoNode = NoNode
    Nodes <- MCNodes
    Sockets <- MCSockets
    NoSocket = NoSocket
    s1 = s1 s2 = s2 s3 = s3
    ServerPort = 11
    RecvMax = 2
    Plans <- MCPlans
    SeqMod = 1024
    MSS = 2
    IsnStep = 40
    RxLength = 3
    TxLength = 3
    LittleSpace = 0
    EnoughSpace = 2
INVARIANTS
    SocketsKept
    NobodyWaitsInVain
PROPERTIES
    PipeSpec
\* An application may wait for a segment that was lost for good.
CHECK_DEADLOCK FALSE
