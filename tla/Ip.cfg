\* The network stack below TCP: DHCP, ARP, UDP sockets, ping and name lookup.
SPECIFICATION Spec
CONSTANTS
    Plans <- MCPlans
    Starts <- MCStarts
    Servers <- MCServers
    Pool <- MCPool
    Hosts <- MCHosts
    Macs <- MCMacs
    Options <- MCOptions
    AnswerOf <- MCAnswerOf
    Kept <- MCKept
    OnLink <- MCOnLink
    Sockets <- MCSockets
    NoSocket = NoSocket
    s1 = s1 s2 = s2 a1 = a1 a2 = a2 v1 = v1 v2 = v2 h1 = h1 h2 = h2
    m1 = m1 m2 = m2 w1 = w1 w2 = w2 n1 = n1 n2 = n2 n3 = n3 k1 = k1 k2 = k2
    NoAddress = NoAddress
    NoAnswer = NoAddress
    Broadcast = Broadcast
    DefaultAddress = DefaultAddress
    NoMac = NoMac
    MyMac = MyMac
    MacBroadcast = MacBroadcast
    NoName = NoName
    CacheEntries = 2
    MaxAge = 2
    MaxRetransmissions = 2
    RequestAge = 1
    DnsEntries = 2
    Buffers = 3
    EventLength = 3
    AutoPorts = 3
    DnsPort = 4
    DhcpPort = 5
    UserPort = 7
    DnsAttempts = 2
    MaxPeriod = 2
INVARIANTS
    BuffersAndSocketsKept
    CachesRight
    LeaseIsOurs
\* The IP task may spin for a buffer that an application does not give back.
CHECK_DEADLOCK FALSE
