\* Link and DNS events for two clients, two requests under way, a socket to close.
SPECIFICATION NetifSpec
CONSTANTS
    NULL = NULL
    r1 = r1
    r2 = r2
    Ids <- MCIds
    EventTypes <- MCEventTypes
    MAX_XTCP_CLIENTS = 2
    CLIENT_QUEUE_SIZE = 2
    MAX_OPEN_SOCKETS = 1
    TcpPcbs = {}
    ListenPcbs = {}
    UdpPcbs = {}
    Pbufs = {}
    TCP_WND = 0
    SEQ_NUMBERS = 1
    Protocols <- MCNone
    ClientData = {}
    Env = {}
    DnsRequests = {r1, r2}
    MaxUnheard = 2
INVARIANTS
    LinkViewCurrent
    DnsResultsAccounted
PROPERTIES
    LinkUpHeard
