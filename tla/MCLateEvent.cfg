\* A connection is closed and its entry used again.
SPECIFICATION Spec
CONSTANTS
    NULL = NULL
    t1 = t1
    t2 = t2
    l1 = l1
    u1 = u1
    b1 = b1
    b2 = b2
    d1 = d1
    Ids <- MCIds
    EventTypes <- MCEventTypes
    MAX_XTCP_CLIENTS = 1
    CLIENT_QUEUE_SIZE = 2
    MAX_OPEN_SOCKETS = 2
    TcpPcbs = {t1, t2}
    ListenPcbs = {l1}
    UdpPcbs = {u1}
    Pbufs = {b1, b2}
    TCP_WND = 2
    SEQ_NUMBERS = 3
    Protocols <- Tcp
    ClientData = {}
    Env = {"linger"}
SYMMETRY PoolSymmetry
INVARIANTS
    NoStrayEvents
