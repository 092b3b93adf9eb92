\* A socket opened without a protocol transmits.
SPECIFICATION CallsSpec
CONSTANTS
    NULL = NULL
    t1 = t1
    l1 = l1
    u1 = u1
    b1 = b1
    x1 = x1
    Ids <- MCIds
    EventTypes <- MCEventTypes
    MAX_XTCP_CLIENTS = 2
    CLIENT_QUEUE_SIZE = 1
    MAX_OPEN_SOCKETS = 2
    TcpPcbs = {t1}
    ListenPcbs = {l1}
    UdpPcbs = {u1}
    Pbufs = {b1}
    TCP_WND = 1
    SEQ_NUMBERS = 1
    Protocols <- NoneOnly
    ClientData = {}
    Env = {"connect"}
    TxPbufs = {x1}
    Options = {}
    OptionValues = {}
INVARIANTS
    TxBuffersReturned
