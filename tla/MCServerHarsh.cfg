\* TCP with resets, time-outs, lingering blocks, overload and connections to peers.
SPECIFICATION Spec
CONSTANTS
    NULL = NULL
    t1 = t1
    t2 = t2
    l1 = l1
    u1 = u1
    b1 = b1
    b2 = b2
    d1 = d1
    Ids <- MCIds
    EventTypes <- MCEventTypes
    MAX_XTCP_CLIENTS = 1
    CLIENT_QUEUE_SIZE = 1
    MAX_OPEN_SOCKETS = 2
    TcpPcbs = {t1, t2}
    ListenPcbs = {l1}
    UdpPcbs = {u1}
    Pbufs = {b1, b2}
    TCP_WND = 1
    SEQ_NUMBERS = 1
    Protocols <- Tcp
    ClientData = {d1}
    Env = {"connect_0", "linger", "errors", "overload"}
SYMMETRY PoolSymmetry
INVARIANTS
    NoDanglingPcb
    OwnerHearsPcb
    RxBuffersOwned
    InactiveIsClean
