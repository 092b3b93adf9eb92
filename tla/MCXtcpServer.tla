--------------------------- MODULE MCXtcpServer ---------------------------
(* XtcpServer for TLC. *)
EXTENDS XtcpServer

\* Control blocks, buffers and a client's pointer, as model values.
CONSTANTS t1, t2, l1, u1, b1, b2, d1

MCIds == Sockets
MCEventTypes == ServerEvents

Tcp == {XTCP_PROTOCOL_TCP}
Udp == {XTCP_PROTOCOL_UDP}
TcpUdp == Tcp \cup Udp

\* Control blocks of a pool, and buffers, are interchangeable.
PoolSymmetry == Permutations(TcpPcbs) \cup Permutations(Pbufs)

===========================================================================
