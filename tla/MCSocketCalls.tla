--------------------------- MODULE MCSocketCalls ---------------------------
(* SocketCalls for TLC. *)
EXTENDS SocketCalls

CONSTANTS t1, l1, u1, b1, x1

MCIds == Sockets
MCEventTypes == ServerEvents

NoneOnly == {XTCP_PROTOCOL_NONE}
AllProtocols == {XTCP_PROTOCOL_NONE, XTCP_PROTOCOL_TCP, XTCP_PROTOCOL_UDP}

\* One option of every block, one of UDP blocks, and the flag.
MCOptions == {"XTCP_IP_SOCKET_OPTION_TOS", "XTCP_IP_SOCKET_OPTION_MULTICAST_TTL",
              MULTICAST_LOOP}

=============================================================================
