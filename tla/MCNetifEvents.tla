--------------------------- MODULE MCNetifEvents ---------------------------
(* NetifEvents for TLC. *)
EXTENDS NetifEvents

CONSTANTS r1, r2

MCIds == Sockets \cup {XTCP_SUCCESS, XTCP_ENOMEM}
MCEventTypes == ServerEvents \cup {"XTCP_DNS_RESULT"} \cup LinkEvents
MCNone == {XTCP_PROTOCOL_NONE}

=============================================================================
