---------------------------- MODULE SocketCalls ----------------------------
(***************************************************************************)
(* The calls that work through a socket's control block: send and sendto   *)
(* with their transmit buffers (pbuf_shim.c, shim_send, shim_sendto) and   *)
(* the socket options (shim_getsockopt, shim_setsockopt), composed with    *)
(* the server of XtcpServer, whose sockets come and go meanwhile.          *)
(*                                                                         *)
(* A transmit buffer is counted: the server holds one reference while it   *)
(* sends, and lwIP takes another for a datagram it has to keep until the   *)
(* receiver's hardware address is known.  TCP copies the data.  A send is  *)
(* three steps (allocate, hand over to lwIP, free), between which nothing  *)
(* else runs.                                                              *)
(***************************************************************************)
EXTENDS XtcpServer

CONSTANTS
    TxPbufs,        \* lwIP's pool of transmit buffers
    Options,        \* xtcp_ip_socket_option_t values the clients use
    OptionValues    \* values they set (uint8_t)

\* xtcp_error_code_t, continued.
XTCP_EPROTONOSUPPORT == -4

XTCP_SOCKET_LEVEL_IP     == "XTCP_SOCKET_LEVEL_IP"
XTCP_SOCKET_LEVEL_SOCKET == "XTCP_SOCKET_LEVEL_SOCKET"

\* xtcp_ip_socket_option_t: two options for every block, and three that exist in
\* UDP blocks only.
MULTICAST_LOOP == "XTCP_IP_SOCKET_OPTION_MULTICAST_LOOP"
UdpOptions == {"XTCP_IP_SOCKET_OPTION_MULTICAST_TTL",
               "XTCP_IP_SOCKET_OPTION_MULTICAST_IF", MULTICAST_LOOP}
xtcp_ip_socket_option_t ==
    {"XTCP_IP_SOCKET_OPTION_TOS", "XTCP_IP_SOCKET_OPTION_TTL"} \cup UdpOptions

ASSUME OptionsAssumption ==
    /\ Options \subseteq xtcp_ip_socket_option_t
    /\ OptionValues \subseteq Nat

VARIABLES
    ref,    \* ref[b]: references to transmit buffer b, 0 when free
    kept,   \* buffers lwIP keeps until an address is resolved
    call,   \* the send or sendto in progress and its locals
    opt,    \* opt[p]: the option fields of control block p
    want    \* want[id]: what the owner of socket id has set (history);
            \* MULTICAST_LOOP, which cannot be cleared, is not followed

calls_vars == <<ref, kept, call, opt, want>>
all_vars == <<vars, calls_vars>>

\* No call in progress: its locals do not exist and are kept at one value.
NoCall == [pc |-> "idle", client_num |-> NULL, id |-> NULL, new_pbuf |-> NULL]

\* The option fields of a new control block.
DefaultOptions == [o \in Options |-> 0]

CallsInit ==
    /\ Init
    /\ ref = [b \in TxPbufs |-> 0]
    /\ kept = {}
    /\ call = NoCall
    /\ opt = [p \in Pcbs |-> DefaultOptions]
    /\ want = [i \in Sockets |-> DefaultOptions]

-----------------------------------------------------------------------------
(* Transmission.                                                           *)

\* pbuf_shim_alloc_tx hands out a free buffer with one reference, and the call
\* goes on to the protocol's part of shim_send or shim_sendto; when no buffer is
\* free the caller returns XTCP_ENOMEM.
pbuf_shim_alloc_tx(c, id, next) ==
    /\ call = NoCall
    /\ \E b \in TxPbufs :
          /\ ref[b] = 0
          /\ ref' = [ref EXCEPT ![b] = 1]
          /\ call' = [pc |-> next, client_num |-> c, id |-> id, new_pbuf |-> b]
    /\ UNCHANGED <<vars, kept, opt, want>>

\* send and send_timed.
send(c, id) ==
    /\ Owns(c, id)
    /\ pbuf_shim_alloc_tx(c, id, "shim_send")

\* sendto and sendto_timed; refused for TCP before a buffer is taken.
sendto(c, id) ==
    /\ Owns(c, id)
    /\ connections[id].protocol # XTCP_PROTOCOL_TCP
    /\ pbuf_shim_alloc_tx(c, id, "shim_sendto")

\* Mutant: a datagram that lwIP refuses is freed there and then.
udp_send_FreesRefused ==
    /\ call.pc \in {"shim_send", "shim_sendto"}
    /\ connections[call.id].protocol = XTCP_PROTOCOL_UDP
    /\ \/ ref' = [ref EXCEPT ![call.new_pbuf] = @ - 1] /\ UNCHANGED kept
       \/ /\ get_udp_pcb(connections, call.id) # NULL
          /\ ref' = [ref EXCEPT ![call.new_pbuf] = @ + 1]
          /\ kept' = kept \cup {call.new_pbuf}
    /\ call' = [call EXCEPT !.pc = "pbuf_free"]
    /\ UNCHANGED <<vars, opt, want>>

\* The datagram is given to udp_send or udp_sendto, if there is a control block.
\* It goes out or is refused, or lwIP keeps it with a reference of its own.
udp_send ==
    /\ call.pc \in {"shim_send", "shim_sendto"}
    /\ connections[call.id].protocol = XTCP_PROTOCOL_UDP
    /\ \/ UNCHANGED <<ref, kept>>
       \/ /\ get_udp_pcb(connections, call.id) # NULL
          /\ ref' = [ref EXCEPT ![call.new_pbuf] = @ + 1]
          /\ kept' = kept \cup {call.new_pbuf}
    /\ call' = [call EXCEPT !.pc = "pbuf_free"]
    /\ UNCHANGED <<vars, opt, want>>

\* The data is given to tcp_write, which copies it or refuses, if there is a
\* control block.
tcp_write ==
    /\ call.pc = "shim_send"
    /\ connections[call.id].protocol = XTCP_PROTOCOL_TCP
    /\ send_tcp(call.client_num, call.id) \/ UNCHANGED vars
    /\ call' = [call EXCEPT !.pc = "pbuf_free"]
    /\ UNCHANGED <<ref, kept, opt, want>>

\* A socket of neither protocol: the call returns, nobody frees the buffer.
NoProtocol ==
    /\ call.pc \in {"shim_send", "shim_sendto"}
    /\ connections[call.id].protocol = XTCP_PROTOCOL_NONE
    /\ call' = NoCall
    /\ UNCHANGED <<vars, ref, kept, opt, want>>

\* The end of shim_send and shim_sendto: the caller's reference goes.
pbuf_free ==
    /\ call.pc = "pbuf_free"
    /\ ref' = [ref EXCEPT ![call.new_pbuf] = @ - 1]
    /\ call' = NoCall
    /\ UNCHANGED <<vars, kept, opt, want>>

\* The address is resolved, or lwIP gives up: its reference goes.
AddressResolved(b) ==
    /\ call = NoCall
    /\ b \in kept
    /\ kept' = kept \ {b}
    /\ ref' = [ref EXCEPT ![b] = @ - 1]
    /\ UNCHANGED <<vars, call, opt, want>>

-----------------------------------------------------------------------------
(* Socket options.                                                         *)

\* The checks of shim_ip_getsockopt, which shim_ip_setsockopt repeats.
OptionStatus(protocol, option, length) ==
    IF \/ protocol = XTCP_PROTOCOL_NONE
       \/ option \notin xtcp_ip_socket_option_t
       \/ length < 1
    THEN XTCP_EINVAL
    ELSE IF option \in UdpOptions /\ protocol # XTCP_PROTOCOL_UDP
    THEN XTCP_EPROTONOSUPPORT
    ELSE XTCP_SUCCESS

\* The status of shim_getsockopt and shim_setsockopt.
SockoptStatus(c, id, level, option, length) ==
    IF ~Owns(c, id) \/ level # XTCP_SOCKET_LEVEL_IP THEN XTCP_EINVAL
    ELSE OptionStatus(connections[id].protocol, option, length)

\* getsockopt, for a socket that has its control block.
getsockopt(c, id, level, option, length) ==
    LET status == SockoptStatus(c, id, level, option, length)
    IN  [status |-> status,
         value  |-> IF status = XTCP_SUCCESS
                    THEN opt[connections[id].pcb][option] ELSE 0]

\* Mutant: the multicast options are written to the field of the type of service.
Written_WrongField(fields, option, value) ==
    IF option \in UdpOptions /\ "XTCP_IP_SOCKET_OPTION_TOS" \in Options
    THEN [fields EXCEPT !["XTCP_IP_SOCKET_OPTION_TOS"] = value]
    ELSE [fields EXCEPT ![option] = value]

\* The fields shim_ip_setsockopt leaves.  MULTICAST_LOOP is a flag, and the call
\* sets it whatever the value.
Written(fields, option, value) ==
    [fields EXCEPT ![option] = IF option = MULTICAST_LOOP THEN 1 ELSE value]

\* setsockopt, for a socket that has its control block.
setsockopt(c, id, level, option, length, value) ==
    /\ call = NoCall
    /\ SockoptStatus(c, id, level, option, length) = XTCP_SUCCESS
    /\ connections[id].pcb # NULL
    /\ opt' = [opt EXCEPT ![connections[id].pcb] = Written(@, option, value)]
    /\ want' = IF option = MULTICAST_LOOP THEN want
               ELSE [want EXCEPT ![id][option] = value]
    /\ UNCHANGED <<vars, ref, kept, call>>

-----------------------------------------------------------------------------
(* The server's other steps.                                               *)

\* The block is the same before and after a step: tcp_new has not taken it.
SameBlock(p) ==
    /\ pcb[p].state # "FREE"
    /\ pcb'[p].state # "FREE"
    /\ pcb'[p].state = "CLOSED" => pcb[p].state = "CLOSED"

\* The option fields after a step on the blocks.  A block that is allocated starts
\* with the defaults (a free one is shown with them), but tcp_listen gives the
\* listening block the fields of the one it replaces.
BlockOptions(p) ==
    IF SameBlock(p) THEN opt[p]
    ELSE IF pcb'[p].state = "LISTEN"
    THEN opt[CHOOSE q \in TcpPcbs :
                pcb[q].state = "CLOSED" /\ pcb'[q].state = "FREE"]
    ELSE DefaultOptions

ServerStep ==
    /\ call = NoCall
    /\ \/ \E c \in Clients : get_event(c)
       \/ \E c \in Clients, id \in Sockets : close(c, id)
       \/ \E c \in Clients : OtherCall(c)
       \/ Callback
    /\ opt' = [p \in Pcbs |-> BlockOptions(p)]
    /\ want' = [i \in Sockets |->
                  IF connections[i].is_active /\ connections'[i].is_active
                  THEN want[i] ELSE DefaultOptions]
    /\ UNCHANGED <<ref, kept, call>>

CallsNext ==
    \/ ServerStep
    \/ \E c \in Clients, id \in Sockets : send(c, id)
    \/ \E c \in Clients, id \in Sockets : sendto(c, id)
    \/ udp_send
    \/ tcp_write
    \/ NoProtocol
    \/ pbuf_free
    \/ \E b \in TxPbufs : AddressResolved(b)
    \/ \E c \in Clients, id \in Sockets, option \in Options, length \in 0 .. 1,
          value \in OptionValues,
          level \in {XTCP_SOCKET_LEVEL_IP, XTCP_SOCKET_LEVEL_SOCKET} :
             setsockopt(c, id, level, option, length, value)

CallsSpec == CallsInit /\ [][CallsNext]_all_vars

-----------------------------------------------------------------------------
(* Properties.                                                             *)

\* Who holds transmit buffer b: the call that is sending it, and lwIP if it keeps it.
Holders(b) == (IF call.pc # "idle" /\ call.new_pbuf = b THEN 1 ELSE 0)
                + (IF b \in kept THEN 1 ELSE 0)

\* No transmit buffer is freed too early or too often: it has a reference for the
\* call that is sending it and one for lwIP if it keeps it, on every path of
\* shim_send and shim_sendto, so that neither works with a buffer that the next
\* send may take.
TxBuffersHeld == \A b \in TxPbufs : ref[b] >= Holders(b)

\* And none is leaked: the buffer of a call that has returned has no reference but
\* lwIP's.  shim_send and shim_sendto free it for a UDP and a TCP socket, whether
\* or not there was a control block and lwIP took the data, and not for one that
\* was opened with XTCP_PROTOCOL_NONE.
TxBuffersReturned == \A b \in TxPbufs : ref[b] = Holders(b)

\* getsockopt returns what the socket's owner has set, through listen (which
\* trades the block), closing and reusing the id by another client or protocol:
\* no setting is lost, lands in another field, or is inherited from a previous
\* owner.  MULTICAST_LOOP, which the call can only set, is excepted.
OptionsReadBack ==
    \A c \in Clients, id \in Sockets, option \in Options \ {MULTICAST_LOOP} :
        connections[id].pcb # NULL =>
            LET got == getsockopt(c, id, XTCP_SOCKET_LEVEL_IP, option, 1)
            IN  got.status = XTCP_SUCCESS => got.value = want[id][option]

=============================================================================
