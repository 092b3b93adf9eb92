----------------------------- MODULE XtcpServer -----------------------------
(***************************************************************************)
(* The xtcp_lwip server task: client calls (xtcp_lwip.xc, lwip_shim.c) and *)
(* lwIP's callbacks (tcp_transport.c, udp_recv.c) working on one           *)
(* connection table, the clients' event queues and lwIP's control blocks   *)
(* and receive buffers.                                                    *)
(*                                                                         *)
(* The task is one select loop: a client call, or a received packet or     *)
(* timer tick with the callbacks it causes, is one step.  A call that      *)
(* find_client_connection refuses changes nothing and is a stuttering      *)
(* step.  The event queues are the sequences of EventQueue, which          *)
(* ClientQueue shows client_queue.c to implement.  lwIP is external: it is *)
(* modelled by the calls the shim makes to it and the callbacks it makes.  *)
(***************************************************************************)
EXTENDS Connection

CONSTANTS
    TcpPcbs, ListenPcbs, UdpPcbs,   \* lwIP's pools of control blocks
    Pbufs,                          \* lwIP's pool of receive buffers
    TCP_WND,                        \* receive window, in segments
    SEQ_NUMBERS,                    \* segments are numbered modulo this
    Protocols,                      \* protocols the clients open
    ClientData,                     \* pointers clients attach to connections
    Env                             \* what else may happen, see below

ASSUME PoolsAssumption ==
    /\ NULL \notin TcpPcbs \cup ListenPcbs \cup UdpPcbs \cup Pbufs \cup ClientData
    /\ TcpPcbs \cap ListenPcbs = {}
    /\ UdpPcbs \cap (TcpPcbs \cup ListenPcbs) = {}
    /\ IsFiniteSet(Pbufs)
    /\ TCP_WND \in Nat
    /\ SEQ_NUMBERS \in Nat \ {0}

\* Env bounds the surroundings of the server:
\*   "connect"   clients open outgoing TCP connections
\*   "connect_0" they do so on socket 0 only
\*   "linger"    lwIP keeps a control block for the closing handshake after
\*               tcp_close, and half-open ones after their listener's
\*   "errors"    connections fail: reset, time-out, aborted for memory
\*   "overload"  peers complete a handshake the table has no entry for
ASSUME EnvAssumption ==
    Env \subseteq {"connect", "connect_0", "linger", "errors", "overload"}

ASSUME ProtocolsAssumption ==
    Protocols \subseteq {XTCP_PROTOCOL_NONE, XTCP_PROTOCOL_TCP, XTCP_PROTOCOL_UDP}

ASSUME ServerIds == Sockets \subseteq Ids

\* The events the callbacks post.
ServerEvents ==
    {"XTCP_NEW_CONNECTION", "XTCP_ACCEPTED", "XTCP_RECV_DATA",
     "XTCP_RECV_FROM_DATA", "XTCP_SENT_DATA", "XTCP_TIMED_OUT", "XTCP_ABORTED",
     "XTCP_CLOSED"}

ASSUME ServerEventsAssumption == ServerEvents \subseteq EventTypes

Pcbs == TcpPcbs \cup ListenPcbs \cup UdpPcbs

VARIABLES
    connections,    \* the table of connection.c
    last_guid,      \* assign_client_connection's static variable
    queue,          \* queue[c]: the events waiting for client c
    pcb,            \* pcb[p]: lwIP's control block p
    buf,            \* buf[b]: which segment or datagram buffer b holds
    next_read       \* next_read[i]: segment the client expects (history)

vars == <<connections, last_guid, queue, pcb, buf, next_read>>

\* An unused control block, and an unused receive buffer.
FreePcb == [state |-> "FREE", arg |-> 0, prio |-> "NORMAL", wnd |-> 0,
            next |-> 0, refused |-> NULL, unacked |-> FALSE]
FreeBuf == [src |-> NULL, seq |-> 0]

\* tcp_alloc and udp_new zero the block: its callback argument is 0.
NewPcb(state) == [FreePcb EXCEPT !.state = state]

IsFree(p) == pcb[p].state = "FREE"

\* States in which a TCP connection carries data, and those in which lwIP
\* still raises events for the block.
Synchronized == {"ESTABLISHED", "CLOSE_WAIT"}
Eventful == Synchronized \cup {"SYN_SENT", "CLOSING"}

\* tcp_recved opens the receive window by one segment, at most fully.
tcp_recved(wnd) == IF wnd > 0 THEN wnd - 1 ELSE 0

Init ==
    /\ connections = init_client_connections
    /\ last_guid = 0
    /\ queue = [c \in Clients |-> <<>>]
    /\ pcb = [p \in Pcbs |-> FreePcb]
    /\ buf = [b \in Pbufs |-> FreeBuf]
    /\ next_read = [i \in Sockets |-> 0]

-----------------------------------------------------------------------------
(* Helpers shared by the handlers.                                         *)

\* enqueue_event_and_notify succeeds.
Accepts(c) == c \in Clients /\ HasRoom(queue[c])

\* Mutant: the check for a full queue is missing.
Post_NoBound(c, id, event) ==
    queue' = IF c \in Clients
             THEN [queue EXCEPT
                     ![c] = Append(@, [xtcp_event |-> event, id |-> id])]
             ELSE queue

\* enqueue_event_and_notify.
Post(c, id, event) ==
    queue' = IF Accepts(c)
             THEN [queue EXCEPT
                     ![c] = Append(@, [xtcp_event |-> event, id |-> id])]
             ELSE queue

\* lwIP returns a control block, and the data it kept, to the pools.
PcbFreed(p) == [pcb EXCEPT ![p] = FreePcb]
RefusedFreed(p) ==
    [b \in Pbufs |-> IF b = pcb[p].refused THEN FreeBuf ELSE buf[b]]

\* A freed entry's next connection will be read from its first segment.
Forget(index) == next_read' = [next_read EXCEPT ![index] = 0]

\* The table assign_client_connection leaves.
AssignedTable(index, client_num, protocol) ==
    [connections EXCEPT ![index] =
        assign_client_connection(@, client_num, protocol)]

\* No list holds a freed buffer.  Once one does, walking a list or reusing the
\* buffer is undefined in C, and the steps that do so are modelled no further.
MemoryIntact ==
    \A i \in Sockets : \A k \in DOMAIN connections[i].pbuf :
        buf[connections[i].pbuf[k]] # FreeBuf

Owns(c, id) == find_client_connection(connections, c, id)

-----------------------------------------------------------------------------
(* Client calls.                                                           *)

get_event(c) ==
    /\ queue[c] # <<>>
    /\ queue' = [queue EXCEPT ![c] = Tail(@)]
    /\ UNCHANGED <<connections, last_guid, pcb, buf, next_read>>

\* shim_new_socket with the entry and, for UDP and TCP, a control block.
NewSocket(c, protocol, pool, state) ==
    /\ HasFreeEntry(connections)
    /\ protocol \in Protocols
    /\ LET index == AssignedIndex(connections, last_guid)
           conns == AssignedTable(index, c, protocol)
       IN  /\ last_guid' = index + 1
           /\ \/ \E p \in pool :
                    /\ IsFree(p)
                    /\ pcb' = [pcb EXCEPT ![p] = NewPcb(state)]
                    /\ connections' = [conns EXCEPT ![index].pcb = p]
              \/ /\ \A p \in pool : ~IsFree(p)
                 /\ connections' = conns
                 /\ UNCHANGED pcb
    /\ UNCHANGED <<queue, buf, next_read>>

\* A failed udp_new leaves the entry assigned, without a control block.
socket_udp(c) == NewSocket(c, XTCP_PROTOCOL_UDP, UdpPcbs, "UDP")

\* The protocol XTCP_PROTOCOL_NONE has no control block at all.
socket_none(c) == NewSocket(c, XTCP_PROTOCOL_NONE, {}, "FREE")

\* Blocks tcp_alloc may take back when the pool is empty: connections being
\* closed, and accepted ones (they have the lowest priority).
Victims == {p \in TcpPcbs : \/ pcb[p].state \in {"CLOSING", "TIME_WAIT"}
                            \/ /\ pcb[p].state \in Synchronized
                               /\ pcb[p].prio = "MIN"}

\* As for UDP while the pool has a block or nothing can be taken back.
socket_tcp(c) ==
    /\ (\E p \in TcpPcbs : IsFree(p)) \/ Victims = {}
    /\ NewSocket(c, XTCP_PROTOCOL_TCP, TcpPcbs, "CLOSED")

\* tcp_new aborts connection v to make room: the error callback for v runs
\* inside shim_new_socket, after the entry has been assigned.  If it frees that
\* very entry (v's argument is stale), set_tcp_pcb fails and the new block is
\* closed again.
socket_tcp_kill(c) ==
    /\ "errors" \in Env
    /\ XTCP_PROTOCOL_TCP \in Protocols
    /\ HasFreeEntry(connections)
    /\ \A p \in TcpPcbs : ~IsFree(p)
    /\ \E v \in Victims :
          LET index  == AssignedIndex(connections, last_guid)
              conns  == AssignedTable(index, c, XTCP_PROTOCOL_TCP)
              silent == pcb[v].state = "TIME_WAIT"
              hit    == pcb[v].arg
              after  == IF silent THEN conns
                        ELSE [conns EXCEPT ![hit] = free_client_connection(@)]
              kept   == after[index].protocol = XTCP_PROTOCOL_TCP
          IN  /\ last_guid' = index + 1
              /\ IF silent THEN UNCHANGED next_read ELSE Forget(hit)
              /\ connections' = IF kept THEN [after EXCEPT ![index].pcb = v]
                                        ELSE after
              /\ pcb' = [pcb EXCEPT ![v] =
                            IF kept THEN NewPcb("CLOSED") ELSE FreePcb]
              /\ buf' = RefusedFreed(v)
              /\ IF silent THEN UNCHANGED queue
                           ELSE Post(conns[hit].client_num, hit, "XTCP_ABORTED")

\* What tcp_close does to the control block, when lwIP has w segments the
\* application has not taken: a block without connection goes at once, one
\* with unread data is reset and goes too, otherwise the handshake begins.
AfterClose(p, w) ==
    IF "linger" \in Env /\ pcb[p].state \in Synchronized
         /\ w = 0 /\ pcb[p].refused = NULL
    THEN [pcb EXCEPT ![p].state = "CLOSING", ![p].wnd = w]
    ELSE PcbFreed(p)

\* Half-open connections of listener p; without "linger" they go with it.
HalfOpen(p) == {q \in TcpPcbs : pcb[q].state = "SYN_RCVD"
                                  /\ pcb[q].arg = pcb[p].arg}

\* Mutant: close forgets clear_pending_rx_data_on_connection.
ClosedEntry_KeepsData(entry) == free_client_connection(entry)

\* The entry close leaves: its unread data cleared, then the entry freed.
ClosedEntry(entry) == [free_client_connection(entry) EXCEPT !.pbuf = <<>>]

\* shim_close_socket, for close and for abort.  Unread data is dropped; the
\* window is opened by the first buffer only.
close(c, id) ==
    /\ Owns(c, id)
    /\ MemoryIntact
    /\ LET entry == connections[id]
           p     == entry.pcb
           w     == IF entry.pbuf = <<>> THEN pcb[p].wnd
                    ELSE tcp_recved(pcb[p].wnd)
       IN  /\ queue' = [queue EXCEPT ![c] = Remaining(@, id)]
           /\ connections' = [connections EXCEPT ![id] = ClosedEntry(@)]
           /\ buf' = [b \in Pbufs |->
                        IF b \in ToSet(entry.pbuf)
                             \/ (p # NULL /\ b = pcb[p].refused)
                        THEN FreeBuf ELSE buf[b]]
           /\ pcb' = IF p = NULL THEN pcb
                     ELSE IF entry.protocol = XTCP_PROTOCOL_UDP THEN PcbFreed(p)
                     ELSE IF pcb[p].state = "LISTEN" /\ "linger" \notin Env
                     THEN [q \in Pcbs |-> IF q = p \/ q \in HalfOpen(p)
                                          THEN FreePcb ELSE pcb[q]]
                     ELSE AfterClose(p, w)
    /\ Forget(id)
    /\ UNCHANGED last_guid

\* Mutant: the listening block is not told the entry's index.
listen_tcp_NoArg(c, id) ==
    /\ Owns(c, id)
    /\ LET p == get_tcp_pcb(connections, id)
       IN  /\ p # NULL
           /\ pcb[p].state = "CLOSED"
           /\ \E l \in ListenPcbs :
                 /\ IsFree(l)
                 /\ pcb' = [pcb EXCEPT ![p] = FreePcb,
                              ![l] = NewPcb("LISTEN")]
                 /\ connections' = [connections EXCEPT ![id].pcb = l]
    /\ UNCHANGED <<last_guid, queue, buf, next_read>>

\* shim_listen on a TCP socket: tcp_listen trades the block for a listening
\* one, which gets the entry's index as its argument.
listen_tcp(c, id) ==
    /\ Owns(c, id)
    /\ LET p == get_tcp_pcb(connections, id)
       IN  /\ p # NULL
           /\ pcb[p].state = "CLOSED"
           /\ \E l \in ListenPcbs :
                 /\ IsFree(l)
                 /\ pcb' = [pcb EXCEPT ![p] = FreePcb,
                              ![l] = [NewPcb("LISTEN") EXCEPT !.arg = id]]
                 /\ connections' = [connections EXCEPT ![id].pcb = l]
    /\ UNCHANGED <<last_guid, queue, buf, next_read>>

\* shim_listen and shim_connect on a UDP socket: the receive callback is set
\* with the entry's index.  A connected block stays connected when bound.
open_udp(c, id, state) ==
    /\ Owns(c, id)
    /\ LET p == get_udp_pcb(connections, id)
       IN  /\ p # NULL
           /\ pcb' = [pcb EXCEPT ![p].arg = id, ![p].state =
                         IF @ = "UDP_CONNECTED" THEN @ ELSE state]
    /\ UNCHANGED <<connections, last_guid, queue, buf, next_read>>

listen_udp(c, id)  == open_udp(c, id, "UDP_BOUND")
connect_udp(c, id) == open_udp(c, id, "UDP_CONNECTED")

\* shim_connect on a TCP socket: the handshake starts.  The block's argument
\* is not set.
connect_tcp(c, id) ==
    /\ "connect" \in Env \/ ("connect_0" \in Env /\ id = 0)
    /\ Owns(c, id)
    /\ LET p == get_tcp_pcb(connections, id)
       IN  /\ p # NULL
           /\ pcb[p].state = "CLOSED"
           /\ pcb' = [pcb EXCEPT ![p].state = "SYN_SENT"]
    /\ UNCHANGED <<connections, last_guid, queue, buf, next_read>>

\* shim_send on a TCP socket: lwIP copies the data and will acknowledge it.
send_tcp(c, id) ==
    /\ Owns(c, id)
    /\ LET p == get_tcp_pcb(connections, id)
       IN  /\ p # NULL
           /\ pcb[p].state \in Synchronized \cup {"SYN_SENT"}
           /\ ~pcb[p].unacked
           /\ pcb' = [pcb EXCEPT ![p].unacked = TRUE]
    /\ UNCHANGED <<connections, last_guid, queue, buf, next_read>>

\* recv and recv_timed: the first buffer is copied, or not if the caller's is too
\* short, and in both cases freed; lwIP is told that a TCP segment is taken.
recv(c, id) ==
    /\ Owns(c, id)
    /\ MemoryIntact
    /\ connections[id].pbuf # <<>>
    /\ LET p == get_tcp_pcb(connections, id)
       IN  pcb' = IF p = NULL THEN pcb
                  ELSE [pcb EXCEPT ![p].wnd = tcp_recved(@)]
    /\ connections' = [connections EXCEPT ![id] = free_remote_data(@)]
    /\ buf' = [buf EXCEPT ![Head(connections[id].pbuf)] = FreeBuf]
    /\ next_read' = IF get_tcp_pcb(connections, id) = NULL THEN next_read
                    ELSE [next_read EXCEPT ![id] = (@ + 1) % SEQ_NUMBERS]
    /\ UNCHANGED <<last_guid, queue>>

\* recvfrom and recvfrom_timed: the same, refused for TCP.
recvfrom(c, id) == connections[id].protocol # XTCP_PROTOCOL_TCP /\ recv(c, id)

set_connection_client_data(c, id, data) ==
    /\ Owns(c, id)
    /\ connections' = [connections EXCEPT ![id].client_data = data]
    /\ UNCHANGED <<last_guid, queue, pcb, buf, next_read>>

-----------------------------------------------------------------------------
(* lwIP: connections.  lwip_tcp_event's argument is the block's arg.       *)

\* A peer's SYN on listener l: a new block, with the listener's argument.
Syn(l) ==
    /\ pcb[l].state = "LISTEN"
    /\ \E p \in TcpPcbs :
          /\ IsFree(p)
          /\ pcb' = [pcb EXCEPT ![p] =
                        [NewPcb("SYN_RCVD") EXCEPT !.arg = pcb[l].arg]]
    /\ UNCHANGED <<connections, last_guid, queue, buf, next_read>>

\* The handshake is never completed; lwIP raises no event for it.
HalfOpenLost(p) ==
    /\ pcb[p].state = "SYN_RCVD"
    /\ pcb' = PcbFreed(p)
    /\ UNCHANGED <<connections, last_guid, queue, buf, next_read>>

\* shim_accept finds an entry for the new connection.
CanAccept(index) ==
    /\ connections[index].protocol = XTCP_PROTOCOL_TCP
    /\ HasFreeEntry(connections)

\* Mutant: the new block keeps the listener's argument.
AcceptedPcb_NoArg(block, index) ==
    [block EXCEPT !.state = "ESTABLISHED", !.prio = "MIN"]

\* The block of an accepted connection: lowest priority, and the new entry's
\* index as its argument.
AcceptedPcb(block, index) ==
    [block EXCEPT !.state = "ESTABLISHED", !.prio = "MIN", !.arg = index]

\* LWIP_EVENT_ACCEPT: the connection gets an entry and its client an event; if
\* the event queue is full lwIP aborts the connection, whose error callback
\* then frees the entry again.
Accept(p) ==
    /\ pcb[p].state = "SYN_RCVD"
    /\ CanAccept(pcb[p].arg)
    /\ LET client_num == get_client_info(connections, pcb[p].arg)
           index == AssignedIndex(connections, last_guid)
           conns == AssignedTable(index, client_num, XTCP_PROTOCOL_TCP)
       IN  /\ last_guid' = index + 1
           /\ Post(client_num, index, "XTCP_ACCEPTED")
           /\ IF Accepts(client_num)
              THEN /\ connections' = [conns EXCEPT ![index].pcb = p]
                   /\ pcb' = [pcb EXCEPT ![p] = AcceptedPcb(@, index)]
              ELSE /\ connections' = [conns EXCEPT
                                        ![index] = free_client_connection(@)]
                   /\ pcb' = PcbFreed(p)
    /\ UNCHANGED <<buf, next_read>>

\* LWIP_EVENT_ACCEPT without an entry: ERR_MEM makes lwIP abort the new block,
\* and its error callback still carries the listener's index.
AcceptFails(p) ==
    /\ "overload" \in Env
    /\ pcb[p].state = "SYN_RCVD"
    /\ ~CanAccept(pcb[p].arg)
    /\ LET hit == pcb[p].arg
       IN  /\ Post(connections[hit].client_num, hit, "XTCP_ABORTED")
           /\ connections' = [connections EXCEPT
                                ![hit] = free_client_connection(@)]
           /\ Forget(hit)
    /\ pcb' = PcbFreed(p)
    /\ UNCHANGED <<last_guid, buf>>

\* LWIP_EVENT_CONNECTED.
Connected(p) ==
    /\ pcb[p].state = "SYN_SENT"
    /\ pcb' = [pcb EXCEPT ![p].state = "ESTABLISHED"]
    /\ Post(connections[pcb[p].arg].client_num, pcb[p].arg, "XTCP_NEW_CONNECTION")
    /\ UNCHANGED <<connections, last_guid, buf, next_read>>

\* LWIP_EVENT_RECV with buffer b: linked to the entry; if the event cannot be
\* queued it is unlinked again and lwIP keeps it.
Deliver(p, b) ==
    LET index  == pcb[p].arg
        entry  == connections[index]
        c      == entry.client_num
        linked == set_remote(entry, b)
    IN  /\ Post(c, index, "XTCP_RECV_DATA")
        /\ connections' = [connections EXCEPT ![index] =
              IF Accepts(c) THEN linked ELSE unlink_remote(linked, b)]

\* The next segment of the peer's stream arrives.
RecvData(p) ==
    /\ MemoryIntact
    /\ pcb[p].state = "ESTABLISHED"
    /\ pcb[p].refused = NULL
    /\ pcb[p].wnd < TCP_WND
    /\ \E b \in Pbufs :
          /\ buf[b] = FreeBuf
          /\ buf' = [buf EXCEPT ![b] = [src |-> p, seq |-> pcb[p].next]]
          /\ Deliver(p, b)
          /\ pcb' = [pcb EXCEPT ![p].wnd = @ + 1,
                       ![p].next = (@ + 1) % SEQ_NUMBERS,
                       ![p].refused =
                          IF Accepts(connections[pcb[p].arg].client_num)
                          THEN NULL ELSE b]
    /\ UNCHANGED <<last_guid, next_read>>

\* lwIP offers refused data again.
RetryRefused(p) ==
    /\ MemoryIntact
    /\ pcb[p].state \in Synchronized
    /\ pcb[p].refused # NULL
    /\ Accepts(connections[pcb[p].arg].client_num)
    /\ Deliver(p, pcb[p].refused)
    /\ pcb' = [pcb EXCEPT ![p].refused = NULL]
    /\ UNCHANGED <<last_guid, buf, next_read>>

\* LWIP_EVENT_RECV without data: the peer has closed.
RecvFin(p) ==
    /\ pcb[p].state \in {"ESTABLISHED", "CLOSING"}
    /\ pcb[p].refused = NULL
    /\ pcb' = [pcb EXCEPT ![p].state =
                  IF @ = "ESTABLISHED" THEN "CLOSE_WAIT" ELSE "TIME_WAIT"]
    /\ Post(connections[pcb[p].arg].client_num, pcb[p].arg, "XTCP_CLOSED")
    /\ UNCHANGED <<connections, last_guid, buf, next_read>>

\* LWIP_EVENT_SENT: the peer has acknowledged the data.
Sent(p) ==
    /\ pcb[p].state \in Synchronized \cup {"CLOSING"}
    /\ pcb[p].unacked
    /\ pcb' = [pcb EXCEPT ![p].unacked = FALSE]
    /\ Post(connections[pcb[p].arg].client_num, pcb[p].arg, "XTCP_SENT_DATA")
    /\ UNCHANGED <<connections, last_guid, buf, next_read>>

\* Mutant: the error handler leaves the entry to the application.
Err_KeepsEntry(p, event) ==
    /\ "errors" \in Env
    /\ pcb[p].state \in Eventful
    /\ Post(connections[pcb[p].arg].client_num, pcb[p].arg, event)
    /\ pcb' = PcbFreed(p)
    /\ buf' = RefusedFreed(p)
    /\ UNCHANGED <<connections, last_guid, next_read>>

\* LWIP_EVENT_ERR: lwIP has given the block up.  The event follows the error
\* code, and the entry is freed.
Err(p, event) ==
    /\ "errors" \in Env
    /\ pcb[p].state \in Eventful
    /\ LET hit == pcb[p].arg
       IN  /\ Post(connections[hit].client_num, hit, event)
           /\ connections' = [connections EXCEPT
                                ![hit] = free_client_connection(@)]
           /\ Forget(hit)
    /\ pcb' = PcbFreed(p)
    /\ buf' = RefusedFreed(p)
    /\ UNCHANGED last_guid

\* The closing handshake is over; the application hears nothing.
CloseDone(p) ==
    /\ pcb[p].state \in {"CLOSING", "TIME_WAIT"}
    /\ pcb' = PcbFreed(p)
    /\ UNCHANGED <<connections, last_guid, queue, buf, next_read>>

-----------------------------------------------------------------------------
(* lwIP: datagrams.                                                        *)

\* xtcp_udp_recv: the datagram is linked to the entry; if the event cannot be
\* queued its buffer is freed.
xtcp_udp_recv(p) ==
    /\ MemoryIntact
    /\ pcb[p].state \in {"UDP_BOUND", "UDP_CONNECTED"}
    /\ \E b \in Pbufs :
          LET index == pcb[p].arg
              c     == connections[index].client_num
          IN  /\ buf[b] = FreeBuf
              /\ connections' = [connections EXCEPT ![index] = set_remote(@, b)]
              /\ Post(c, index, IF pcb[p].state = "UDP_CONNECTED"
                                THEN "XTCP_RECV_DATA" ELSE "XTCP_RECV_FROM_DATA")
              /\ buf' = IF Accepts(c)
                        THEN [buf EXCEPT ![b] = [src |-> p, seq |-> 0]]
                        ELSE buf
    /\ UNCHANGED <<last_guid, pcb, next_read>>

-----------------------------------------------------------------------------
\* The calls that neither take events from a queue nor transmit.
OtherCall(c) ==
    \/ socket_udp(c)
    \/ socket_none(c)
    \/ socket_tcp(c)
    \/ socket_tcp_kill(c)
    \/ \E id \in Sockets : listen_tcp(c, id)
    \/ \E id \in Sockets : listen_udp(c, id)
    \/ \E id \in Sockets : connect_tcp(c, id)
    \/ \E id \in Sockets : connect_udp(c, id)
    \/ \E id \in Sockets : recv(c, id)
    \/ \E id \in Sockets : recvfrom(c, id)
    \/ \E id \in Sockets, data \in ClientData :
          set_connection_client_data(c, id, data)

ClientCall(c) ==
    \/ get_event(c)
    \/ \E id \in Sockets : close(c, id)
    \/ \E id \in Sockets : send_tcp(c, id)
    \/ OtherCall(c)

TcpCallback(p) ==
    \/ HalfOpenLost(p)
    \/ Accept(p)
    \/ AcceptFails(p)
    \/ Connected(p)
    \/ RecvData(p)
    \/ RetryRefused(p)
    \/ RecvFin(p)
    \/ Sent(p)
    \/ \E event \in {"XTCP_ABORTED", "XTCP_TIMED_OUT"} : Err(p, event)
    \/ CloseDone(p)

Callback ==
    \/ \E l \in ListenPcbs : Syn(l)
    \/ \E p \in TcpPcbs : TcpCallback(p)
    \/ \E p \in UdpPcbs : xtcp_udp_recv(p)

Next == (\E c \in Clients : ClientCall(c)) \/ Callback

Spec == Init /\ [][Next]_vars

-----------------------------------------------------------------------------
(* Properties.                                                             *)

TcpStates == {"FREE", "CLOSED", "SYN_RCVD", "CLOSING", "TIME_WAIT"} \cup Eventful
PcbStates == TcpStates \cup {"LISTEN", "UDP", "UDP_BOUND", "UDP_CONNECTED"}

Entries == [is_active : BOOLEAN, client_num : ClientNums,
            protocol : Protocols \cup {XTCP_PROTOCOL_NONE},
            pcb : Pcbs \cup {NULL}, pbuf : Seq(Pbufs),
            client_data : ClientData \cup {NULL}]
Blocks == [state : PcbStates, arg : Sockets, prio : {"MIN", "NORMAL"},
           wnd : 0 .. TCP_WND, next : 0 .. SEQ_NUMBERS - 1,
           refused : Pbufs \cup {NULL}, unacked : BOOLEAN]
Buffers == [src : Pcbs \cup {NULL}, seq : 0 .. SEQ_NUMBERS - 1]

TypeOK ==
    /\ connections \in [Sockets -> Entries]
    /\ last_guid \in 0 .. MAX_OPEN_SOCKETS
    /\ queue \in [Clients -> Seq(Event)]
    /\ \A c \in Clients : Len(queue[c]) <= CLIENT_QUEUE_SIZE
    /\ pcb \in [Pcbs -> Blocks]
    /\ buf \in [Pbufs -> Buffers]
    /\ next_read \in [Sockets -> 0 .. SEQ_NUMBERS - 1]

\* An entry and its owner appear and disappear together: an inactive entry has
\* no client, protocol, control block or client data left that a later owner, or
\* find_client_connection for an old one, could see.
InactiveIsClean ==
    \A i \in Sockets :
        ~connections[i].is_active =>
            /\ connections[i].client_num = DEINIT
            /\ connections[i].protocol = XTCP_PROTOCOL_NONE
            /\ connections[i].pcb = NULL
            /\ connections[i].client_data = NULL

\* No entry holds a control block that lwIP has taken back or that belongs to a
\* connection already closed, and no two entries hold the same one: the next
\* call on the connection would use freed memory or another connection's block.
NoDanglingPcb ==
    \A i \in Sockets :
        connections[i].pcb # NULL =>
            /\ pcb[connections[i].pcb].state
                  \notin {"FREE", "SYN_RCVD", "CLOSING", "TIME_WAIT"}
            /\ \A j \in Sockets \ {i} : connections[j].pcb # connections[i].pcb

\* The events of an entry's control block carry that entry's index, so that the
\* client hears of its connection under the id it holds.
OwnerHearsPcb ==
    \A i \in Sockets :
        LET p == connections[i].pcb
        IN  p # NULL /\ pcb[p].state \notin {"CLOSED", "UDP"} => pcb[p].arg = i

\* No control block raises events for an entry that belongs to another one: a
\* late event would tell a client something about a connection it is not about,
\* and a late error would free it.
NoStrayEvents ==
    \A p \in Pcbs :
        pcb[p].state \in Eventful \cup {"LISTEN"} =>
            LET entry == connections[pcb[p].arg]
            IN  entry.is_active => entry.pcb = p

\* A listening control block keeps its entry: the listening socket stays valid
\* until its client closes it, whatever becomes of the connections it accepts.
ListenerKeepsEntry ==
    \A l \in ListenPcbs :
        pcb[l].state = "LISTEN" => connections[pcb[l].arg].pcb = l

\* A client's queue tells of connections it has, each from its beginning: the
\* events are about entries of that client, closing one leaves no event of it
\* behind, and nothing precedes the XTCP_ACCEPTED that introduces an id.
EventsMatchEntries ==
    \A c \in Clients : \A k \in DOMAIN queue[c] :
        /\ Owns(c, queue[c][k].id)
        /\ queue[c][k].xtcp_event = "XTCP_ACCEPTED" =>
              \A j \in 1 .. k - 1 : queue[c][j].id # queue[c][k].id

\* Received data goes with the connection: an entry without owner has none
\* left, so that its next owner cannot read what was sent to the last one.
NoLeftoverData ==
    \A i \in Sockets : ~connections[i].is_active => connections[i].pbuf = <<>>

\* No client is told to read what was sent to somebody else: a socket that its
\* client has opened and not used yet does not have an event announcing data under
\* its id together with data to read.  They would be left over from a connection
\* that had the id before, which close takes care of and the error callback not.
NoForeignData ==
    \A c \in Clients, i \in Sockets :
        LET p == connections[i].pcb
        IN  Owns(c, i) /\ p # NULL /\ pcb[p].state \in {"CLOSED", "UDP"} =>
               \/ connections[i].pbuf = <<>>
               \/ \A k \in DOMAIN queue[c] :
                     queue[c][k] # [xtcp_event |-> "XTCP_RECV_DATA", id |-> i]

\* A receive buffer in use has one holder: one place on one entry's list, or
\* lwIP's refused data; and what is on a list or refused is not free.
RxBufferHolders(b) ==
    (UNION {{i} \X {k \in DOMAIN connections[i].pbuf : connections[i].pbuf[k] = b} :
               i \in Sockets})
      \cup {p \in TcpPcbs : pcb[p].refused = b}

\* Exactly the buffers lwIP has handed out are held, each once: no buffer is
\* leaked, freed twice, or freed while it can still be reached.
RxBuffersOwned ==
    \A b \in Pbufs :
        Cardinality(RxBufferHolders(b)) = IF buf[b] = FreeBuf THEN 0 ELSE 1

\* A connection's byte stream is not disturbed by refused and retried data: the
\* segments on the list continue, in order and without gap, where the client
\* has read to, refused data comes next, and the receive window accounts for
\* exactly these.
StreamIntact ==
    \A i \in Sockets :
        LET p == connections[i].pcb
            s == connections[i].pbuf
            n == Len(s) + (IF pcb[p].refused = NULL THEN 0 ELSE 1)
            Segment(k) == [src |-> p, seq |-> (next_read[i] + k) % SEQ_NUMBERS]
        IN  p # NULL /\ pcb[p].state \in Synchronized =>
              /\ \A k \in 1 .. Len(s) : buf[s[k]] = Segment(k - 1)
              /\ pcb[p].refused # NULL => buf[pcb[p].refused] = Segment(Len(s))
              /\ pcb[p].next = (next_read[i] + n) % SEQ_NUMBERS
              /\ pcb[p].wnd = n

\* An entry active before and after a step keeps its client, its protocol and
\* its control block; listen trades the block for a listening one.
KeepsOwner(i) ==
    connections[i].is_active /\ connections'[i].is_active =>
       /\ connections'[i].client_num = connections[i].client_num
       /\ connections'[i].protocol = connections[i].protocol
       /\ \/ connections'[i].pcb = connections[i].pcb
          \/ /\ pcb[connections[i].pcb].state = "CLOSED"
             /\ pcb'[connections'[i].pcb].state = "LISTEN"

\* Who owns an entry changes only through the free list: no step hands an active
\* entry from one client to another, and no step puts a different connection
\* under an id that is in use.
OwnershipIsExclusive == [][\A i \in Sockets : KeepsOwner(i)]_vars

=============================================================================
