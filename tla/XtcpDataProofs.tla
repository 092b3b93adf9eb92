--------------------------- MODULE XtcpDataProofs ---------------------------
(***************************************************************************)
(* What the clients are told and given: the events in their queues are     *)
(* about connections they have, and received data goes with its            *)
(* connection.                                                             *)
(***************************************************************************)
EXTENDS XtcpRoutingProofs

-----------------------------------------------------------------------------
(* Events.                                                                 *)

\* The entries of clients stay theirs.
OwnersKept ==
    \A i \in Sockets : connections[i].client_num \in Clients =>
                          connections'[i].client_num = connections[i].client_num

\* The positions in a client's queue.
LEMMA QueuePositions ==
    ASSUME ServerInv, NEW c \in Clients
    PROVE  /\ queue[c] \in Seq(Event) /\ Len(queue[c]) \in Nat
           /\ DOMAIN queue[c] = 1 .. Len(queue[c])
           /\ \A k \in 1 .. Len(queue[c]) : queue[c][k] \in Event
  <1>1. queue[c] \in Seq(Event)
    BY DEF ServerInv
  <1>. QED
    BY <1>1, LenProperties, ElementOfSeq

\* Queues that lose nothing and gain nothing.
LEMMA EventsAfterKeep ==
    ASSUME EventsMatchEntries, UNCHANGED queue, OwnersKept
    PROVE  EventsMatchEntries'
  BY DEF EventsMatchEntries, OwnersKept, Owns, find_client_connection

\* An event is added for an entry of its client; it may introduce the entry if
\* the queue has no event of it.
LEMMA EventsAfterPost ==
    ASSUME ServerInv, EventsMatchEntries, OwnersKept,
           NEW c, NEW id \in Sockets, NEW event, Post(c, id, event),
           Accepts(c) => connections'[id].client_num = c,
           event = "XTCP_ACCEPTED" => connections[id].client_num \notin Clients
    PROVE  EventsMatchEntries'
  <1>1. CASE ~Accepts(c)
    BY <1>1, EventsAfterKeep DEF Post
  <1>2. CASE Accepts(c)
    <2>. DEFINE e == [xtcp_event |-> event, id |-> id]
                q == queue[c]
                n == Len(q)
    <2>1. c \in Clients /\ queue' = [queue EXCEPT ![c] = Append(queue[c], e)]
      BY <1>2 DEF Accepts, Post
    <2>2. q \in Seq(Event) /\ n \in Nat /\ DOMAIN q = 1 .. n
      BY <2>1, QueuePositions
    <2>3. q \in Seq(Event \cup {e}) /\ e \in Event \cup {e}
      <3>1. \A k \in 1 .. n : q[k] \in Event \cup {e}
        BY <2>2, ElementOfSeq
      <3>. QED
        BY <2>2, <3>1, SeqDef
    <2>. HIDE DEF e, n
    <2>4. LET r == Append(q, e)
          IN  /\ Len(r) = n + 1 /\ DOMAIN r = 1 .. n + 1
              /\ \A k \in 1 .. n : r[k] = q[k]
              /\ r[n + 1] = e
      <3>1. Append(q, e) \in Seq(Event \cup {e}) /\ Len(Append(q, e)) = n + 1
            /\ (\A k \in 1 .. n : Append(q, e)[k] = q[k]) /\ Append(q, e)[n + 1] = e
        BY <2>3, AppendProperties DEF n
      <3>2. DOMAIN Append(q, e) = 1 .. n + 1
        BY <3>1, LenProperties
      <3>. QED
        BY <3>1, <3>2
    <2>5. queue'[c] = Append(q, e) /\ \A d \in Clients \ {c} : queue'[d] = queue[d]
      BY <2>1 DEF ServerInv
    <2>. HIDE DEF q
    <2>6. ASSUME NEW k \in 1 .. n
          PROVE  /\ q[k].id \in Sockets /\ connections[q[k].id].client_num = c
                 /\ connections'[q[k].id].client_num = c
                 /\ q[k].xtcp_event = "XTCP_ACCEPTED" =>
                       \A j \in 1 .. k - 1 : q[j].id # q[k].id
      BY <2>1, <2>2
      DEF EventsMatchEntries, Owns, find_client_connection, OwnersKept, q
    <2>7. e.id = id /\ e.xtcp_event = event
      BY DEF e
    <2>8. ASSUME NEW k \in 1 .. n + 1
          PROVE  /\ queue'[c][k].id \in Sockets
                 /\ connections'[queue'[c][k].id].client_num = c
                 /\ queue'[c][k].xtcp_event = "XTCP_ACCEPTED" =>
                       \A j \in 1 .. k - 1 : queue'[c][j].id # queue'[c][k].id
      <3>1. CASE k \in 1 .. n
        <4>1. queue'[c][k] = q[k] /\ \A j \in 1 .. k - 1 : queue'[c][j] = q[j]
          BY <2>2, <2>4, <2>5, <3>1
        <4>. QED
          BY <2>6, <3>1, <4>1
      <3>2. CASE k = n + 1
        <4>1. queue'[c][k] = e /\ \A j \in 1 .. k - 1 : queue'[c][j] = q[j]
          BY <2>2, <2>4, <2>5, <3>2
        <4>2. \A j \in 1 .. k - 1 : event = "XTCP_ACCEPTED" => q[j].id # id
          BY <2>1, <2>2, <2>6, <3>2
        <4>. QED
          BY <1>2, <2>7, <4>1, <4>2
      <3>. QED
        BY <2>2, <3>1, <3>2
    <2>9. DOMAIN queue'[c] = 1 .. n + 1
      BY <2>4, <2>5
    <2>10. ASSUME NEW d \in Clients, NEW k \in DOMAIN queue'[d]
           PROVE  /\ queue'[d][k].id \in Sockets
                  /\ connections'[queue'[d][k].id].client_num = d
                  /\ queue'[d][k].xtcp_event = "XTCP_ACCEPTED" =>
                        \A j \in 1 .. k - 1 : queue'[d][j].id # queue'[d][k].id
      <3>1. CASE d = c
        BY <2>8, <2>9, <3>1
      <3>2. CASE d # c
        BY <2>5, <3>2
        DEF EventsMatchEntries, Owns, find_client_connection, OwnersKept
      <3>. QED
        BY <3>1, <3>2
    <2>. QED
      BY <2>10 DEF EventsMatchEntries, Owns, find_client_connection
  <1>. QED
    BY <1>1, <1>2

\* Taking the oldest event keeps the others' order.
LEMMA EventsAfterGet ==
    ASSUME ServerInv, EventsMatchEntries, NEW c \in Clients, get_event(c)
    PROVE  EventsMatchEntries'
  <1>. DEFINE q == queue[c]
              n == Len(q)
  <1>1. q # <<>> /\ queue' = [queue EXCEPT ![c] = Tail(q)] /\ UNCHANGED connections
    BY DEF get_event
  <1>2. q \in Seq(Event) /\ n \in Nat /\ DOMAIN q = 1 .. n
    BY QueuePositions
  <1>3. /\ DOMAIN Tail(q) = 1 .. n - 1
        /\ \A k \in 1 .. n - 1 : Tail(q)[k] = q[k + 1]
    <2>1. Tail(q) \in Seq(Event) /\ Len(Tail(q)) = n - 1
          /\ \A k \in 1 .. Len(Tail(q)) : Tail(q)[k] = q[k + 1]
      BY <1>1, <1>2, HeadTailProperties
    <2>. QED
      BY <2>1, LenProperties
  <1>4. queue'[c] = Tail(q) /\ \A d \in Clients \ {c} : queue'[d] = queue[d]
    BY <1>1 DEF ServerInv
  <1>5. \A k \in 1 .. n :
           /\ q[k].id \in Sockets /\ connections[q[k].id].client_num = c
           /\ q[k].xtcp_event = "XTCP_ACCEPTED" =>
                 \A j \in 1 .. k - 1 : q[j].id # q[k].id
    BY <1>2 DEF EventsMatchEntries, Owns, find_client_connection
  <1>. HIDE DEF q, n
  <1>6. ASSUME NEW k \in 1 .. n - 1
        PROVE  /\ queue'[c][k].id \in Sockets
               /\ connections'[queue'[c][k].id].client_num = c
               /\ queue'[c][k].xtcp_event = "XTCP_ACCEPTED" =>
                     \A j \in 1 .. k - 1 : queue'[c][j].id # queue'[c][k].id
    <2>1. k + 1 \in 1 .. n /\ queue'[c][k] = q[k + 1]
      BY <1>2, <1>3, <1>4
    <2>2. \A j \in 1 .. k - 1 : queue'[c][j] = q[j + 1] /\ j + 1 \in 1 .. (k + 1) - 1
      BY <1>2, <1>3, <1>4
    <2>. QED
      BY <1>1, <1>5, <2>1, <2>2
  <1>7. ASSUME NEW d \in Clients, NEW k \in DOMAIN queue'[d]
        PROVE  /\ queue'[d][k].id \in Sockets
               /\ connections'[queue'[d][k].id].client_num = d
               /\ queue'[d][k].xtcp_event = "XTCP_ACCEPTED" =>
                     \A j \in 1 .. k - 1 : queue'[d][j].id # queue'[d][k].id
    <2>1. CASE d = c
      BY <1>3, <1>4, <1>6, <2>1
    <2>2. CASE d # c
      BY <1>1, <1>4, <2>2 DEF EventsMatchEntries, Owns, find_client_connection
    <2>. QED
      BY <2>1, <2>2
  <1>. QED
    BY <1>7 DEF EventsMatchEntries, Owns, find_client_connection

\* Closing a socket takes its events out and keeps the others' order.
LEMMA EventsAfterClose ==
    ASSUME ServerInv, EventsMatchEntries, NEW c \in Clients, NEW id \in Sockets,
           connections[id].client_num = c,
           \A i \in Sockets : i # id => connections'[i] = connections[i],
           queue' = [queue EXCEPT ![c] = Remaining(queue[c], id)]
    PROVE  EventsMatchEntries'
  <1>. DEFINE q == queue[c]
              n == Len(q)
              r == Remaining(q, id)
              m == Len(r)
  <1>1. q \in Seq(Event) /\ n \in Nat /\ DOMAIN q = 1 .. n
    BY QueuePositions
  <1>2. r \in Seq(Event) /\ IsRemaining(q, id, r)
    BY <1>1, RemainingCorrect
  <1>3. m \in Nat /\ DOMAIN r = 1 .. m
    BY <1>2, LenProperties
  <1>4. PICK f \in [1 .. m -> 1 .. n] :
           /\ \A j, k \in 1 .. m : j < k => f[j] < f[k]
           /\ \A j \in 1 .. m : r[j] = q[f[j]] /\ q[f[j]].id # id
    BY <1>2 DEF IsRemaining, RemainingUpTo
  <1>5. queue'[c] = r /\ \A d \in Clients \ {c} : queue'[d] = queue[d]
    BY DEF ServerInv
  <1>6. \A k \in 1 .. n :
           /\ q[k].id \in Sockets /\ connections[q[k].id].client_num = c
           /\ q[k].xtcp_event = "XTCP_ACCEPTED" =>
                 \A j \in 1 .. k - 1 : q[j].id # q[k].id
    BY <1>1 DEF EventsMatchEntries, Owns, find_client_connection
  <1>. HIDE DEF q, n, r, m
  <1>7. ASSUME NEW k \in 1 .. m
        PROVE  /\ queue'[c][k].id \in Sockets
               /\ connections'[queue'[c][k].id].client_num = c
               /\ queue'[c][k].xtcp_event = "XTCP_ACCEPTED" =>
                     \A j \in 1 .. k - 1 : queue'[c][j].id # queue'[c][k].id
    <2>1. f[k] \in 1 .. n /\ queue'[c][k] = q[f[k]] /\ q[f[k]].id # id
      BY <1>4, <1>5
    <2>2. \A j \in 1 .. k - 1 : queue'[c][j] = q[f[j]] /\ f[j] \in 1 .. f[k] - 1
      <3>1. \A j \in 1 .. k - 1 : j \in 1 .. m /\ j < k
        BY <1>3
      <3>. QED
        BY <1>1, <1>4, <1>5, <2>1, <3>1
    <2>. QED
      BY <1>6, <2>1, <2>2
  <1>8. ASSUME NEW d \in Clients, NEW k \in DOMAIN queue'[d]
        PROVE  /\ queue'[d][k].id \in Sockets
               /\ connections'[queue'[d][k].id].client_num = d
               /\ queue'[d][k].xtcp_event = "XTCP_ACCEPTED" =>
                     \A j \in 1 .. k - 1 : queue'[d][j].id # queue'[d][k].id
    <2>1. CASE d = c
      BY <1>3, <1>5, <1>7, <2>1
    <2>2. CASE d # c
      BY <1>5, <2>2 DEF EventsMatchEntries, Owns, find_client_connection
    <2>. QED
      BY <2>1, <2>2
  <1>. QED
    BY <1>8 DEF EventsMatchEntries, Owns, find_client_connection

\* Received data of entry i stays, or goes with the entry.
LEMMA DataAfter ==
    ASSUME ServerInv, NoLeftoverData, NEW i \in Sockets, OnlyEntry(i),
           \/ connections'[i].is_active
           \/ connections'[i].pbuf \in {<<>>, connections[i].pbuf}
                /\ ~connections[i].is_active
           \/ connections'[i].pbuf = <<>>
    PROVE  NoLeftoverData'
  BY DEF NoLeftoverData, OnlyEntry

\* The calls of clients keep events and data with their entries.
LEMMA OrderlyClient ==
    ASSUME ServerInv, EventsMatchEntries, NoLeftoverData, "errors" \notin Env,
           NEW c \in Clients, ClientCall(c)
    PROVE  EventsMatchEntries' /\ NoLeftoverData'
  <1>0. /\ \A i \in Sockets : ~connections[i].is_active =>
                                connections[i].client_num \notin Clients
        /\ \A i \in Sockets : connections[i].client_num \in Clients =>
                                connections[i].is_active
    BY SizesAssumption DEF ServerInv, GoodEntries, DEINIT, Clients
  <1>1. CASE get_event(c)
    BY <1>1, EventsAfterGet DEF get_event, NoLeftoverData
  <1>2. ASSUME NEW id, close(c, id) PROVE EventsMatchEntries' /\ NoLeftoverData'
    <2>1. /\ id \in Sockets /\ connections[id].client_num = c /\ OnlyEntry(id)
          /\ connections'[id].pbuf = <<>>
          /\ queue' = [queue EXCEPT ![c] = Remaining(queue[c], id)]
      BY <1>2, CloseEffect DEF Released
    <2>. QED
      BY <2>1, EventsAfterClose, DataAfter DEF OnlyEntry
  <1>3. ASSUME NEW id, \/ send_tcp(c, id) \/ connect_tcp(c, id)
                       \/ listen_udp(c, id) \/ connect_udp(c, id)
        PROVE  EventsMatchEntries' /\ NoLeftoverData'
    <2>1. UNCHANGED <<connections, queue>>
      BY <1>3 DEF send_tcp, connect_tcp, listen_udp, connect_udp, open_udp
    <2>. QED
      BY <2>1, EventsAfterKeep DEF OwnersKept, NoLeftoverData
  <1>4. ASSUME NEW protocol, NEW pool, NEW state,
           \/ protocol = XTCP_PROTOCOL_UDP /\ pool = UdpPcbs /\ state = "UDP"
           \/ protocol = XTCP_PROTOCOL_TCP /\ pool = TcpPcbs /\ state = "CLOSED"
           \/ protocol = XTCP_PROTOCOL_NONE /\ pool = {},
           NewSocket(c, protocol, pool, state)
        PROVE  EventsMatchEntries' /\ NoLeftoverData'
    <2>1. UNCHANGED queue /\ \E index \in Sockets :
             OnlyEntry(index) /\ AssignedTo(index, c, protocol)
      BY <1>4, NewSocketEffect
    <2>2. PICK index \in Sockets :
             /\ OnlyEntry(index) /\ ~connections[index].is_active
             /\ connections'[index].is_active
      BY <2>1 DEF AssignedTo
    <2>3. OwnersKept
      BY <1>0, <2>2 DEF OwnersKept, OnlyEntry
    <2>. QED
      BY <2>1, <2>2, <2>3, EventsAfterKeep, DataAfter
  <1>5. ~socket_tcp_kill(c)
    BY DEF socket_tcp_kill
  <1>6. ASSUME NEW id, listen_tcp(c, id) PROVE EventsMatchEntries' /\ NoLeftoverData'
    <2>1. /\ UNCHANGED queue /\ id \in Sockets
          /\ OnlyEntry(id) /\ connections'[id].is_active
          /\ connections'[id].client_num = connections[id].client_num
      BY <1>6, ListenEffect
    <2>. QED
      BY <2>1, EventsAfterKeep, DataAfter DEF OwnersKept, OnlyEntry
  <1>7. ASSUME NEW id, recv(c, id) PROVE EventsMatchEntries' /\ NoLeftoverData'
    <2>1. /\ UNCHANGED queue /\ id \in Sockets /\ connections[id].is_active
          /\ OnlyEntry(id) /\ SameOwner(id)
      BY <1>7, RecvEffect
    <2>. QED
      BY <2>1, EventsAfterKeep, DataAfter DEF OwnersKept, OnlyEntry, SameOwner
  <1>8. ASSUME NEW id, NEW data \in ClientData,
               set_connection_client_data(c, id, data)
        PROVE  EventsMatchEntries' /\ NoLeftoverData'
    <2>1. /\ UNCHANGED queue /\ id \in Sockets
          /\ OnlyEntry(id) /\ SameOwner(id)
          /\ connections'[id].pbuf = connections[id].pbuf
      BY <1>8, ClientDataEffect
    <2>. QED
      BY <2>1, EventsAfterKeep, DataAfter DEF OwnersKept, OnlyEntry, SameOwner
  <1>. QED
    BY <1>1, <1>2, <1>3, <1>4, <1>5, <1>6, <1>7, <1>8
    DEF ClientCall, OtherCall, socket_udp, socket_none, socket_tcp, recvfrom

\* So do the callbacks: datagrams and segments find an entry in use.
LEMMA OrderlyCallback ==
    ASSUME ServerInv, RoutedInv, EventsMatchEntries, NoLeftoverData,
           "errors" \notin Env, "overload" \notin Env, Callback
    PROVE  EventsMatchEntries' /\ NoLeftoverData'
  <1>0. /\ \A i \in Sockets : ~connections[i].is_active =>
                connections[i].client_num \notin Clients /\ connections[i].pcb = NULL
        /\ \A i \in Sockets : connections[i].client_num \in Clients =>
                                connections[i].is_active
        /\ \A p \in TcpPcbs : p \in Pcbs /\ pcb[p].arg \in Sockets
        /\ NULL \notin Pcbs
    BY SizesAssumption, PoolsAssumption
    DEF ServerInv, GoodEntries, DEINIT, Clients, Pcbs, Blocks
  <1>1. ASSUME UNCHANGED connections, NEW i \in Sockets, NEW event,
               event # "XTCP_ACCEPTED",
               UNCHANGED queue \/ Post(connections[i].client_num, i, event)
        PROVE  EventsMatchEntries' /\ NoLeftoverData'
    <2>1. OwnersKept /\ NoLeftoverData'
      BY <1>1 DEF OwnersKept, NoLeftoverData
    <2>. QED
      BY <1>1, <2>1, EventsAfterKeep, EventsAfterPost
  <1>2. ASSUME NEW i \in Sockets, OnlyEntry(i), SameOwner(i), NEW event,
               event # "XTCP_ACCEPTED", Post(connections[i].client_num, i, event),
               connections[i].is_active \/ connections'[i].pbuf = connections[i].pbuf
        PROVE  EventsMatchEntries' /\ NoLeftoverData'
    <2>1. OwnersKept /\ NoLeftoverData'
      BY <1>2, DataAfter DEF OwnersKept, OnlyEntry, SameOwner
    <2>. QED
      BY <1>2, <2>1, EventsAfterPost DEF SameOwner
  <1>3. ASSUME NEW l \in ListenPcbs, Syn(l)
        PROVE  EventsMatchEntries' /\ NoLeftoverData'
    BY <1>3, EventsAfterKeep DEF Syn, OwnersKept, NoLeftoverData
  <1>4. ASSUME NEW p \in TcpPcbs,
               HalfOpenLost(p) \/ Connected(p) \/ RecvFin(p) \/ CloseDone(p)
        PROVE  EventsMatchEntries' /\ NoLeftoverData'
    <2>1. /\ UNCHANGED connections
          /\ \E event \in {"XTCP_NEW_CONNECTION", "XTCP_CLOSED"} :
                \/ UNCHANGED queue
                \/ Post(connections[pcb[p].arg].client_num, pcb[p].arg, event)
      BY <1>4, ProgressEffect
    <2>. QED
      BY <1>0, <1>1, <2>1
  <1>5. ASSUME NEW p \in TcpPcbs, Accept(p)
        PROVE  EventsMatchEntries' /\ NoLeftoverData'
    <2>. DEFINE c == connections[pcb[p].arg].client_num
    <2>1. PICK index \in Sockets :
             /\ ~connections[index].is_active /\ OnlyEntry(index)
             /\ Post(c, index, "XTCP_ACCEPTED")
             /\ \/ /\ connections'[index].is_active
                   /\ connections'[index].client_num = c
                \/ /\ ~Accepts(c)
                   /\ connections'[index].pbuf = connections[index].pbuf
      BY <1>5, AcceptEffect DEF AssignedTo, Released
    <2>. HIDE DEF c
    <2>2. OwnersKept /\ NoLeftoverData' /\ connections[index].client_num \notin Clients
      BY <1>0, <2>1, DataAfter DEF OwnersKept, OnlyEntry
    <2>. QED
      BY <2>1, <2>2, EventsAfterPost
  <1>6. ASSUME NEW p \in TcpPcbs, NEW event PROVE ~Err(p, event) /\ ~AcceptFails(p)
    BY DEF Err, AcceptFails
  <1>7. ASSUME NEW p \in TcpPcbs, RecvData(p)
        PROVE  EventsMatchEntries' /\ NoLeftoverData'
    <2>. DEFINE i == pcb[p].arg
    <2>1. /\ i \in Sockets /\ OnlyEntry(i) /\ SameOwner(i)
          /\ Post(connections[i].client_num, i, "XTCP_RECV_DATA")
          /\ \/ Accepts(connections[i].client_num)
             \/ connections'[i].pbuf = connections[i].pbuf
      BY <1>7, RecvDataEffect
    <2>2. Accepts(connections[i].client_num) => connections[i].is_active
      BY <1>0, <2>1 DEF Accepts
    <2>. QED
      BY <1>2, <2>1, <2>2
  <1>8. ASSUME NEW p \in TcpPcbs, RetryRefused(p)
        PROVE  EventsMatchEntries' /\ NoLeftoverData'
    <2>. DEFINE i == pcb[p].arg
    <2>1. /\ i \in Sockets /\ OnlyEntry(i) /\ SameOwner(i)
          /\ Post(connections[i].client_num, i, "XTCP_RECV_DATA")
          /\ Accepts(connections[i].client_num)
      BY <1>8, RetryEffect
    <2>2. connections[i].is_active
      BY <1>0, <2>1 DEF Accepts
    <2>. QED
      BY <1>2, <2>1, <2>2
  <1>9. ASSUME NEW p \in TcpPcbs, Sent(p)
        PROVE  EventsMatchEntries' /\ NoLeftoverData'
    <2>1. /\ UNCHANGED connections
          /\ Post(connections[pcb[p].arg].client_num, pcb[p].arg, "XTCP_SENT_DATA")
      BY <1>9 DEF Sent
    <2>. QED
      BY <1>0, <1>1, <2>1
  <1>10. ASSUME NEW p \in UdpPcbs, xtcp_udp_recv(p)
         PROVE  EventsMatchEntries' /\ NoLeftoverData'
    <2>. DEFINE i == pcb[p].arg
    <2>1. /\ i \in Sockets /\ OnlyEntry(i) /\ SameOwner(i)
          /\ \E event \in {"XTCP_RECV_DATA", "XTCP_RECV_FROM_DATA"} :
                Post(connections[i].client_num, i, event)
          /\ pcb[p].state \in {"UDP_BOUND", "UDP_CONNECTED"}
      BY <1>10, DatagramEffect
    <2>2. p \in Pcbs /\ connections[i].pcb = p
      BY <2>1 DEF RoutedInv, RoutedStates, Pcbs
    <2>3. connections[i].is_active
      BY <1>0, <2>1, <2>2
    <2>. QED
      BY <1>2, <2>1, <2>3
  <1>. QED
    BY <1>3, <1>4, <1>5, <1>6, <1>7, <1>8, <1>9, <1>10 DEF Callback, TcpCallback

\* As long as no connection fails, events and data belong to entries in use.
LEMMA OrderlyAlways ==
    ASSUME "errors" \notin Env, "overload" \notin Env
    PROVE  Spec => [](EventsMatchEntries /\ NoLeftoverData)
  <1>1. Init => EventsMatchEntries /\ NoLeftoverData
    BY DEF Init, init_client_connections, InitEntry, EventsMatchEntries,
           NoLeftoverData
  <1>2. ServerInv /\ RoutedInv /\ EventsMatchEntries /\ NoLeftoverData /\ [Next]_vars
           => EventsMatchEntries' /\ NoLeftoverData'
    <2>. SUFFICES ASSUME ServerInv, RoutedInv, EventsMatchEntries, NoLeftoverData,
                         [Next]_vars
                  PROVE  EventsMatchEntries' /\ NoLeftoverData'
      OBVIOUS
    <2>1. CASE Next
      BY <2>1, OrderlyClient, OrderlyCallback DEF Next
    <2>2. CASE UNCHANGED vars
      BY <2>2, EventsAfterKeep DEF vars, OwnersKept, NoLeftoverData
    <2>. QED
      BY <2>1, <2>2
  <1>3. ErrorsHitOwners
    BY DEF ErrorsHitOwners
  <1>. QED
    BY <1>1, <1>2, <1>3, ServerInvAlways, RoutedAlways, PTL DEF Spec

\* A client's queue tells only of entries it has, each from its XTCP_ACCEPTED on,
\* in the absence of failing connections; close leaves no event behind, although
\* lwIP may keep the block.
THEOREM EventsBelongToEntries ==
    ASSUME "errors" \notin Env, "overload" \notin Env
    PROVE  Spec => []EventsMatchEntries
  BY OrderlyAlways, PTL

\* An entry without owner has no data left, in the absence of failing connections,
\* also for datagrams, which xtcp_udp_recv links to the entry without asking
\* whether it is in use.
THEOREM NoDataLeftBehind ==
    ASSUME "errors" \notin Env, "overload" \notin Env
    PROVE  Spec => []NoLeftoverData
  BY OrderlyAlways, PTL

=============================================================================
