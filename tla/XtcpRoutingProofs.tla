------------------------- MODULE XtcpRoutingProofs -------------------------
(***************************************************************************)
(* Which control block belongs to which entry of the connection table.     *)
(* Two facts hold together: an entry's block is live, its own and tells    *)
(* its events to that entry (HeldInv), and a block that raises events is   *)
(* held by the entry it raises them for (RoutedInv).  Each theorem names   *)
(* the surroundings it needs; the runs show that outside them it fails.    *)
(***************************************************************************)
EXTENDS XtcpServerProofs

-----------------------------------------------------------------------------
(* From entries to blocks.                                                 *)

\* The blocks that no entry may hold.
Unheld == {"FREE", "SYN_RCVD", "CLOSING", "TIME_WAIT"}

\* Entry i's block is live and, unless clients open connections on any socket,
\* has the entry's index as its argument.
HeldWell(i) ==
    LET p == connections[i].pcb
    IN  p # NULL =>
          /\ pcb[p].state \notin Unheld
          /\ "connect" \notin Env /\ pcb[p].state \notin {"CLOSED", "UDP"} =>
                pcb[p].arg = i

HeldOnce ==
    \A i, j \in Sockets :
        i # j /\ connections[i].pcb # NULL => connections[i].pcb # connections[j].pcb

HeldInv == HeldOnce /\ \A i \in Sockets : HeldWell(i)

\* Blocks stay as they are, or change while no entry holds them.
LEMMA HeldAfterQuiet ==
    ASSUME ServerInv, HeldInv,
           \A i \in Sockets : connections'[i].pcb \in {connections[i].pcb, NULL},
           \A i \in Sockets : LET p == connections'[i].pcb
                              IN  p # NULL => /\ pcb'[p].arg = pcb[p].arg
                                              /\ \/ pcb'[p].state = pcb[p].state
                                                 \/ /\ pcb[p].state \notin {"CLOSED", "UDP"}
                                                    /\ pcb'[p].state \notin Unheld
    PROVE  HeldInv'
  BY DEF HeldInv, HeldOnce, HeldWell

\* One entry takes a block that nobody holds.
LEMMA HeldAfterTake ==
    ASSUME ServerInv, HeldInv, NEW index \in Sockets, NEW p \in Pcbs,
           \A i \in Sockets : connections[i].pcb # p \/ connections'[i].pcb = NULL \/ i = index,
           \A i \in Sockets \ {index} :
              connections'[i].pcb \in {connections[i].pcb, NULL},
           connections'[index].pcb = p,
           \A i \in Sockets \ {index} :
              LET q == connections'[i].pcb
              IN  q # NULL => pcb'[q] = pcb[q],
           \/ pcb'[p].state \in {"CLOSED", "UDP"}
           \/ pcb'[p].state \notin Unheld /\ pcb'[p].arg = index
    PROVE  HeldInv'
  <1>1. \A i \in Sockets \ {index} : connections'[i].pcb # NULL =>
            /\ connections'[i].pcb = connections[i].pcb
            /\ connections'[i].pcb # p
    OBVIOUS
  <1>2. HeldOnce'
    BY <1>1 DEF HeldInv, HeldOnce
  <1>3. HeldWell(index)'
    BY DEF HeldWell, Unheld
  <1>4. ASSUME NEW i \in Sockets, i # index PROVE HeldWell(i)'
    BY <1>1, <1>4 DEF HeldInv, HeldWell
  <1>. QED
    BY <1>2, <1>3, <1>4 DEF HeldInv

\* A block no entry may hold is held by none.
LEMMA NotHeld ==
    ASSUME ServerInv, HeldInv, NEW p \in Pcbs, pcb[p].state \in Unheld
    PROVE  \A i \in Sockets : connections[i].pcb # p
  BY PoolsAssumption DEF HeldInv, HeldWell, Pcbs

\* An error reaches the entry that holds the block, if any does.
LEMMA ErrorHitsHolder ==
    ASSUME HeldInv, "connect" \notin Env, NEW p \in Pcbs,
           pcb[p].state \in Eventful, NEW i \in Sockets, connections[i].pcb = p
    PROVE  i = pcb[p].arg
  BY PoolsAssumption DEF HeldInv, HeldWell, Eventful, Synchronized, Pcbs, Unheld

\* Calls of clients keep the entries' blocks their own.
LEMMA HeldClient ==
    ASSUME ServerInv, HeldInv, NEW c \in Clients, ClientCall(c),
           "connect" \notin Env \/ "errors" \notin Env
    PROVE  HeldInv'
  <1>0. NULL \notin Pcbs /\ \A i \in Sockets : connections[i].pcb \in Pcbs \cup {NULL}
    BY PoolsAssumption DEF Pcbs, ServerInv, GoodEntries, Entries
  <1>1. CASE get_event(c)
    BY <1>1, HeldAfterQuiet DEF get_event
  <1>2. ASSUME NEW id, close(c, id) PROVE HeldInv'
    <2>1. /\ id \in Sockets /\ OnlyEntry(id) /\ connections'[id].pcb = NULL
          /\ \A q \in Pcbs : q # connections[id].pcb =>
                 \/ pcb'[q] = pcb[q]
                 \/ pcb[q].state = "SYN_RCVD" /\ pcb'[q] = FreePcb
      BY <1>2, CloseEffect DEF Released
    <2>2. ASSUME NEW i \in Sockets, connections'[i].pcb # NULL
          PROVE  /\ connections'[i].pcb = connections[i].pcb
                 /\ pcb'[connections'[i].pcb] = pcb[connections'[i].pcb]
      <3>1. i # id /\ connections'[i].pcb = connections[i].pcb
        BY <2>1, <2>2 DEF OnlyEntry
      <3>2. connections[i].pcb \in Pcbs /\ connections[i].pcb # connections[id].pcb
            /\ pcb[connections[i].pcb].state # "SYN_RCVD"
        BY <1>0, <2>1, <2>2, <3>1 DEF HeldInv, HeldOnce, HeldWell, Unheld
      <3>. QED
        BY <2>1, <3>1, <3>2
    <2>3. \A i \in Sockets : connections'[i].pcb \in {connections[i].pcb, NULL}
      BY <2>2
    <2>. QED
      BY <2>2, <2>3, HeldAfterQuiet
  <1>3. ASSUME NEW id \in Sockets, send_tcp(c, id) PROVE HeldInv'
    <2>1. /\ UNCHANGED connections
          /\ \A q \in Pcbs : pcb'[q].state = pcb[q].state /\ pcb'[q].arg = pcb[q].arg
      BY <1>3, SendEffect DEF OnlyBlock, SameStream
    <2>. QED
      BY <1>0, <2>1, HeldAfterQuiet
  <1>4. ASSUME NEW protocol, NEW pool, NEW state,
           \/ protocol = XTCP_PROTOCOL_UDP /\ pool = UdpPcbs /\ state = "UDP"
           \/ protocol = XTCP_PROTOCOL_TCP /\ pool = TcpPcbs /\ state = "CLOSED"
           \/ protocol = XTCP_PROTOCOL_NONE /\ pool = {},
           NewSocket(c, protocol, pool, state)
        PROVE  HeldInv'
    <2>1. PICK index \in Sockets :
             /\ OnlyEntry(index)
             /\ \/ \E p \in pool : /\ pcb[p].state = "FREE"
                                   /\ connections'[index].pcb = p
                                   /\ OnlyBlock(p)
                                   /\ pcb'[p] = NewPcb(state)
                \/ connections'[index].pcb = NULL /\ UNCHANGED pcb
      BY <1>4, NewSocketEffect
    <2>2. CASE connections'[index].pcb = NULL /\ UNCHANGED pcb
      BY <2>1, <2>2, HeldAfterQuiet DEF OnlyEntry
    <2>3. ASSUME NEW p \in pool, pcb[p].state = "FREE", connections'[index].pcb = p,
                 OnlyBlock(p), pcb'[p] = NewPcb(state)
          PROVE  HeldInv'
      <3>1. p \in Pcbs /\ pcb'[p].state \in {"CLOSED", "UDP"}
        BY <1>4, <2>3, NewBlock DEF Pcbs
      <3>2. \A i \in Sockets : connections[i].pcb # p
        BY <2>3, <3>1, NotHeld DEF Unheld
      <3>3. \A i \in Sockets \ {index} : connections'[i].pcb = connections[i].pcb
        BY <2>1 DEF OnlyEntry
      <3>4. \A i \in Sockets \ {index} : connections'[i].pcb # NULL =>
               pcb'[connections'[i].pcb] = pcb[connections'[i].pcb]
        BY <1>0, <2>3, <3>2, <3>3 DEF OnlyBlock
      <3>. QED
        BY <2>3, <3>1, <3>2, <3>3, <3>4, HeldAfterTake
    <2>. QED
      BY <2>1, <2>2, <2>3
  <1>5. CASE socket_tcp_kill(c)
    <2>1. "connect" \notin Env
      BY <1>5 DEF socket_tcp_kill
    <2>2. PICK v \in Victims, index \in Sockets :
             /\ ~connections[index].is_active
             /\ \A j \in Sockets : j \notin {index, pcb[v].arg} =>
                   connections'[j] = connections[j]
             /\ OnlyBlock(v)
             /\ \/ /\ pcb[v].state = "TIME_WAIT" /\ OnlyEntry(index)
                   /\ connections'[index].pcb = v
                   /\ pcb'[v] = NewPcb("CLOSED")
                \/ /\ pcb[v].state # "TIME_WAIT" /\ pcb[v].arg # index
                   /\ connections'[index].pcb = v
                   /\ pcb'[v] = NewPcb("CLOSED")
                   /\ connections'[pcb[v].arg].pcb = NULL
                \/ /\ pcb[v].state # "TIME_WAIT" /\ pcb[v].arg = index
                   /\ pcb'[v] = FreePcb
                   /\ connections'[index].pcb = NULL
      BY <1>5, KillEffect DEF Released
    <2>3. v \in Pcbs /\ pcb[v].state \in Eventful \cup {"TIME_WAIT"}
      BY DEF Victims, Pcbs, Eventful
    <2>4. connections[index].pcb = NULL
      BY <2>2 DEF ServerInv, GoodEntries
    <2>5. \A i \in Sockets : connections[i].pcb = v =>
             i = pcb[v].arg /\ pcb[v].state # "TIME_WAIT" /\ i # index
      BY <1>0, <2>1, <2>3, <2>4, ErrorHitsHolder, NotHeld DEF Unheld
    <2>6. CASE pcb'[v] = FreePcb /\ connections'[index].pcb = NULL
               /\ pcb[v].arg = index
      <3>1. \A i \in Sockets : connections'[i].pcb \in {connections[i].pcb, NULL}
        BY <2>2, <2>6
      <3>2. \A i \in Sockets : connections'[i].pcb # NULL =>
               pcb'[connections'[i].pcb] = pcb[connections'[i].pcb]
        BY <1>0, <2>2, <2>5, <2>6, <3>1 DEF OnlyBlock
      <3>. QED
        BY <3>1, <3>2, HeldAfterQuiet
    <2>7. CASE pcb'[v] = NewPcb("CLOSED") /\ connections'[index].pcb = v
      <3>1. \A i \in Sockets \ {index} :
               connections'[i].pcb \in {connections[i].pcb, NULL}
        BY <2>2, <2>7 DEF OnlyEntry
      <3>2. \A i \in Sockets :
               connections[i].pcb # v \/ connections'[i].pcb = NULL \/ i = index
        BY <2>2, <2>5
      <3>3. \A i \in Sockets \ {index} : connections'[i].pcb # NULL =>
               pcb'[connections'[i].pcb] = pcb[connections'[i].pcb]
        BY <1>0, <2>2, <3>1, <3>2 DEF OnlyBlock
      <3>. QED
        BY <2>3, <2>7, <3>1, <3>2, <3>3, HeldAfterTake, NewBlock
    <2>. QED
      BY <2>2, <2>6, <2>7
  <1>6. ASSUME NEW id, listen_tcp(c, id) PROVE HeldInv'
    <2>. DEFINE p == connections[id].pcb
    <2>1. /\ id \in Sockets /\ p \in TcpPcbs
          /\ \E l \in ListenPcbs :
                /\ pcb[l].state = "FREE" /\ OnlyEntry(id) /\ connections'[id].pcb = l
                /\ \A q \in Pcbs : q \notin {p, l} => pcb'[q] = pcb[q]
                /\ pcb'[l].state = "LISTEN" /\ pcb'[l].arg = id
      BY <1>6, ListenEffect
    <2>2. PICK l \in ListenPcbs :
                /\ pcb[l].state = "FREE" /\ OnlyEntry(id) /\ connections'[id].pcb = l
                /\ \A q \in Pcbs : q \notin {p, l} => pcb'[q] = pcb[q]
                /\ pcb'[l].state = "LISTEN" /\ pcb'[l].arg = id
      BY <2>1
    <2>3. l \in Pcbs /\ p # NULL
      BY <1>0, <2>1 DEF Pcbs
    <2>4. \A i \in Sockets : connections[i].pcb # l
      BY <2>2, <2>3, NotHeld DEF Unheld
    <2>5. \A i \in Sockets \ {id} : connections'[i].pcb = connections[i].pcb
      BY <2>2 DEF OnlyEntry
    <2>6. \A i \in Sockets \ {id} : connections[i].pcb # p
      BY <2>1, <2>3 DEF HeldInv, HeldOnce
    <2>7. \A i \in Sockets \ {id} : connections'[i].pcb # NULL =>
             pcb'[connections'[i].pcb] = pcb[connections'[i].pcb]
      <3>. HIDE DEF p
      <3>. QED
        BY <1>0, <2>2, <2>4, <2>5, <2>6
    <2>. QED
      BY <2>1, <2>2, <2>3, <2>4, <2>5, <2>7, HeldAfterTake DEF Unheld
  <1>7. ASSUME NEW id, listen_udp(c, id) \/ connect_udp(c, id) PROVE HeldInv'
    <2>. DEFINE p == connections[id].pcb
    <2>1. PICK state \in {"UDP_BOUND", "UDP_CONNECTED"} : open_udp(c, id, state)
      BY <1>7 DEF listen_udp, connect_udp
    <2>2. /\ id \in Sockets /\ p \in Pcbs /\ OnlyBlock(p) /\ UNCHANGED connections
          /\ pcb'[p].state \in {"UDP_BOUND", "UDP_CONNECTED"} /\ pcb'[p].arg = id
      BY <2>1, OpenUdpEffect DEF Pcbs
    <2>3. \A i \in Sockets : connections[i].pcb # p \/ i = id
      BY <1>0, <2>2 DEF HeldInv, HeldOnce
    <2>4. \A i \in Sockets \ {id} : connections'[i].pcb # NULL =>
             pcb'[connections'[i].pcb] = pcb[connections'[i].pcb]
      BY <1>0, <2>2, <2>3 DEF OnlyBlock
    <2>. QED
      BY <2>2, <2>3, <2>4, HeldAfterTake DEF Unheld
  <1>8. ASSUME NEW id, connect_tcp(c, id) PROVE HeldInv'
    <2>. DEFINE p == connections[id].pcb
    <2>1. /\ "connect" \in Env \/ id = 0
          /\ id \in Sockets /\ p \in Pcbs /\ OnlyBlock(p) /\ UNCHANGED connections
          /\ pcb'[p].state = "SYN_SENT" /\ pcb'[p].arg = 0
      BY <1>8, ConnectEffect DEF Pcbs
    <2>2. HeldWell(id)'
      BY <2>1 DEF HeldWell, Unheld
    <2>3. ASSUME NEW i \in Sockets, i # id PROVE HeldWell(i)'
      <3>1. connections[i].pcb # NULL =>
               connections[i].pcb \in Pcbs /\ connections[i].pcb # p
        BY <1>0, <2>1, <2>3 DEF HeldInv, HeldOnce
      <3>. QED
        BY <2>1, <3>1 DEF HeldInv, HeldWell, OnlyBlock
    <2>. QED
      BY <2>1, <2>2, <2>3 DEF HeldInv, HeldOnce
  <1>9. ASSUME NEW id, recv(c, id) PROVE HeldInv'
    <2>1. /\ id \in Sockets /\ OnlyEntry(id) /\ SameOwner(id)
          /\ \A q \in Pcbs : pcb'[q].state = pcb[q].state /\ pcb'[q].arg = pcb[q].arg
      BY <1>9, RecvEffect
    <2>2. \A i \in Sockets : connections'[i].pcb = connections[i].pcb
      BY <2>1 DEF OnlyEntry, SameOwner
    <2>. QED
      BY <1>0, <2>1, <2>2, HeldAfterQuiet
  <1>10. ASSUME NEW id, NEW data \in ClientData,
                set_connection_client_data(c, id, data)
         PROVE  HeldInv'
    <2>1. OnlyEntry(id) /\ SameOwner(id) /\ UNCHANGED pcb
      BY <1>10, ClientDataEffect
    <2>2. \A i \in Sockets : connections'[i].pcb = connections[i].pcb
      BY <2>1 DEF OnlyEntry, SameOwner
    <2>. QED
      BY <2>1, <2>2, HeldAfterQuiet
  <1>. QED
    BY <1>1, <1>2, <1>3, <1>4, <1>5, <1>6, <1>7, <1>8, <1>9, <1>10
    DEF ClientCall, OtherCall, socket_udp, socket_none, socket_tcp, recvfrom

\* So do the callbacks.
LEMMA HeldCallback ==
    ASSUME ServerInv, HeldInv, Callback,
           "connect" \notin Env \/ "errors" \notin Env
    PROVE  HeldInv'
  <1>0. /\ NULL \notin Pcbs /\ TcpPcbs \subseteq Pcbs
        /\ \A i \in Sockets : connections[i].pcb \in Pcbs \cup {NULL}
    BY PoolsAssumption DEF Pcbs, ServerInv, GoodEntries, Entries
  <1>1. ASSUME NEW l \in ListenPcbs, Syn(l) PROVE HeldInv'
    <2>1. PICK p \in TcpPcbs : pcb[p].state = "FREE" /\ OnlyBlock(p)
      BY <1>1, SynEffect
    <2>2. UNCHANGED connections
      BY <1>1 DEF Syn
    <2>3. \A i \in Sockets : connections'[i].pcb # NULL =>
             pcb'[connections'[i].pcb] = pcb[connections'[i].pcb]
      BY <1>0, <2>1, <2>2, NotHeld DEF Unheld, OnlyBlock
    <2>. QED
      BY <2>2, <2>3, HeldAfterQuiet
  <1>2. ASSUME NEW p \in TcpPcbs,
               HalfOpenLost(p) \/ Connected(p) \/ RecvFin(p) \/ CloseDone(p)
        PROVE  HeldInv'
    <2>1. /\ UNCHANGED connections /\ OnlyBlock(p)
          /\ \/ pcb[p].state \in Unheld
             \/ /\ pcb[p].state \in {"SYN_SENT", "ESTABLISHED"}
                /\ pcb'[p].state \in {"ESTABLISHED", "CLOSE_WAIT"}
                /\ pcb'[p].arg = pcb[p].arg
      BY <1>2, ProgressEffect DEF SameStream, Unheld
    <2>2. CASE pcb[p].state \in Unheld
      <3>1. \A i \in Sockets : connections'[i].pcb # NULL =>
               pcb'[connections'[i].pcb] = pcb[connections'[i].pcb]
        BY <1>0, <2>1, <2>2, NotHeld DEF OnlyBlock
      <3>. QED
        BY <2>1, <3>1, HeldAfterQuiet
    <2>3. CASE /\ pcb[p].state \in {"SYN_SENT", "ESTABLISHED"}
               /\ pcb'[p].state \in {"ESTABLISHED", "CLOSE_WAIT"}
               /\ pcb'[p].arg = pcb[p].arg
      <3>1. \A q \in Pcbs : /\ pcb'[q].arg = pcb[q].arg
                            /\ \/ pcb'[q].state = pcb[q].state
                               \/ /\ pcb[q].state \notin {"CLOSED", "UDP"}
                                  /\ pcb'[q].state \notin Unheld
        BY <2>1, <2>3 DEF OnlyBlock, Unheld
      <3>. QED
        BY <1>0, <2>1, <3>1, HeldAfterQuiet
    <2>. QED
      BY <2>1, <2>2, <2>3
  <1>3. ASSUME NEW p \in TcpPcbs, Accept(p) PROVE HeldInv'
    <2>1. PICK index \in Sockets :
             /\ OnlyEntry(index)
             /\ \/ /\ connections'[index].pcb = p
                   /\ pcb'[p].state = "ESTABLISHED" /\ pcb'[p].arg = index
                \/ connections'[index].pcb = NULL
      BY <1>3, AcceptEffect DEF Released
    <2>2. pcb[p].state = "SYN_RCVD" /\ OnlyBlock(p)
      BY <1>3, AcceptEffect
    <2>3. \A i \in Sockets : connections[i].pcb # p
      BY <1>0, <2>2, NotHeld DEF Unheld
    <2>4. \A i \in Sockets \ {index} : connections'[i].pcb = connections[i].pcb
      BY <2>1 DEF OnlyEntry
    <2>5. \A i \in Sockets \ {index} : connections'[i].pcb # NULL =>
             pcb'[connections'[i].pcb] = pcb[connections'[i].pcb]
      BY <1>0, <2>2, <2>3, <2>4 DEF OnlyBlock
    <2>6. CASE connections'[index].pcb = NULL
      BY <2>4, <2>5, <2>6, HeldAfterQuiet
    <2>7. CASE connections'[index].pcb = p /\ pcb'[p].state = "ESTABLISHED"
               /\ pcb'[p].arg = index
      BY <1>0, <2>3, <2>4, <2>5, <2>7, HeldAfterTake DEF Unheld
    <2>. QED
      BY <2>1, <2>6, <2>7
  <1>4. ASSUME NEW p \in TcpPcbs, NEW event \in ServerEvents,
               Err(p, event) \/ (event = "XTCP_ABORTED" /\ AcceptFails(p))
        PROVE  HeldInv'
    <2>. DEFINE hit == pcb[p].arg
    <2>1. /\ \/ "connect" \notin Env /\ pcb[p].state \in Eventful
             \/ pcb[p].state = "SYN_RCVD"
          /\ hit \in Sockets /\ OnlyEntry(hit) /\ OnlyBlock(p)
          /\ connections'[hit].pcb = NULL
      BY <1>4, ErrEffect DEF Released
    <2>2. \A i \in Sockets : connections[i].pcb = p => i = hit
      BY <1>0, <2>1, ErrorHitsHolder, NotHeld DEF Unheld
    <2>. HIDE DEF hit
    <2>3. \A i \in Sockets : connections'[i].pcb \in {connections[i].pcb, NULL}
      BY <2>1 DEF OnlyEntry
    <2>4. \A i \in Sockets : connections'[i].pcb # NULL =>
             pcb'[connections'[i].pcb] = pcb[connections'[i].pcb]
      BY <1>0, <2>1, <2>2, <2>3 DEF OnlyBlock
    <2>. QED
      BY <2>3, <2>4, HeldAfterQuiet
  <1>5. ASSUME NEW p \in TcpPcbs, RecvData(p) \/ RetryRefused(p) PROVE HeldInv'
    <2>1. /\ OnlyEntry(pcb[p].arg) /\ SameOwner(pcb[p].arg) /\ OnlyBlock(p)
          /\ pcb'[p].state = pcb[p].state /\ pcb'[p].arg = pcb[p].arg
      BY <1>5, RecvDataEffect, RetryEffect
    <2>2. \A i \in Sockets : connections'[i].pcb = connections[i].pcb
      BY <2>1 DEF OnlyEntry, SameOwner
    <2>3. \A q \in Pcbs : pcb'[q].state = pcb[q].state /\ pcb'[q].arg = pcb[q].arg
      BY <2>1 DEF OnlyBlock
    <2>. QED
      BY <1>0, <2>2, <2>3, HeldAfterQuiet
  <1>6. ASSUME NEW p \in TcpPcbs, Sent(p) PROVE HeldInv'
    <2>1. /\ UNCHANGED connections
          /\ \A q \in Pcbs : pcb'[q].state = pcb[q].state /\ pcb'[q].arg = pcb[q].arg
      BY <1>6, SendEffect DEF OnlyBlock, SameStream
    <2>. QED
      BY <1>0, <2>1, HeldAfterQuiet
  <1>7. ASSUME NEW p \in UdpPcbs, xtcp_udp_recv(p) PROVE HeldInv'
    <2>1. OnlyEntry(pcb[p].arg) /\ SameOwner(pcb[p].arg) /\ UNCHANGED pcb
      BY <1>7, DatagramEffect
    <2>2. \A i \in Sockets : connections'[i].pcb = connections[i].pcb
      BY <2>1 DEF OnlyEntry, SameOwner
    <2>. QED
      BY <2>1, <2>2, HeldAfterQuiet
  <1>8. {"XTCP_ABORTED", "XTCP_TIMED_OUT"} \subseteq ServerEvents
    BY DEF ServerEvents
  <1>. QED
    BY <1>1, <1>2, <1>3, <1>4, <1>5, <1>6, <1>7, <1>8 DEF Callback, TcpCallback

\* The blocks of the entries are their own in every state, unless connections
\* that clients open on any socket also fail.
LEMMA HeldAlways ==
    ASSUME "connect" \notin Env \/ "errors" \notin Env
    PROVE  Spec => []HeldInv
  <1>1. Init => HeldInv
    BY DEF Init, init_client_connections, InitEntry, HeldInv, HeldOnce, HeldWell
  <1>2. ServerInv /\ HeldInv /\ [Next]_vars => HeldInv'
    <2>. SUFFICES ASSUME ServerInv, HeldInv, [Next]_vars PROVE HeldInv'
      OBVIOUS
    <2>1. CASE Next
      BY <2>1, HeldClient, HeldCallback DEF Next
    <2>2. CASE UNCHANGED vars
      BY <2>2 DEF vars, HeldInv, HeldOnce, HeldWell
    <2>. QED
      BY <2>1, <2>2
  <1>. QED
    BY <1>1, <1>2, ServerInvAlways, PTL DEF Spec

\* No entry holds a control block that lwIP has taken back, and no two hold the
\* same one, as long as connections do not fail or clients open their own on
\* socket 0 only.  Otherwise the error of a connection a client opened frees
\* entry 0, not its own: shim_connect does not set the block's argument.
THEOREM NoEntryDangles ==
    ASSUME "connect" \notin Env \/ "errors" \notin Env
    PROVE  Spec => []NoDanglingPcb
  <1>1. HeldInv => NoDanglingPcb
    BY DEF HeldInv, HeldOnce, HeldWell, NoDanglingPcb, Unheld
  <1>. QED
    BY <1>1, HeldAlways, PTL

\* The events of an entry's block carry the entry's index, if clients open
\* connections of their own on socket 0 only, or not at all.
THEOREM OwnersHearTheirBlocks ==
    ASSUME "connect" \notin Env
    PROVE  Spec => []OwnerHearsPcb
  <1>1. HeldInv => OwnerHearsPcb
    BY DEF HeldInv, HeldWell, OwnerHearsPcb
  <1>. QED
    BY <1>1, HeldAlways, PTL

-----------------------------------------------------------------------------
(* From blocks to entries.                                                 *)

\* The states in which a block's argument names the entry that holds it: for a
\* connection a client opened the argument is not set, and a block kept for the
\* closing handshake has left its entry.
RoutedStates ==
    {"LISTEN", "UDP_BOUND", "UDP_CONNECTED"}
      \cup (IF "connect" \in Env THEN {} ELSE Synchronized \cup {"SYN_SENT"})
      \cup (IF "linger" \in Env THEN {} ELSE {"CLOSING"})

RoutedInv ==
    \A p \in Pcbs :
        pcb[p].state \in RoutedStates => connections[pcb[p].arg].pcb = p

\* No connection fails whose argument does not name its own entry.
ErrorsHitOwners ==
    /\ "overload" \notin Env
    /\ "errors" \in Env => "connect" \notin Env /\ "linger" \notin Env

\* Entries keep their blocks, and blocks their argument and their kind of state.
LEMMA RoutedAfterQuiet ==
    ASSUME ServerInv, RoutedInv,
           \A i \in Sockets : connections'[i].pcb = connections[i].pcb,
           \A p \in Pcbs : pcb'[p].state \in RoutedStates =>
              pcb[p].state \in RoutedStates /\ pcb'[p].arg = pcb[p].arg
    PROVE  RoutedInv'
  <1>1. \A p \in Pcbs : pcb[p].arg \in Sockets
    BY DEF ServerInv, Blocks
  <1>. QED
    BY <1>1 DEF RoutedInv, RoutedStates

\* Entry i changes its block: the one it had is no longer routed.
LEMMA RoutedAfterChange ==
    ASSUME ServerInv, RoutedInv, NEW i \in Sockets, NEW p,
           \A j \in Sockets : j # i => connections'[j].pcb = connections[j].pcb,
           connections[i].pcb \in Pcbs =>
              pcb'[connections[i].pcb].state \notin RoutedStates,
           connections'[i].pcb = p,
           \A q \in Pcbs : q # p /\ pcb'[q].state \in RoutedStates =>
              pcb[q].state \in RoutedStates /\ pcb'[q].arg = pcb[q].arg,
           p \in Pcbs => pcb'[p].state \notin RoutedStates \/ pcb'[p].arg = i
    PROVE  RoutedInv'
  <1>1. \A q \in Pcbs : pcb[q].arg \in Sockets
    BY DEF ServerInv, Blocks
  <1>2. ASSUME NEW q \in Pcbs, pcb'[q].state \in RoutedStates
        PROVE  connections'[pcb'[q].arg].pcb = q
    <2>1. CASE q = p
      BY <1>2, <2>1
    <2>2. CASE q # p
      <3>1. connections[pcb[q].arg].pcb = q /\ pcb'[q].arg = pcb[q].arg
        BY <1>2, <2>2 DEF RoutedInv
      <3>2. pcb[q].arg # i
        BY <1>2, <3>1
      <3>. QED
        BY <1>1, <3>1, <3>2
    <2>. QED
      BY <2>1, <2>2
  <1>. QED
    BY <1>2 DEF RoutedInv, RoutedStates

\* Calls of clients keep the blocks routed.
LEMMA RoutedClient ==
    ASSUME ServerInv, RoutedInv, ErrorsHitOwners, NEW c \in Clients, ClientCall(c)
    PROVE  RoutedInv'
  <1>0. /\ NULL \notin Pcbs
        /\ \A i \in Sockets : connections[i].pcb \in Pcbs \cup {NULL}
        /\ \A i \in Sockets : ~connections[i].is_active => connections[i].pcb = NULL
        /\ \A p \in Pcbs : pcb[p].arg \in Sockets
    BY PoolsAssumption DEF Pcbs, ServerInv, GoodEntries, Entries, Blocks
  <1>1. CASE get_event(c)
    BY <1>1, RoutedAfterQuiet DEF get_event
  <1>2. ASSUME NEW id, close(c, id) PROVE RoutedInv'
    <2>. DEFINE p == connections[id].pcb
    <2>1. /\ id \in Sockets /\ OnlyEntry(id) /\ connections'[id].pcb = NULL
          /\ \A q \in Pcbs : q # p =>
                 \/ pcb'[q] = pcb[q]
                 \/ pcb[q].state = "SYN_RCVD" /\ pcb'[q] = FreePcb
          /\ \A q \in Pcbs : q = p =>
                 pcb'[q] = FreePcb \/ ("linger" \in Env /\ pcb'[q].state = "CLOSING")
      BY <1>2, CloseEffect DEF Released
    <2>. HIDE DEF p
    <2>2. \A q \in Pcbs : q = p => pcb'[q].state \notin RoutedStates
      BY <2>1, NewBlock DEF RoutedStates, Synchronized
    <2>3. \A q \in Pcbs : q # p /\ pcb'[q].state \in RoutedStates => pcb'[q] = pcb[q]
      BY <2>1, NewBlock DEF RoutedStates, Synchronized
    <2>4. \A j \in Sockets : j # id => connections'[j].pcb = connections[j].pcb
      BY <2>1 DEF OnlyEntry
    <2>5. \A q \in Pcbs : q # NULL /\ pcb'[q].state \in RoutedStates =>
             pcb[q].state \in RoutedStates /\ pcb'[q].arg = pcb[q].arg
      BY <2>2, <2>3
    <2>. QED
      BY <1>0, <2>1, <2>2, <2>4, <2>5, RoutedAfterChange DEF p
  <1>3. ASSUME NEW id \in Sockets, send_tcp(c, id) PROVE RoutedInv'
    <2>1. /\ UNCHANGED connections
          /\ \A q \in Pcbs : pcb'[q].state = pcb[q].state /\ pcb'[q].arg = pcb[q].arg
      BY <1>3, SendEffect DEF OnlyBlock, SameStream
    <2>. QED
      BY <2>1, RoutedAfterQuiet
  <1>4. ASSUME NEW protocol, NEW pool, NEW state,
           \/ protocol = XTCP_PROTOCOL_UDP /\ pool = UdpPcbs /\ state = "UDP"
           \/ protocol = XTCP_PROTOCOL_TCP /\ pool = TcpPcbs /\ state = "CLOSED"
           \/ protocol = XTCP_PROTOCOL_NONE /\ pool = {},
           NewSocket(c, protocol, pool, state)
        PROVE  RoutedInv'
    <2>1. PICK index \in Sockets :
             /\ OnlyEntry(index) /\ ~connections[index].is_active
             /\ \/ \E p \in pool : /\ connections'[index].pcb = p
                                   /\ OnlyBlock(p)
                                   /\ pcb'[p] = NewPcb(state)
                \/ connections'[index].pcb = NULL /\ UNCHANGED pcb
      BY <1>4, NewSocketEffect DEF AssignedTo
    <2>2. /\ \A j \in Sockets : j # index => connections'[j].pcb = connections[j].pcb
          /\ connections[index].pcb \notin Pcbs
      BY <1>0, <2>1 DEF OnlyEntry
    <2>3. CASE connections'[index].pcb = NULL /\ UNCHANGED pcb
      BY <1>0, <2>2, <2>3, RoutedAfterChange
    <2>4. ASSUME NEW p \in pool, connections'[index].pcb = p,
                 OnlyBlock(p), pcb'[p] = NewPcb(state)
          PROVE  RoutedInv'
      <3>1. p \in Pcbs /\ pcb'[p].state \in {"CLOSED", "UDP"}
        BY <1>4, <2>4, NewBlock DEF Pcbs
      <3>2. pcb'[p].state \notin RoutedStates
        BY <3>1 DEF RoutedStates, Synchronized
      <3>. QED
        BY <2>2, <2>4, <3>1, <3>2, RoutedAfterChange DEF OnlyBlock
    <2>. QED
      BY <2>1, <2>3, <2>4
  <1>5. CASE socket_tcp_kill(c)
    <2>1. "connect" \notin Env /\ "linger" \notin Env
      BY <1>5 DEF socket_tcp_kill, ErrorsHitOwners
    <2>2. PICK v \in Victims, index \in Sockets :
             /\ ~connections[index].is_active
             /\ \A j \in Sockets : j \notin {index, pcb[v].arg} =>
                   connections'[j] = connections[j]
             /\ OnlyBlock(v)
             /\ pcb[v].state = "TIME_WAIT" => OnlyEntry(index)
             /\ pcb'[v] = NewPcb("CLOSED") \/ pcb'[v] = FreePcb
      BY <1>5, KillEffect
    <2>3. v \in Pcbs /\ pcb[v].state \in RoutedStates \cup {"TIME_WAIT"}
      BY <2>1 DEF Victims, Pcbs, RoutedStates
    <2>4. pcb'[v].state \notin RoutedStates
      BY <2>2, NewBlock DEF RoutedStates, Synchronized
    <2>5. ASSUME NEW q \in Pcbs, pcb'[q].state \in RoutedStates
          PROVE  connections'[pcb'[q].arg].pcb = q
      <3>1. q # v /\ pcb'[q] = pcb[q] /\ connections[pcb[q].arg].pcb = q
        BY <2>2, <2>4, <2>5 DEF OnlyBlock, RoutedInv
      <3>2. pcb[q].arg \in Sockets /\ pcb[q].arg # index
        BY <1>0, <2>2, <3>1
      <3>3. CASE pcb[v].state = "TIME_WAIT"
        BY <2>2, <3>1, <3>2, <3>3 DEF OnlyEntry
      <3>4. CASE pcb[v].state \in RoutedStates
        <4>1. connections[pcb[v].arg].pcb = v
          BY <2>3, <3>4 DEF RoutedInv
        <4>2. pcb[q].arg # pcb[v].arg
          BY <3>1, <4>1
        <4>. QED
          BY <2>2, <3>1, <3>2, <4>2
      <3>. QED
        BY <2>3, <3>3, <3>4
    <2>. QED
      BY <2>5 DEF RoutedInv, RoutedStates
  <1>6. ASSUME NEW id, listen_tcp(c, id) PROVE RoutedInv'
    <2>. DEFINE p == connections[id].pcb
    <2>1. /\ id \in Sockets
          /\ \E l \in ListenPcbs :
                /\ OnlyEntry(id) /\ connections'[id].pcb = l
                /\ \A q \in Pcbs : q \notin {p, l} => pcb'[q] = pcb[q]
                /\ pcb'[p] = FreePcb /\ pcb'[l].arg = id
      BY <1>6, ListenEffect
    <2>2. PICK l \in ListenPcbs :
                /\ OnlyEntry(id) /\ connections'[id].pcb = l
                /\ \A q \in Pcbs : q \notin {p, l} => pcb'[q] = pcb[q]
                /\ pcb'[p] = FreePcb /\ pcb'[l].arg = id
      BY <2>1
    <2>3. l \in Pcbs
      BY DEF Pcbs
    <2>4. pcb'[p].state \notin RoutedStates
      BY <2>2, NewBlock DEF RoutedStates, Synchronized
    <2>5. \A j \in Sockets : j # id => connections'[j].pcb = connections[j].pcb
      BY <2>2 DEF OnlyEntry
    <2>6. \A q \in Pcbs : q # l /\ pcb'[q].state \in RoutedStates =>
             pcb[q].state \in RoutedStates /\ pcb'[q].arg = pcb[q].arg
      <3>. HIDE DEF p
      <3>. QED
        BY <2>2, <2>4
    <2>. QED
      BY <2>1, <2>2, <2>3, <2>4, <2>5, <2>6, RoutedAfterChange
  <1>7. ASSUME NEW id, listen_udp(c, id) \/ connect_udp(c, id) PROVE RoutedInv'
    <2>. DEFINE p == connections[id].pcb
    <2>1. PICK state \in {"UDP_BOUND", "UDP_CONNECTED"} : open_udp(c, id, state)
      BY <1>7 DEF listen_udp, connect_udp
    <2>2. /\ id \in Sockets /\ p \in Pcbs /\ OnlyBlock(p) /\ UNCHANGED connections
          /\ pcb'[p].arg = id
      BY <2>1, OpenUdpEffect DEF Pcbs
    <2>3. ASSUME NEW q \in Pcbs, pcb'[q].state \in RoutedStates
          PROVE  connections'[pcb'[q].arg].pcb = q
      BY <2>2, <2>3 DEF OnlyBlock, RoutedInv
    <2>. QED
      BY <2>3 DEF RoutedInv, RoutedStates
  <1>8. ASSUME NEW id, connect_tcp(c, id) PROVE RoutedInv'
    <2>. DEFINE p == connections[id].pcb
    <2>1. /\ "connect" \in Env \/ id = 0
          /\ p \in Pcbs /\ OnlyBlock(p) /\ UNCHANGED connections
          /\ pcb'[p].state = "SYN_SENT" /\ pcb'[p].arg = 0
      BY <1>8, ConnectEffect DEF Pcbs
    <2>2. pcb'[p].state \in RoutedStates => connections'[pcb'[p].arg].pcb = p
      BY <2>1 DEF RoutedStates, Synchronized
    <2>3. ASSUME NEW q \in Pcbs, q # p, pcb'[q].state \in RoutedStates
          PROVE  connections'[pcb'[q].arg].pcb = q
      BY <2>1, <2>3 DEF OnlyBlock, RoutedInv
    <2>. QED
      BY <2>2, <2>3 DEF RoutedInv, RoutedStates
  <1>9. ASSUME NEW id, recv(c, id) PROVE RoutedInv'
    <2>1. /\ id \in Sockets /\ OnlyEntry(id) /\ SameOwner(id)
          /\ \A q \in Pcbs : pcb'[q].state = pcb[q].state /\ pcb'[q].arg = pcb[q].arg
      BY <1>9, RecvEffect
    <2>2. \A i \in Sockets : connections'[i].pcb = connections[i].pcb
      BY <2>1 DEF OnlyEntry, SameOwner
    <2>. QED
      BY <2>1, <2>2, RoutedAfterQuiet
  <1>10. ASSUME NEW id, NEW data \in ClientData,
                set_connection_client_data(c, id, data)
         PROVE  RoutedInv'
    <2>1. OnlyEntry(id) /\ SameOwner(id) /\ UNCHANGED pcb
      BY <1>10, ClientDataEffect
    <2>2. \A i \in Sockets : connections'[i].pcb = connections[i].pcb
      BY <2>1 DEF OnlyEntry, SameOwner
    <2>. QED
      BY <2>1, <2>2, RoutedAfterQuiet
  <1>. QED
    BY <1>1, <1>2, <1>3, <1>4, <1>5, <1>6, <1>7, <1>8, <1>9, <1>10
    DEF ClientCall, OtherCall, socket_udp, socket_none, socket_tcp, recvfrom

\* So do the callbacks.
LEMMA RoutedCallback ==
    ASSUME ServerInv, RoutedInv, ErrorsHitOwners, Callback
    PROVE  RoutedInv'
  <1>0. /\ NULL \notin Pcbs /\ TcpPcbs \subseteq Pcbs
        /\ \A i \in Sockets : connections[i].pcb \in Pcbs \cup {NULL}
        /\ \A i \in Sockets : ~connections[i].is_active => connections[i].pcb = NULL
    BY PoolsAssumption DEF Pcbs, ServerInv, GoodEntries, Entries
  <1>1. ASSUME NEW l \in ListenPcbs, Syn(l) PROVE RoutedInv'
    <2>1. PICK p \in TcpPcbs : OnlyBlock(p) /\ pcb'[p].state = "SYN_RCVD"
      BY <1>1, SynEffect
    <2>2. UNCHANGED connections
      BY <1>1 DEF Syn
    <2>3. pcb'[p].state \notin RoutedStates
      BY <2>1 DEF RoutedStates, Synchronized
    <2>4. \A q \in Pcbs : pcb'[q].state \in RoutedStates =>
             pcb[q].state \in RoutedStates /\ pcb'[q].arg = pcb[q].arg
      BY <2>1, <2>3 DEF OnlyBlock
    <2>. QED
      BY <2>2, <2>4, RoutedAfterQuiet
  <1>2. ASSUME NEW p \in TcpPcbs,
               HalfOpenLost(p) \/ Connected(p) \/ RecvFin(p) \/ CloseDone(p)
        PROVE  RoutedInv'
    <2>1. /\ UNCHANGED connections /\ OnlyBlock(p)
          /\ \/ pcb'[p] = FreePcb
             \/ pcb'[p].state = "TIME_WAIT"
             \/ /\ pcb[p].state \in {"SYN_SENT", "ESTABLISHED"}
                /\ pcb'[p].state \in {"ESTABLISHED", "CLOSE_WAIT"}
                /\ pcb'[p].arg = pcb[p].arg
      BY <1>2, ProgressEffect DEF SameStream
    <2>2. pcb'[p].state \in RoutedStates =>
             pcb[p].state \in RoutedStates /\ pcb'[p].arg = pcb[p].arg
      BY <2>1, NewBlock DEF RoutedStates, Synchronized
    <2>3. \A q \in Pcbs : pcb'[q].state \in RoutedStates =>
             pcb[q].state \in RoutedStates /\ pcb'[q].arg = pcb[q].arg
      BY <2>1, <2>2 DEF OnlyBlock
    <2>. QED
      BY <2>1, <2>3, RoutedAfterQuiet
  <1>3. ASSUME NEW p \in TcpPcbs, Accept(p) PROVE RoutedInv'
    <2>1. PICK index \in Sockets :
             /\ OnlyEntry(index) /\ ~connections[index].is_active
             /\ \/ connections'[index].pcb = p /\ pcb'[p].arg = index
                \/ connections'[index].pcb = NULL /\ pcb'[p] = FreePcb
      BY <1>3, AcceptEffect DEF Released
    <2>2. OnlyBlock(p)
      BY <1>3, AcceptEffect
    <2>3. /\ \A i \in Sockets : i # index => connections'[i].pcb = connections[i].pcb
          /\ connections[index].pcb \notin Pcbs
      BY <1>0, <2>1 DEF OnlyEntry
    <2>4. CASE connections'[index].pcb = p /\ pcb'[p].arg = index
      BY <1>0, <2>2, <2>3, <2>4, RoutedAfterChange DEF OnlyBlock
    <2>5. CASE connections'[index].pcb = NULL /\ pcb'[p] = FreePcb
      <3>1. pcb'[p].state \notin RoutedStates
        BY <2>5, NewBlock DEF RoutedStates, Synchronized
      <3>2. \A q \in Pcbs : q # NULL /\ pcb'[q].state \in RoutedStates =>
               pcb[q].state \in RoutedStates /\ pcb'[q].arg = pcb[q].arg
        BY <2>2, <3>1 DEF OnlyBlock
      <3>. QED
        BY <1>0, <2>3, <2>5, <3>2, RoutedAfterChange
    <2>. QED
      BY <2>1, <2>4, <2>5
  <1>4. ASSUME NEW p \in TcpPcbs, NEW event \in ServerEvents,
               Err(p, event) \/ (event = "XTCP_ABORTED" /\ AcceptFails(p))
        PROVE  RoutedInv'
    <2>. DEFINE hit == pcb[p].arg
    <2>1. /\ "connect" \notin Env /\ "linger" \notin Env /\ pcb[p].state \in Eventful
          /\ hit \in Sockets /\ OnlyEntry(hit) /\ OnlyBlock(p)
          /\ connections'[hit].pcb = NULL /\ pcb'[p] = FreePcb
      BY <1>4, ErrEffect DEF Released, ErrorsHitOwners
    <2>2. connections[hit].pcb = p
      BY <1>0, <2>1 DEF RoutedInv, RoutedStates, Eventful
    <2>. HIDE DEF hit
    <2>3. \A j \in Sockets : j # hit => connections'[j].pcb = connections[j].pcb
      BY <2>1 DEF OnlyEntry
    <2>4. pcb'[p].state \notin RoutedStates
      BY <2>1, NewBlock DEF RoutedStates, Synchronized
    <2>5. \A q \in Pcbs : q # NULL /\ pcb'[q].state \in RoutedStates =>
             pcb[q].state \in RoutedStates /\ pcb'[q].arg = pcb[q].arg
      BY <2>1, <2>4 DEF OnlyBlock
    <2>. QED
      BY <1>0, <2>1, <2>2, <2>3, <2>4, <2>5, RoutedAfterChange
  <1>5. ASSUME NEW p \in TcpPcbs, RecvData(p) \/ RetryRefused(p) PROVE RoutedInv'
    <2>1. /\ OnlyEntry(pcb[p].arg) /\ SameOwner(pcb[p].arg) /\ OnlyBlock(p)
          /\ pcb'[p].state = pcb[p].state /\ pcb'[p].arg = pcb[p].arg
      BY <1>5, RecvDataEffect, RetryEffect
    <2>2. \A i \in Sockets : connections'[i].pcb = connections[i].pcb
      BY <2>1 DEF OnlyEntry, SameOwner
    <2>3. \A q \in Pcbs : pcb'[q].state = pcb[q].state /\ pcb'[q].arg = pcb[q].arg
      BY <2>1 DEF OnlyBlock
    <2>. QED
      BY <2>2, <2>3, RoutedAfterQuiet
  <1>6. ASSUME NEW p \in TcpPcbs, Sent(p) PROVE RoutedInv'
    <2>1. /\ UNCHANGED connections
          /\ \A q \in Pcbs : pcb'[q].state = pcb[q].state /\ pcb'[q].arg = pcb[q].arg
      BY <1>6, SendEffect DEF OnlyBlock, SameStream
    <2>. QED
      BY <2>1, RoutedAfterQuiet
  <1>7. ASSUME NEW p \in UdpPcbs, xtcp_udp_recv(p) PROVE RoutedInv'
    <2>1. OnlyEntry(pcb[p].arg) /\ SameOwner(pcb[p].arg) /\ UNCHANGED pcb
      BY <1>7, DatagramEffect
    <2>2. \A i \in Sockets : connections'[i].pcb = connections[i].pcb
      BY <2>1 DEF OnlyEntry, SameOwner
    <2>. QED
      BY <2>1, <2>2, RoutedAfterQuiet
  <1>8. {"XTCP_ABORTED", "XTCP_TIMED_OUT"} \subseteq ServerEvents
    BY DEF ServerEvents
  <1>. QED
    BY <1>1, <1>2, <1>3, <1>4, <1>5, <1>6, <1>7, <1>8 DEF Callback, TcpCallback

\* Events are routed to the entry that holds the block, unless errors can hit
\* another.
LEMMA RoutedAlways ==
    ASSUME ErrorsHitOwners
    PROVE  Spec => []RoutedInv
  <1>1. Init => RoutedInv
    <2>1. ASSUME Init PROVE \A p \in Pcbs : pcb[p].state = "FREE"
      BY <2>1, NewBlock DEF Init
    <2>. QED
      BY <2>1 DEF RoutedInv, RoutedStates, Synchronized
  <1>2. ServerInv /\ RoutedInv /\ [Next]_vars => RoutedInv'
    <2>. SUFFICES ASSUME ServerInv, RoutedInv, [Next]_vars PROVE RoutedInv'
      OBVIOUS
    <2>1. CASE Next
      BY <2>1, RoutedClient, RoutedCallback DEF Next
    <2>2. CASE UNCHANGED vars
      BY <2>2 DEF vars, RoutedInv, RoutedStates
    <2>. QED
      BY <2>1, <2>2
  <1>. QED
    BY <1>1, <1>2, ServerInvAlways, PTL DEF Spec

\* A block raises events only for the entry that holds it, when clients open
\* connections on socket 0 at most and lwIP keeps no block after close;
\* connections may still be reset, time out or be aborted for a new socket.
THEOREM EventsReachTheirEntry ==
    ASSUME Env \subseteq {"errors", "connect_0"}
    PROVE  Spec => []NoStrayEvents
  <1>1. ErrorsHitOwners
    BY DEF ErrorsHitOwners
  <1>2. RoutedInv => NoStrayEvents
    BY DEF RoutedInv, NoStrayEvents, RoutedStates, Eventful
  <1>. QED
    BY <1>1, <1>2, RoutedAlways, PTL

\* A listening socket keeps its entry, whatever becomes of the connections it
\* accepts, as long as every error hits the entry of its own connection.
THEOREM ListenersKeepTheirEntry ==
    ASSUME "overload" \notin Env,
           "errors" \in Env => "connect" \notin Env /\ "linger" \notin Env
    PROVE  Spec => []ListenerKeepsEntry
  <1>1. ErrorsHitOwners
    BY DEF ErrorsHitOwners
  <1>2. RoutedInv => ListenerKeepsEntry
    BY DEF RoutedInv, ListenerKeepsEntry, RoutedStates, Pcbs
  <1>. QED
    BY <1>1, <1>2, RoutedAlways, PTL

=============================================================================
