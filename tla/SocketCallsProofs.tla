------------------------- MODULE SocketCallsProofs -------------------------
(***************************************************************************)
(* Proofs about SocketCalls, for any number of clients, sockets, blocks,   *)
(* buffers and options.  A step of SocketCalls is a step of the server or  *)
(* leaves the server alone, so the server's invariants carry over; what is *)
(* added is where each transmit buffer is (TxInv) and which fields a block *)
(* has (OptInv).                                                           *)
(***************************************************************************)
EXTENDS SocketCalls, XtcpRoutingProofs

-----------------------------------------------------------------------------
(* The server inside.                                                      *)

\* A call in progress is a client's, on a socket it owns, with a buffer.
CallInv ==
    \/ call = NoCall
    \/ /\ call \in [pc : {"shim_send", "shim_sendto", "pbuf_free"},
                    client_num : Clients, id : Sockets, new_pbuf : TxPbufs]
       /\ Owns(call.client_num, call.id)

\* It stays so: between its steps nothing else runs.
LEMMA CallStep == CallInv /\ [CallsNext]_all_vars => CallInv'
  <1>. SUFFICES ASSUME CallInv, [CallsNext]_all_vars PROVE CallInv'
    OBVIOUS
  <1>1. ASSUME NEW c \in Clients, NEW id \in Sockets, Owns(c, id),
               NEW next \in {"shim_send", "shim_sendto"},
               pbuf_shim_alloc_tx(c, id, next)
        PROVE  CallInv'
    BY <1>1 DEF pbuf_shim_alloc_tx, CallInv, Owns, vars
  <1>2. CASE udp_send
    BY <1>2 DEF udp_send, CallInv, NoCall, Owns, vars
  <1>3. CASE tcp_write
    BY <1>3 DEF tcp_write, send_tcp, CallInv, NoCall, Owns, vars
  <1>4. CASE NoProtocol \/ pbuf_free
    BY <1>4 DEF NoProtocol, pbuf_free, CallInv
  <1>5. ASSUME call = NoCall, UNCHANGED call PROVE CallInv'
    BY <1>5 DEF CallInv
  <1>6. CASE UNCHANGED all_vars
    BY <1>6 DEF all_vars, calls_vars, vars, CallInv, Owns
  <1>. QED
    BY <1>1, <1>2, <1>3, <1>4, <1>5, <1>6
    DEF CallsNext, send, sendto, AddressResolved, setsockopt, ServerStep

\* tcp_write is the server's send_tcp; the other steps of a call do not touch the
\* server's state.
LEMMA CallsStep ==
    ASSUME CallInv, [CallsNext]_all_vars
    PROVE  [Next]_vars
  <1>1. ASSUME NEW c \in Clients, NEW id \in Sockets, send(c, id) \/ sendto(c, id)
        PROVE  UNCHANGED vars
    BY <1>1 DEF send, sendto, pbuf_shim_alloc_tx
  <1>2. ASSUME udp_send \/ NoProtocol \/ pbuf_free PROVE UNCHANGED vars
    BY <1>2 DEF udp_send, NoProtocol, pbuf_free
  <1>3. ASSUME tcp_write PROVE Next \/ UNCHANGED vars
    <2>1. call.client_num \in Clients /\ call.id \in Sockets
      BY <1>3 DEF tcp_write, CallInv, NoCall
    <2>2. send_tcp(call.client_num, call.id) \/ UNCHANGED vars
      BY <1>3 DEF tcp_write
    <2>. QED
      BY <2>1, <2>2 DEF Next, ClientCall
  <1>4. ASSUME NEW b \in TxPbufs, AddressResolved(b)
        PROVE  UNCHANGED vars
    BY <1>4 DEF AddressResolved
  <1>5. ASSUME NEW c, NEW id, NEW level, NEW option, NEW length, NEW value,
               setsockopt(c, id, level, option, length, value)
        PROVE  UNCHANGED vars
    BY <1>5 DEF setsockopt
  <1>6. ASSUME ServerStep PROVE Next
    BY <1>6 DEF ServerStep, Next, ClientCall
  <1>7. ASSUME UNCHANGED all_vars PROVE UNCHANGED vars
    BY <1>7 DEF all_vars
  <1>. QED
    BY <1>1, <1>2, <1>3, <1>4, <1>5, <1>6, <1>7 DEF CallsNext

\* SocketCalls implements the server.
LEMMA CallsSpecIsSpec == CallsSpec => Spec /\ []CallInv
  <1>1. CallsInit => Init /\ CallInv
    BY DEF CallsInit, CallInv
  <1>2. CallInv /\ [CallsNext]_all_vars => [Next]_vars
    BY CallsStep
  <1>. QED
    BY <1>1, <1>2, CallStep, PTL DEF CallsSpec, Spec

-----------------------------------------------------------------------------
(* Transmit buffers.                                                       *)

\* The references to a buffer, counted.  lwIP does not have the buffer yet that a
\* call is about to hand over, so it takes its reference for the first time.
TxInv ==
    /\ ref \in [TxPbufs -> Int]
    /\ TxBuffersHeld
    /\ XTCP_PROTOCOL_NONE \notin Protocols => TxBuffersReturned
    /\ call.pc \in {"shim_send", "shim_sendto"} => call.new_pbuf \notin kept

\* Each step of a call, and lwIP giving up what it keeps, accounts for the
\* reference it takes or gives up; a call on a socket without a protocol only
\* leaves a reference nobody holds.
LEMMA TxStep ==
    ASSUME ServerInv, CallInv, TxInv, [CallsNext]_all_vars
    PROVE  TxInv'
  <1>1. ASSUME UNCHANGED <<ref, kept, call>> PROVE TxInv'
    BY <1>1 DEF TxInv, TxBuffersHeld, TxBuffersReturned, Holders
  <1>2. ASSUME NEW c \in Clients, NEW id \in Sockets, send(c, id) \/ sendto(c, id)
        PROVE  TxInv'
    <2>1. PICK b \in TxPbufs :
             /\ call.pc = "idle" /\ ref[b] = 0 /\ ref' = [ref EXCEPT ![b] = 1]
             /\ call'.pc # "idle" /\ call'.new_pbuf = b /\ UNCHANGED kept
      BY <1>2 DEF send, sendto, pbuf_shim_alloc_tx, NoCall
    <2>. QED
      BY <2>1 DEF TxInv, TxBuffersHeld, TxBuffersReturned, Holders
  <1>3. CASE udp_send
    <2>1. /\ call.pc # "idle" /\ call'.pc = "pbuf_free"
          /\ call.new_pbuf \in TxPbufs /\ call.new_pbuf \notin kept
          /\ call'.new_pbuf = call.new_pbuf
      BY <1>3 DEF udp_send, CallInv, NoCall, TxInv
    <2>2. CASE UNCHANGED <<ref, kept>>
      BY <2>1, <2>2 DEF TxInv, TxBuffersHeld, TxBuffersReturned, Holders
    <2>3. CASE /\ ref' = [ref EXCEPT ![call.new_pbuf] = @ + 1]
               /\ kept' = kept \cup {call.new_pbuf}
      BY <2>1, <2>3 DEF TxInv, TxBuffersHeld, TxBuffersReturned, Holders
    <2>. QED
      BY <1>3, <2>2, <2>3 DEF udp_send
  <1>4. CASE tcp_write
    <2>1. /\ call.pc # "idle" /\ call'.pc = "pbuf_free"
          /\ call'.new_pbuf = call.new_pbuf
          /\ UNCHANGED <<ref, kept>>
      BY <1>4 DEF tcp_write, CallInv, NoCall
    <2>. QED
      BY <2>1 DEF TxInv, TxBuffersHeld, TxBuffersReturned, Holders
  <1>5. CASE NoProtocol
    <2>1. call.client_num \in Clients /\ Owns(call.client_num, call.id)
      BY <1>5 DEF NoProtocol, CallInv, NoCall
    <2>2. XTCP_PROTOCOL_NONE \in Protocols
      BY <1>5, <2>1, OwnedEntry DEF NoProtocol, GoodEntries
    <2>3. call'.pc = "idle" /\ UNCHANGED <<ref, kept>>
      BY <1>5 DEF NoProtocol, NoCall
    <2>. QED
      BY <2>2, <2>3 DEF TxInv, TxBuffersHeld, Holders
  <1>6. CASE pbuf_free
    <2>1. /\ call.pc # "idle" /\ call'.pc = "idle" /\ call.new_pbuf \in TxPbufs
          /\ ref' = [ref EXCEPT ![call.new_pbuf] = @ - 1] /\ UNCHANGED kept
      BY <1>6 DEF pbuf_free, CallInv, NoCall
    <2>. QED
      BY <2>1 DEF TxInv, TxBuffersHeld, TxBuffersReturned, Holders
  <1>7. ASSUME NEW b \in TxPbufs, AddressResolved(b) PROVE TxInv'
    BY <1>7 DEF AddressResolved, TxInv, TxBuffersHeld, TxBuffersReturned, Holders, NoCall
  <1>8. ASSUME NEW c, NEW id, NEW level, NEW option, NEW length, NEW value,
               setsockopt(c, id, level, option, length, value)
        PROVE  TxInv'
    BY <1>1, <1>8 DEF setsockopt
  <1>9. ASSUME ServerStep \/ UNCHANGED all_vars PROVE TxInv'
    BY <1>1, <1>9 DEF ServerStep, all_vars, calls_vars
  <1>. QED
    BY <1>2, <1>3, <1>4, <1>5, <1>6, <1>7, <1>8, <1>9 DEF CallsNext

\* The invariant of the transmit buffers.
LEMMA TxInvAlways == CallsSpec => []TxInv
  <1>1. CallsInit => TxInv
    BY DEF CallsInit, TxInv, TxBuffersHeld, TxBuffersReturned, Holders, NoCall
  <1>2. ServerInv /\ CallInv /\ TxInv /\ [CallsNext]_all_vars => TxInv'
    BY TxStep
  <1>. QED
    BY <1>1, <1>2, CallsSpecIsSpec, ServerInvAlways, PTL DEF CallsSpec

\* Whatever becomes of sockets and datagrams, the reference pbuf_shim_alloc_tx
\* took is there while shim_send or shim_sendto works with the buffer, beside any
\* reference lwIP has taken, for every number of buffers and sockets of any kind.
THEOREM TransmitBuffersHeld == CallsSpec => []TxBuffersHeld
  <1>1. TxInv => TxBuffersHeld
    BY DEF TxInv
  <1>. QED
    BY <1>1, TxInvAlways, PTL

\* That reference is given up before the call returns.  The assumption is needed:
\* shim_send and shim_sendto have no branch for a socket without a protocol.
THEOREM TransmitBuffersReturn ==
    ASSUME XTCP_PROTOCOL_NONE \notin Protocols
    PROVE  CallsSpec => []TxBuffersReturned
  <1>1. TxInv => TxBuffersReturned
    BY DEF TxInv
  <1>. QED
    BY <1>1, TxInvAlways, PTL

-----------------------------------------------------------------------------
(* Socket options.                                                         *)

\* The fields of an entry's block are what its owner has set, apart from the flag
\* that cannot be cleared, and a connection still to be accepted has the
\* defaults that its owner will expect.
OptInv ==
    /\ DOMAIN opt = Pcbs /\ opt = [p \in Pcbs |-> opt[p]]
    /\ want \in [Sockets -> [Options -> Nat]]
    /\ \A i \in Sockets, p \in Pcbs : connections[i].pcb = p =>
          /\ opt[p] \in [Options -> Nat]
          /\ \A o \in Options \ {MULTICAST_LOOP} : opt[p][o] = want[i][o]
    /\ \A p \in Pcbs : pcb[p].state = "SYN_RCVD" => opt[p] = DefaultOptions

\* How entry i comes by block p in a step: it has had it and the block was not
\* allocated anew, it has been assigned, or it has traded its block for p.
KeepsBlock(i, p) ==
    /\ connections[i].pcb = p
    /\ pcb'[p].state = "CLOSED" => pcb[p].state = "CLOSED"
GetsBlock(i, p) ==
    /\ ~connections[i].is_active
    /\ pcb'[p].state # "LISTEN"
    /\ \/ pcb[p].state \in {"SYN_RCVD", "FREE"}
       \/ pcb[p].state # "CLOSED" /\ pcb'[p].state = "CLOSED"
TradesBlock(i, p) ==
    /\ pcb[p].state = "FREE" /\ pcb'[p].state = "LISTEN"
    /\ connections[i].pcb \in TcpPcbs
    /\ \A q \in TcpPcbs : pcb[q].state = "CLOSED" /\ pcb'[q].state = "FREE"
                             <=> q = connections[i].pcb

BlocksChangeHands ==
    /\ \A i \in Sockets, p \in Pcbs : connections'[i].pcb = p =>
          KeepsBlock(i, p) \/ GetsBlock(i, p) \/ TradesBlock(i, p)
    /\ \A p \in Pcbs :
          pcb'[p].state = "SYN_RCVD" => pcb[p].state \in {"SYN_RCVD", "FREE"}

\* No entry changes hands and no block is allocated.
LEMMA HandsQuiet ==
    ASSUME \A i \in Sockets : connections'[i].pcb \in {connections[i].pcb, NULL},
           \A p \in Pcbs : pcb'[p].state \in {"CLOSED", "SYN_RCVD"} =>
                              pcb'[p].state = pcb[p].state
    PROVE  BlocksChangeHands
  <1>1. NULL \notin Pcbs
    BY PoolsAssumption DEF Pcbs
  <1>. QED
    BY <1>1 DEF BlocksChangeHands, KeepsBlock

\* Clients' calls give an entry a block in one of the three ways.
LEMMA HandsClient ==
    ASSUME ServerInv, HeldInv, NEW c \in Clients, ClientCall(c),
           "connect" \notin Env \/ "errors" \notin Env
    PROVE  BlocksChangeHands
  <1>0. NULL \notin Pcbs /\ TcpPcbs \subseteq Pcbs /\ UdpPcbs \subseteq Pcbs
        /\ \A i \in Sockets : connections[i].pcb \in Pcbs \cup {NULL}
    BY PoolsAssumption DEF Pcbs, ServerInv, GoodEntries, Entries
  <1>1. CASE get_event(c)
    BY <1>1, HandsQuiet DEF get_event
  <1>2. ASSUME NEW id, close(c, id) PROVE BlocksChangeHands
    <2>1. /\ OnlyEntry(id) /\ connections'[id].pcb = NULL
          /\ \A q \in Pcbs : \/ pcb'[q] = pcb[q] \/ pcb'[q] = FreePcb
                             \/ pcb'[q].state = "CLOSING"
      BY <1>2, CloseEffect DEF Released
    <2>2. \A i \in Sockets : connections'[i].pcb \in {connections[i].pcb, NULL}
      BY <2>1 DEF OnlyEntry
    <2>. QED
      BY <2>1, <2>2, HandsQuiet, NewBlock
  <1>3. ASSUME NEW id \in Sockets, send_tcp(c, id) PROVE BlocksChangeHands
    <2>1. /\ UNCHANGED connections
          /\ \A q \in Pcbs : pcb'[q].state = pcb[q].state
      BY <1>3, SendEffect DEF OnlyBlock
    <2>. QED
      BY <2>1, HandsQuiet
  <1>4. ASSUME NEW protocol, NEW pool, NEW state,
           \/ protocol = XTCP_PROTOCOL_UDP /\ pool = UdpPcbs /\ state = "UDP"
           \/ protocol = XTCP_PROTOCOL_TCP /\ pool = TcpPcbs /\ state = "CLOSED"
           \/ protocol = XTCP_PROTOCOL_NONE /\ pool = {},
           NewSocket(c, protocol, pool, state)
        PROVE  BlocksChangeHands
    <2>1. PICK index \in Sockets :
             /\ OnlyEntry(index) /\ ~connections[index].is_active
             /\ \/ \E p \in pool : /\ pcb[p].state = "FREE"
                                   /\ connections'[index].pcb = p
                                   /\ OnlyBlock(p)
                                   /\ pcb'[p] = NewPcb(state)
                \/ connections'[index].pcb = NULL /\ UNCHANGED pcb
      BY <1>4, NewSocketEffect DEF AssignedTo
    <2>2. CASE connections'[index].pcb = NULL /\ UNCHANGED pcb
      BY <2>1, <2>2, HandsQuiet DEF OnlyEntry
    <2>3. ASSUME NEW p \in pool, pcb[p].state = "FREE", connections'[index].pcb = p,
                 OnlyBlock(p), pcb'[p] = NewPcb(state)
          PROVE  BlocksChangeHands
      <3>1. p \in Pcbs /\ pcb'[p].state \in {"CLOSED", "UDP"}
        BY <1>0, <1>4, <2>3, NewBlock
      <3>2. \A i \in Sockets : connections[i].pcb # p
        BY <2>3, <3>1, NotHeld DEF Unheld
      <3>3. \A i \in Sockets : i # index => connections'[i].pcb = connections[i].pcb
        BY <2>1 DEF OnlyEntry
      <3>4. GetsBlock(index, p)
        BY <2>1, <2>3, <3>1 DEF GetsBlock
      <3>5. \A q \in Pcbs : q # p => pcb'[q] = pcb[q]
        BY <2>3 DEF OnlyBlock
      <3>6. \A i \in Sockets, q \in Pcbs : connections'[i].pcb = q =>
               (i = index /\ q = p) \/ KeepsBlock(i, q)
        BY <2>3, <3>2, <3>3, <3>5 DEF KeepsBlock
      <3>. QED
        BY <3>1, <3>4, <3>5, <3>6 DEF BlocksChangeHands
    <2>. QED
      BY <2>1, <2>2, <2>3
  <1>5. CASE socket_tcp_kill(c)
    <2>1. "connect" \notin Env
      BY <1>5 DEF socket_tcp_kill
    <2>2. PICK v \in Victims, index \in Sockets :
             /\ ~connections[index].is_active
             /\ \A j \in Sockets : j \notin {index, pcb[v].arg} =>
                   connections'[j] = connections[j]
             /\ OnlyBlock(v)
             /\ \/ /\ OnlyEntry(index) /\ pcb[v].state = "TIME_WAIT"
                   /\ connections'[index].pcb = v
                   /\ pcb'[v] = NewPcb("CLOSED")
                \/ /\ connections'[index].pcb = v
                   /\ pcb'[v] = NewPcb("CLOSED")
                   /\ connections'[pcb[v].arg].pcb = NULL
                \/ /\ pcb[v].arg = index
                   /\ pcb'[v] = FreePcb
                   /\ connections'[index].pcb = NULL
      BY <1>5, KillEffect DEF Released
    <2>3. v \in Pcbs /\ pcb[v].state \in Eventful \cup {"TIME_WAIT"}
          /\ pcb[v].state # "CLOSED"
      BY DEF Victims, Pcbs, Eventful, Synchronized
    <2>4. \A q \in Pcbs : q # v => pcb'[q] = pcb[q]
      BY <2>2 DEF OnlyBlock
    <2>5. CASE pcb[v].arg = index /\ pcb'[v] = FreePcb
               /\ connections'[index].pcb = NULL
      <3>1. \A i \in Sockets : connections'[i].pcb \in {connections[i].pcb, NULL}
        BY <2>2, <2>5
      <3>2. \A q \in Pcbs : pcb'[q].state \in {"CLOSED", "SYN_RCVD"} =>
               pcb'[q].state = pcb[q].state
        BY <2>4, <2>5, NewBlock
      <3>. QED
        BY <3>1, <3>2, HandsQuiet
    <2>6. CASE /\ connections'[index].pcb = v /\ pcb'[v] = NewPcb("CLOSED")
               /\ \A i \in Sockets \ {index} :
                     /\ connections'[i].pcb \in {connections[i].pcb, NULL}
                     /\ connections[i].pcb = v => connections'[i].pcb = NULL
      <3>1. pcb'[v].state = "CLOSED"
        BY <2>6, NewBlock
      <3>2. GetsBlock(index, v)
        BY <2>2, <2>3, <3>1 DEF GetsBlock
      <3>3. \A i \in Sockets, q \in Pcbs : connections'[i].pcb = q =>
               (i = index /\ q = v) \/ KeepsBlock(i, q)
        BY <1>0, <2>4, <2>6 DEF KeepsBlock
      <3>. QED
        BY <2>4, <3>1, <3>2, <3>3 DEF BlocksChangeHands
    <2>7. \A i \in Sockets : connections[i].pcb = v =>
             i = pcb[v].arg /\ pcb[v].state # "TIME_WAIT"
      BY <1>0, <2>1, <2>3, ErrorHitsHolder, NotHeld DEF Unheld
    <2>. QED
      BY <2>2, <2>5, <2>6, <2>7 DEF OnlyEntry
  <1>6. ASSUME NEW id, listen_tcp(c, id) PROVE BlocksChangeHands
    <2>. DEFINE p == connections[id].pcb
    <2>1. PICK l \in ListenPcbs :
                /\ pcb[l].state = "FREE" /\ OnlyEntry(id) /\ connections'[id].pcb = l
                /\ \A q \in Pcbs : q \notin {p, l} => pcb'[q] = pcb[q]
                /\ pcb'[l].state = "LISTEN" /\ pcb'[p] = FreePcb
      BY <1>6, ListenEffect
    <2>2. id \in Sockets /\ p \in TcpPcbs /\ pcb[p].state = "CLOSED"
      BY <1>6, ListenEffect
    <2>3. l \in Pcbs /\ p # NULL /\ p \in Pcbs /\ l \notin TcpPcbs
          /\ pcb'[p].state = "FREE"
      BY <1>0, <2>1, <2>2, NewBlock, PoolsAssumption DEF Pcbs
    <2>4. \A i \in Sockets : connections[i].pcb # l
      BY <2>1, <2>3, NotHeld DEF Unheld
    <2>5. \A i \in Sockets \ {id} : connections'[i].pcb = connections[i].pcb
      BY <2>1 DEF OnlyEntry
    <2>6. \A i \in Sockets \ {id} : connections[i].pcb # p
      BY <2>2, <2>3 DEF HeldInv, HeldOnce
    <2>7. TradesBlock(id, l)
      BY <1>0, <2>1, <2>2, <2>3 DEF TradesBlock
    <2>. HIDE DEF p
    <2>8. \A i \in Sockets, q \in Pcbs : connections'[i].pcb = q =>
             (i = id /\ q = l) \/ KeepsBlock(i, q)
      BY <2>1, <2>4, <2>5, <2>6 DEF KeepsBlock
    <2>9. \A q \in Pcbs : pcb'[q].state = "SYN_RCVD" => pcb[q].state = "SYN_RCVD"
      BY <2>1, <2>3
    <2>. QED
      BY <2>7, <2>8, <2>9 DEF BlocksChangeHands
  <1>7. ASSUME NEW id, listen_udp(c, id) \/ connect_udp(c, id)
        PROVE  BlocksChangeHands
    <2>. DEFINE p == connections[id].pcb
    <2>1. PICK state \in {"UDP_BOUND", "UDP_CONNECTED"} : open_udp(c, id, state)
      BY <1>7 DEF listen_udp, connect_udp
    <2>2. /\ UNCHANGED connections /\ OnlyBlock(p)
          /\ pcb'[p].state \in {"UDP_BOUND", "UDP_CONNECTED"}
      BY <2>1, OpenUdpEffect
    <2>. QED
      BY <2>2, HandsQuiet DEF OnlyBlock
  <1>8. ASSUME NEW id, connect_tcp(c, id) PROVE BlocksChangeHands
    <2>. DEFINE p == connections[id].pcb
    <2>1. UNCHANGED connections /\ OnlyBlock(p) /\ pcb'[p].state = "SYN_SENT"
      BY <1>8, ConnectEffect
    <2>. QED
      BY <2>1, HandsQuiet DEF OnlyBlock
  <1>9. ASSUME NEW id, recv(c, id) PROVE BlocksChangeHands
    <2>1. /\ OnlyEntry(id) /\ SameOwner(id)
          /\ \A q \in Pcbs : pcb'[q].state = pcb[q].state
      BY <1>9, RecvEffect
    <2>. QED
      BY <2>1, HandsQuiet DEF OnlyEntry, SameOwner
  <1>10. ASSUME NEW id, NEW data \in ClientData,
                set_connection_client_data(c, id, data)
         PROVE  BlocksChangeHands
    <2>1. OnlyEntry(id) /\ SameOwner(id) /\ UNCHANGED pcb
      BY <1>10, ClientDataEffect
    <2>. QED
      BY <2>1, HandsQuiet DEF OnlyEntry, SameOwner
  <1>. QED
    BY <1>1, <1>2, <1>3, <1>4, <1>5, <1>6, <1>7, <1>8, <1>9, <1>10
    DEF ClientCall, OtherCall, socket_udp, socket_none, socket_tcp, recvfrom

\* So do the callbacks.
LEMMA HandsCallback ==
    ASSUME ServerInv, HeldInv, Callback
    PROVE  BlocksChangeHands
  <1>0. NULL \notin Pcbs /\ TcpPcbs \subseteq Pcbs
        /\ \A i \in Sockets : connections[i].pcb \in Pcbs \cup {NULL}
    BY PoolsAssumption DEF Pcbs, ServerInv, GoodEntries, Entries
  <1>1. ASSUME NEW l \in ListenPcbs, Syn(l) PROVE BlocksChangeHands
    <2>1. PICK p \in TcpPcbs : /\ pcb[p].state = "FREE" /\ OnlyBlock(p)
                               /\ pcb'[p].state = "SYN_RCVD"
      BY <1>1, SynEffect
    <2>2. UNCHANGED connections
      BY <1>1, SynEffect
    <2>3. \A q \in Pcbs : q # p => pcb'[q] = pcb[q]
      BY <2>1 DEF OnlyBlock
    <2>. QED
      BY <1>0, <2>1, <2>2, <2>3 DEF BlocksChangeHands, KeepsBlock
  <1>2. ASSUME NEW p \in TcpPcbs,
               HalfOpenLost(p) \/ Connected(p) \/ RecvFin(p) \/ CloseDone(p)
        PROVE  BlocksChangeHands
    <2>1. /\ UNCHANGED connections /\ OnlyBlock(p)
          /\ \/ pcb'[p] = FreePcb
             \/ pcb'[p].state \in {"ESTABLISHED", "CLOSE_WAIT", "TIME_WAIT"}
      BY <1>2, ProgressEffect
    <2>. QED
      BY <2>1, NewBlock, HandsQuiet DEF OnlyBlock
  <1>3. ASSUME NEW p \in TcpPcbs, Accept(p) PROVE BlocksChangeHands
    <2>1. PICK index \in Sockets :
             /\ OnlyEntry(index) /\ ~connections[index].is_active
             /\ \/ connections'[index].pcb = p /\ pcb'[p].state = "ESTABLISHED"
                \/ connections'[index].pcb = NULL /\ pcb'[p] = FreePcb
      BY <1>3, AcceptEffect DEF Released
    <2>2. pcb[p].state = "SYN_RCVD" /\ OnlyBlock(p)
      BY <1>3, AcceptEffect
    <2>3. \A q \in Pcbs : q # p => pcb'[q] = pcb[q]
      BY <2>2 DEF OnlyBlock
    <2>4. \A i \in Sockets \ {index} : connections'[i].pcb = connections[i].pcb
      BY <2>1 DEF OnlyEntry
    <2>5. CASE connections'[index].pcb = NULL /\ pcb'[p] = FreePcb
      BY <2>3, <2>4, <2>5, NewBlock, HandsQuiet
    <2>6. CASE connections'[index].pcb = p /\ pcb'[p].state = "ESTABLISHED"
      <3>1. GetsBlock(index, p)
        BY <2>1, <2>2, <2>6 DEF GetsBlock
      <3>2. \A i \in Sockets, q \in Pcbs : connections'[i].pcb = q =>
               (i = index /\ q = p) \/ KeepsBlock(i, q)
        BY <2>3, <2>4, <2>6 DEF KeepsBlock
      <3>. QED
        BY <2>3, <2>6, <3>1, <3>2 DEF BlocksChangeHands
    <2>. QED
      BY <2>1, <2>5, <2>6
  <1>4. ASSUME NEW p \in TcpPcbs, NEW event \in ServerEvents,
               Err(p, event) \/ (event = "XTCP_ABORTED" /\ AcceptFails(p))
        PROVE  BlocksChangeHands
    <2>. DEFINE hit == pcb[p].arg
    <2>1. /\ hit \in Sockets /\ OnlyEntry(hit) /\ OnlyBlock(p)
          /\ connections'[hit].pcb = NULL /\ pcb'[p] = FreePcb
      BY <1>4, ErrEffect DEF Released
    <2>. QED
      BY <2>1, NewBlock, HandsQuiet DEF OnlyEntry, OnlyBlock
  <1>5. ASSUME NEW p \in TcpPcbs, RecvData(p) \/ RetryRefused(p)
        PROVE  BlocksChangeHands
    <2>1. /\ OnlyEntry(pcb[p].arg) /\ SameOwner(pcb[p].arg) /\ OnlyBlock(p)
          /\ pcb'[p].state = pcb[p].state
      BY <1>5, RecvDataEffect, RetryEffect
    <2>. QED
      BY <2>1, HandsQuiet DEF OnlyEntry, SameOwner, OnlyBlock
  <1>6. ASSUME NEW p \in TcpPcbs, Sent(p) PROVE BlocksChangeHands
    <2>1. UNCHANGED connections /\ OnlyBlock(p) /\ pcb'[p].state = pcb[p].state
      BY <1>6, SendEffect
    <2>. QED
      BY <2>1, HandsQuiet DEF OnlyBlock
  <1>7. ASSUME NEW p \in UdpPcbs, xtcp_udp_recv(p) PROVE BlocksChangeHands
    <2>1. OnlyEntry(pcb[p].arg) /\ SameOwner(pcb[p].arg) /\ UNCHANGED pcb
      BY <1>7, DatagramEffect
    <2>. QED
      BY <2>1, HandsQuiet DEF OnlyEntry, SameOwner
  <1>8. {"XTCP_ABORTED", "XTCP_TIMED_OUT"} \subseteq ServerEvents
    BY DEF ServerEvents
  <1>. QED
    BY <1>1, <1>2, <1>3, <1>4, <1>5, <1>6, <1>7, <1>8 DEF Callback, TcpCallback

\* The server's steps keep the fields with the blocks, and what the owners want
\* with the entries.
LEMMA OptServer ==
    ASSUME ServerInv, ServerInv', HeldInv, HeldInv', OptInv, BlocksChangeHands,
           opt' = [p \in Pcbs |-> BlockOptions(p)],
           want' = [i \in Sockets |->
                      IF connections[i].is_active /\ connections'[i].is_active
                      THEN want[i] ELSE DefaultOptions]
    PROVE  OptInv'
  <1>1. DefaultOptions \in [Options -> Nat]
    BY DEF DefaultOptions
  <1>2. DOMAIN opt' = Pcbs /\ opt' = [p \in Pcbs |-> opt'[p]]
        /\ \A p \in Pcbs : opt'[p] = BlockOptions(p)
    OBVIOUS
  <1>3. want' \in [Sockets -> [Options -> Nat]]
    BY <1>1 DEF OptInv
  <1>4. NULL \notin Pcbs
    BY PoolsAssumption DEF Pcbs
  <1>5. ASSUME NEW i \in Sockets, NEW p \in Pcbs, connections'[i].pcb = p
        PROVE  /\ opt'[p] \in [Options -> Nat]
               /\ \A o \in Options \ {MULTICAST_LOOP} : opt'[p][o] = want'[i][o]
    <2>1. connections'[i].is_active /\ pcb'[p].state # "FREE"
      BY <1>4, <1>5 DEF ServerInv, GoodEntries, HeldInv, HeldWell, Unheld
    <2>2. want'[i] = IF connections[i].is_active THEN want[i] ELSE DefaultOptions
      BY <2>1
    <2>3. CASE KeepsBlock(i, p)
      <3>1. connections[i].is_active /\ pcb[p].state # "FREE"
        BY <1>4, <2>3 DEF KeepsBlock, ServerInv, GoodEntries, HeldInv, HeldWell, Unheld
      <3>2. opt'[p] = opt[p]
        BY <1>2, <2>1, <2>3, <3>1 DEF KeepsBlock, BlockOptions, SameBlock
      <3>. QED
        BY <2>2, <2>3, <3>1, <3>2 DEF KeepsBlock, OptInv
    <2>4. CASE GetsBlock(i, p)
      <3>1. opt'[p] = DefaultOptions
        BY <1>2, <2>1, <2>4 DEF GetsBlock, BlockOptions, SameBlock, OptInv
      <3>. QED
        BY <1>1, <2>2, <2>4, <3>1 DEF GetsBlock
    <2>5. CASE TradesBlock(i, p)
      <3>1. (CHOOSE q \in TcpPcbs : pcb[q].state = "CLOSED" /\ pcb'[q].state = "FREE")
               = connections[i].pcb
        BY <2>5 DEF TradesBlock
      <3>2. opt'[p] = opt[connections[i].pcb]
        BY <1>2, <2>5, <3>1 DEF TradesBlock, BlockOptions, SameBlock
      <3>3. connections[i].is_active /\ connections[i].pcb \in Pcbs
        BY <1>4, <2>5 DEF TradesBlock, Pcbs, ServerInv, GoodEntries
      <3>. QED
        BY <2>2, <3>2, <3>3 DEF OptInv
    <2>. QED
      BY <1>5, <2>3, <2>4, <2>5 DEF BlocksChangeHands
  <1>6. ASSUME NEW p \in Pcbs, pcb'[p].state = "SYN_RCVD"
        PROVE  opt'[p] = DefaultOptions
    <2>1. pcb[p].state \in {"SYN_RCVD", "FREE"}
      BY <1>6 DEF BlocksChangeHands
    <2>. QED
      BY <1>2, <1>6, <2>1 DEF BlockOptions, SameBlock, OptInv
  <1>. QED
    BY <1>2, <1>3, <1>5, <1>6 DEF OptInv

\* setsockopt writes the field of the socket's own block and of no other.
LEMMA OptSet ==
    ASSUME ServerInv, HeldInv, OptInv, NEW c \in Clients, NEW id \in Sockets,
           NEW level, NEW option \in Options, NEW length, NEW value \in OptionValues,
           setsockopt(c, id, level, option, length, value)
    PROVE  OptInv'
  <1>. DEFINE p == connections[id].pcb
              v == IF option = MULTICAST_LOOP THEN 1 ELSE value
  <1>1. p \in Pcbs /\ pcb[p].state # "SYN_RCVD"
    BY DEF setsockopt, Pcbs, ServerInv, GoodEntries, Entries, HeldInv, HeldWell, Unheld
  <1>2. v \in Nat /\ value \in Nat
    BY OptionsAssumption
  <1>3. /\ opt' = [opt EXCEPT ![p] = [opt[p] EXCEPT ![option] = v]]
        /\ want' = IF option = MULTICAST_LOOP THEN want
                   ELSE [want EXCEPT ![id] = [want[id] EXCEPT ![option] = value]]
        /\ UNCHANGED <<connections, pcb>>
    BY <1>1 DEF setsockopt, Written, OptInv, vars
  <1>4. \A i \in Sockets : i # id => connections[i].pcb # p
    BY <1>1, PoolsAssumption DEF HeldInv, HeldOnce, Pcbs
  <1>5. /\ DOMAIN opt' = Pcbs /\ opt' = [q \in Pcbs |-> opt'[q]]
        /\ opt'[p] = [opt[p] EXCEPT ![option] = v]
        /\ \A q \in Pcbs : q # p => opt'[q] = opt[q]
    BY <1>1, <1>3 DEF OptInv
  <1>6. want' \in [Sockets -> [Options -> Nat]]
        /\ \A i \in Sockets : i # id => want'[i] = want[i]
    BY <1>2, <1>3 DEF OptInv
  <1>7. /\ opt'[p] \in [Options -> Nat]
        /\ \A o \in Options \ {MULTICAST_LOOP} : opt'[p][o] = want'[id][o]
    <2>1. /\ opt[p] \in [Options -> Nat] /\ want[id] \in [Options -> Nat]
          /\ \A o \in Options \ {MULTICAST_LOOP} : opt[p][o] = want[id][o]
      BY <1>1 DEF OptInv
    <2>2. want'[id] = IF option = MULTICAST_LOOP THEN want[id]
                      ELSE [want[id] EXCEPT ![option] = value]
      BY <1>3 DEF OptInv
    <2>. QED
      BY <1>2, <1>5, <2>1, <2>2
  <1>. HIDE DEF p
  <1>. QED
    BY <1>1, <1>3, <1>4, <1>5, <1>6, <1>7 DEF OptInv, p

\* OptInv is kept.
LEMMA OptStep ==
    ASSUME ServerInv, ServerInv', HeldInv, HeldInv', CallInv, OptInv,
           [CallsNext]_all_vars,
           "connect" \notin Env \/ "errors" \notin Env
    PROVE  OptInv'
  <1>1. ASSUME UNCHANGED <<connections, opt, want>>,
               \A p \in Pcbs : pcb'[p].state = pcb[p].state
        PROVE  OptInv'
    BY <1>1 DEF OptInv
  <1>2. ASSUME tcp_write PROVE OptInv'
    <2>1. /\ UNCHANGED <<opt, want>>
          /\ send_tcp(call.client_num, call.id) \/ UNCHANGED vars
          /\ call.client_num \in Clients /\ call.id \in Sockets
      BY <1>2 DEF tcp_write, CallInv, NoCall
    <2>2. CASE send_tcp(call.client_num, call.id)
      BY <1>1, <2>1, <2>2, SendEffect DEF OnlyBlock
    <2>3. CASE UNCHANGED vars
      BY <1>1, <2>1, <2>3 DEF vars
    <2>. QED
      BY <2>1, <2>2, <2>3
  <1>3. ASSUME UNCHANGED <<vars, opt, want>> PROVE OptInv'
    BY <1>1, <1>3 DEF vars
  <1>4. ASSUME NEW b \in TxPbufs, AddressResolved(b) PROVE OptInv'
    BY <1>1, <1>4 DEF AddressResolved, vars
  <1>5. ASSUME ServerStep PROVE OptInv'
    <2>1. BlocksChangeHands
      BY <1>5, HandsClient, HandsCallback DEF ServerStep, ClientCall
    <2>. QED
      BY <1>5, <2>1, OptServer DEF ServerStep
  <1>6. ASSUME UNCHANGED all_vars PROVE OptInv'
    BY <1>1, <1>6 DEF all_vars, calls_vars, vars
  <1>. QED
    BY <1>2, <1>3, <1>4, <1>5, <1>6, OptSet
    DEF CallsNext, send, sendto, pbuf_shim_alloc_tx, udp_send, NoProtocol, pbuf_free

\* getsockopt returns what the present owner of the socket has set, whatever was
\* set on the id, on the block or by other owners before.  The assumption is that
\* of NoEntryDangles: an entry whose block has been taken back would read the
\* fields of the connection that has it now.
THEOREM OptionsAreReadBack ==
    ASSUME "connect" \notin Env \/ "errors" \notin Env
    PROVE  CallsSpec => []OptionsReadBack
  <1>1. ASSUME CallsInit PROVE OptInv
    <2>1. DefaultOptions \in [Options -> Nat]
      BY DEF DefaultOptions
    <2>2. /\ opt = [p \in Pcbs |-> DefaultOptions]
          /\ want = [i \in Sockets |-> DefaultOptions]
      BY <1>1 DEF CallsInit
    <2>. HIDE DEF DefaultOptions
    <2>. QED
      BY <2>1, <2>2 DEF OptInv
  <1>2. ServerInv /\ ServerInv' /\ HeldInv /\ HeldInv' /\ CallInv /\ OptInv
           /\ [CallsNext]_all_vars => OptInv'
    BY OptStep
  <1>3. ASSUME ServerInv, OptInv PROVE OptionsReadBack
    <2>1. SUFFICES ASSUME NEW c \in Clients, NEW id \in Sockets,
                          NEW option \in Options \ {MULTICAST_LOOP},
                          connections[id].pcb # NULL
                   PROVE  opt[connections[id].pcb][option] = want[id][option]
      BY DEF OptionsReadBack, getsockopt
    <2>2. connections[id].pcb \in Pcbs
      BY <1>3, <2>1 DEF ServerInv, GoodEntries, Entries
    <2>. QED
      BY <1>3, <2>1, <2>2 DEF OptInv
  <1>. QED
    BY <1>1, <1>2, <1>3, CallsSpecIsSpec, ServerInvAlways, HeldAlways, PTL
    DEF CallsSpec

=============================================================================
