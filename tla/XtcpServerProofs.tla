-------------------------- MODULE XtcpServerProofs --------------------------
(***************************************************************************)
(* Proofs about XtcpServer, for any number of clients, sockets, control    *)
(* blocks and buffers and any surroundings: the types hold, an inactive    *)
(* entry is clean, and an entry in use keeps its owner.                    *)
(*                                                                         *)
(* The inductive invariant, ServerInv, adds to the types what lwIP's pools *)
(* and the table's operations guarantee of every entry and every block.    *)
(* One lemma for each operation (NewSocketEffect, CloseEffect, ...) says   *)
(* what it changes; the proofs of the other invariants use these lemmas    *)
(* rather than the definitions.                                            *)
(***************************************************************************)
EXTENDS XtcpServer, EventQueueLemmas

-----------------------------------------------------------------------------
(* The operators of connection.c.                                          *)

\* The least number of a set of natural numbers is one of it.
LEMMA MinOfNaturals ==
    ASSUME NEW S, S \subseteq Nat, S # {}
    PROVE  Min(S) \in S /\ \A x \in S : Min(S) <= x
  BY LeastNatural DEF Min

\* The search of assign_client_connection ends at an inactive entry, wherever it
\* starts, as soon as there is one.
LEMMA AssignedIndexFree ==
    ASSUME NEW conns, NEW guid \in 0 .. MAX_OPEN_SOCKETS, HasFreeEntry(conns)
    PROVE  /\ AssignedIndex(conns, guid) \in Sockets
           /\ ~conns[AssignedIndex(conns, guid)].is_active
           /\ AssignedIndex(conns, guid) + 1 \in 0 .. MAX_OPEN_SOCKETS
  <1>. DEFINE N == MAX_OPEN_SOCKETS
              T == FreeTries(conns, guid)
  <1>1. N \in Nat \ {0}
    BY SocketsAssumption
  <1>2. PICK i \in Sockets : ~conns[i].is_active
    BY DEF HasFreeEntry
  <1>3. \E k \in Sockets : Candidate(guid, k) = i
    <2>1. CASE i >= guid
      <3>1. i - guid \in Sockets /\ Candidate(guid, i - guid) = i
        BY <1>1, <2>1 DEF Sockets, Candidate
      <3>. QED
        BY <3>1
    <2>2. CASE i < guid
      <3>1. i - guid + N \in Sockets /\ Candidate(guid, i - guid + N) = i
        BY <1>1, <2>2 DEF Sockets, Candidate
      <3>. QED
        BY <3>1
    <2>. QED
      BY <1>1, <2>1, <2>2 DEF Sockets
  <1>4. T # {} /\ T \subseteq Nat
    BY <1>1, <1>2, <1>3 DEF FreeTries, Sockets
  <1>5. Min(T) \in T
    BY <1>4, MinOfNaturals
  <1>6. Min(T) \in Sockets /\ ~conns[Candidate(guid, Min(T))].is_active
    BY <1>5 DEF FreeTries
  <1>7. Candidate(guid, Min(T)) \in Sockets
    BY <1>1, <1>6 DEF Candidate, Sockets
  <1>. QED
    BY <1>1, <1>6, <1>7 DEF AssignedIndex, Sockets

-----------------------------------------------------------------------------
(* The inductive invariant, entry by entry and block by block.             *)

\* An entry is assigned to a client, or as free_client_connection leaves it; its
\* control block comes from the pool of its protocol.
GoodEntries ==
    {e \in Entries :
        /\ e.is_active => e.client_num \in Clients /\ e.protocol \in Protocols
        /\ ~e.is_active => /\ e.client_num = DEINIT /\ e.pcb = NULL
                           /\ e.protocol = XTCP_PROTOCOL_NONE
                           /\ e.client_data = NULL
        /\ e.protocol = XTCP_PROTOCOL_NONE => e.pcb = NULL
        /\ e.protocol = XTCP_PROTOCOL_UDP => e.pcb \in UdpPcbs \cup {NULL}
        /\ e.protocol = XTCP_PROTOCOL_TCP =>
              e.pcb \in TcpPcbs \cup ListenPcbs \cup {NULL}}

\* A block is in a state of its pool; only an established connection has refused
\* data, and only a connection that was established has received any.  A block
\* that has not been used yet has the argument 0.
GoodBlocks(p) ==
    {x \in Blocks :
        /\ p \in TcpPcbs => x.state \in TcpStates
        /\ p \in ListenPcbs => x.state \in {"FREE", "LISTEN"}
        /\ p \in UdpPcbs => x.state \in {"FREE", "UDP", "UDP_BOUND", "UDP_CONNECTED"}
        /\ x.refused # NULL => x.state = "ESTABLISHED"
        /\ x.state \in {"FREE", "CLOSED", "SYN_SENT", "SYN_RCVD"} =>
              x.wnd = 0 /\ x.next = 0
        /\ x.state = "CLOSED" => x.arg = 0}

ServerInv ==
    /\ connections \in [Sockets -> GoodEntries]
    /\ last_guid \in 0 .. MAX_OPEN_SOCKETS
    /\ queue \in [Clients -> Seq(Event)]
    /\ \A c \in Clients : Len(queue[c]) <= CLIENT_QUEUE_SIZE
    /\ pcb \in [Pcbs -> Blocks]
    /\ \A p \in Pcbs : pcb[p] \in GoodBlocks(p)
    /\ buf \in [Pbufs -> Buffers]
    /\ next_read \in [Sockets -> 0 .. SEQ_NUMBERS - 1]
    /\ \A i \in Sockets : ~connections[i].is_active => next_read[i] = 0

\* What assign_client_connection sets and what it leaves.
LEMMA AssignedEntry ==
    ASSUME NEW e \in GoodEntries, NEW c \in Clients, NEW protocol \in Protocols
    PROVE  LET f == assign_client_connection(e, c, protocol)
           IN  /\ f \in GoodEntries
               /\ f.is_active /\ f.client_num = c /\ f.protocol = protocol
               /\ f.pcb = NULL /\ f.pbuf = e.pbuf /\ f.client_data = e.client_data
  <1>1. c \in ClientNums
    BY SizesAssumption DEF ClientNums, Clients
  <1>. QED
    BY <1>1 DEF assign_client_connection, GoodEntries, Entries

\* What free_client_connection sets and what it leaves.
LEMMA FreedEntry ==
    ASSUME NEW e \in GoodEntries
    PROVE  LET f == free_client_connection(e)
           IN  /\ f \in GoodEntries
               /\ ~f.is_active
               /\ f.client_num = DEINIT /\ f.protocol = XTCP_PROTOCOL_NONE
               /\ f.pcb = NULL /\ f.pbuf = e.pbuf /\ f.client_data = NULL
  <1>1. DEINIT \in ClientNums
    BY SizesAssumption DEF DEINIT, ClientNums
  <1>. QED
    BY <1>1 DEF free_client_connection, GoodEntries, Entries,
                XTCP_PROTOCOL_NONE, XTCP_PROTOCOL_UDP, XTCP_PROTOCOL_TCP

\* A control block of its protocol's pool is put in an entry.
LEMMA EntryWithPcb ==
    ASSUME NEW e \in GoodEntries, e.is_active, NEW p \in Pcbs,
           \/ e.protocol = XTCP_PROTOCOL_TCP /\ p \in TcpPcbs \cup ListenPcbs
           \/ e.protocol = XTCP_PROTOCOL_UDP /\ p \in UdpPcbs
    PROVE  LET f == [e EXCEPT !.pcb = p]
           IN  /\ f \in GoodEntries
               /\ f.is_active /\ f.client_num = e.client_num
               /\ f.protocol = e.protocol /\ f.pcb = p
               /\ f.pbuf = e.pbuf /\ f.client_data = e.client_data
  BY DEF GoodEntries, Entries, XTCP_PROTOCOL_NONE, XTCP_PROTOCOL_UDP,
         XTCP_PROTOCOL_TCP

\* A change of the list of buffers leaves the rest of the entry.
LEMMA EntryWithList ==
    ASSUME NEW e \in GoodEntries, NEW s \in Seq(Pbufs)
    PROVE  LET f == [e EXCEPT !.pbuf = s]
           IN  /\ f \in GoodEntries
               /\ f.is_active = e.is_active /\ f.client_num = e.client_num
               /\ f.protocol = e.protocol /\ f.pcb = e.pcb
               /\ f.pbuf = s /\ f.client_data = e.client_data
  BY DEF GoodEntries, Entries

\* So does a change of the client's data.
LEMMA EntryWithData ==
    ASSUME NEW e \in GoodEntries, e.is_active, NEW d \in ClientData
    PROVE  LET f == [e EXCEPT !.client_data = d]
           IN  /\ f \in GoodEntries
               /\ f.is_active = e.is_active /\ f.client_num = e.client_num
               /\ f.protocol = e.protocol /\ f.pcb = e.pcb /\ f.pbuf = e.pbuf
  BY DEF GoodEntries, Entries

\* An entry found for a client is active.
LEMMA OwnedEntry ==
    ASSUME ServerInv, NEW c \in Clients, NEW id, Owns(c, id)
    PROVE  /\ id \in Sockets
           /\ connections[id] \in GoodEntries
           /\ connections[id].is_active
           /\ connections[id].client_num = c
  BY SizesAssumption
  DEF Owns, find_client_connection, ServerInv, GoodEntries, DEINIT, Clients

-----------------------------------------------------------------------------
(* Lists of buffers.                                                       *)

\* Unlinking the buffer that has just been linked, when it was nowhere on the
\* list, gives the list back; in any case a list remains.
LEMMA Unlinked ==
    ASSUME NEW S, NEW s \in Seq(S), NEW b \in S
    PROVE  LET r == RemoveFirst(Append(s, b), b)
           IN  /\ r \in Seq(S)
               /\ (\A k \in 1 .. Len(s) : s[k] # b) => r = s
  <1>. DEFINE t == Append(s, b)
              n == Len(s)
              I == {k \in 1 .. Len(t) : t[k] = b}
              m == Min(I)
  <1>1. /\ t \in Seq(S) /\ Len(t) = n + 1 /\ t[n + 1] = b /\ n \in Nat
        /\ \A k \in 1 .. n : t[k] = s[k]
    BY AppendProperties, LenProperties
  <1>2. I # {} /\ I \subseteq Nat /\ n + 1 \in I
    BY <1>1
  <1>3. m \in I /\ \A k \in I : m <= k
    BY <1>2, MinOfNaturals
  <1>4. RemoveFirst(t, b) = SubSeq(t, 1, m - 1) \o SubSeq(t, m + 1, Len(t))
    BY <1>2 DEF RemoveFirst, RemoveAt, SelectInSeq
  <1>5. m \in 1 .. n + 1
    BY <1>1, <1>3
  <1>. HIDE DEF t, n, m
  <1>6. /\ \A k \in 1 .. m - 1 : t[k] \in S
        /\ \A k \in m + 1 .. Len(t) : t[k] \in S
        /\ m - 1 \in Int /\ m + 1 \in Int /\ Len(t) \in Int
    <2>1. \A k \in 1 .. Len(t) : t[k] \in S
      BY <1>1, ElementOfSeq
    <2>. QED
      BY <1>1, <1>5, <2>1
  <1>7. RemoveFirst(t, b) \in Seq(S)
    <2>1. SubSeq(t, 1, m - 1) \in Seq(S) /\ SubSeq(t, m + 1, Len(t)) \in Seq(S)
      BY <1>6, SubSeqProperties
    <2>. QED
      BY <1>4, <2>1, ConcatProperties
  <1>8. ASSUME \A k \in 1 .. n : s[k] # b
        PROVE  RemoveFirst(t, b) = s
    <2>1. m = n + 1
      <3>1. t[m] = b
        BY <1>3
      <3>2. m \notin 1 .. n
        BY <1>1, <1>8, <3>1
      <3>. QED
        BY <1>1, <1>5, <3>2
    <2>2. SubSeq(t, m + 1, Len(t)) = <<>>
      BY <1>1, <1>6, <2>1, SubSeqEmpty
    <2>3. SubSeq(t, 1, m - 1) = s
      <3>. DEFINE u == SubSeq(t, 1, m - 1)
      <3>1. m - 1 = n
        BY <1>1, <2>1
      <3>2. u \in Seq(S) /\ Len(u) = (IF 1 <= n THEN n - 1 + 1 ELSE 0)
            /\ \A k \in 1 .. n - 1 + 1 : u[k] = t[1 + k - 1]
        BY <1>6, <3>1, SubSeqProperties
      <3>3. Len(u) = n /\ \A k \in 1 .. n : u[k] = s[k]
        BY <1>1, <3>2
      <3>4. Len(u) = Len(s) /\ \A k \in 1 .. Len(u) : u[k] = s[k]
        BY <3>3 DEF n
      <3>5. u = s
        <4>. HIDE DEF u
        <4>. QED
          BY <3>2, <3>4, SeqEqual
      <3>. QED
        BY <3>5
    <2>. QED
      BY <1>4, <2>2, <2>3, ConcatEmptySeq
  <1>. QED
    BY <1>7, <1>8 DEF t, n

-----------------------------------------------------------------------------
(* What the steps do to the table and to the blocks.                       *)

\* Only entry i, and only block p, changes.
OnlyEntry(i) ==
    /\ connections' \in [Sockets -> GoodEntries]
    /\ \A j \in Sockets : j # i => connections'[j] = connections[j]

OnlyBlock(p) ==
    /\ pcb' \in [Pcbs -> Blocks]
    /\ pcb'[p] \in GoodBlocks(p)
    /\ \A q \in Pcbs : q # p => pcb'[q] = pcb[q]

\* Entry i, inactive before, is client c's, without unread data of its own.
AssignedTo(i, c, protocol) ==
    /\ ~connections[i].is_active
    /\ connections'[i].is_active
    /\ connections'[i].client_num = c
    /\ connections'[i].protocol = protocol
    /\ connections'[i].pbuf = connections[i].pbuf

\* Entry i is as free_client_connection leaves it, with list s.
Released(i, s) ==
    /\ ~connections'[i].is_active
    /\ connections'[i].client_num = DEINIT
    /\ connections'[i].protocol = XTCP_PROTOCOL_NONE
    /\ connections'[i].pcb = NULL
    /\ connections'[i].client_data = NULL
    /\ connections'[i].pbuf = s

\* A control block replaced by another one fit for it.
LEMMA BlockUpdated ==
    ASSUME ServerInv, NEW p \in Pcbs, NEW x \in Blocks, x \in GoodBlocks(p),
           pcb' = [pcb EXCEPT ![p] = x]
    PROVE  OnlyBlock(p) /\ pcb'[p] = x
  BY DEF OnlyBlock, ServerInv

\* An event of the callbacks keeps the queues' types and bounds.
LEMMA PostType ==
    ASSUME ServerInv, NEW c, NEW id \in Sockets, NEW event \in ServerEvents,
           Post(c, id, event)
    PROVE  /\ queue' \in [Clients -> Seq(Event)]
           /\ \A d \in Clients : Len(queue'[d]) <= CLIENT_QUEUE_SIZE
  <1>. DEFINE e == [xtcp_event |-> event, id |-> id]
  <1>1. e \in Event
    BY ServerIds, ServerEventsAssumption DEF Event
  <1>2. CASE Accepts(c)
    <2>1. c \in Clients /\ Len(queue[c]) < CLIENT_QUEUE_SIZE
          /\ queue[c] \in Seq(Event)
      BY <1>2 DEF Accepts, HasRoom, ServerInv
    <2>2. queue' = [queue EXCEPT ![c] = Append(queue[c], e)]
      BY <1>2 DEF Post
    <2>. HIDE DEF e
    <2>3. Append(queue[c], e) \in Seq(Event)
          /\ Len(Append(queue[c], e)) = Len(queue[c]) + 1 /\ Len(queue[c]) \in Nat
      BY <1>1, <2>1, AppendProperties, LenProperties
    <2>. QED
      BY <2>1, <2>2, <2>3, SizesAssumption DEF ServerInv
  <1>3. CASE ~Accepts(c)
    BY <1>3 DEF Post, ServerInv
  <1>. QED
    BY <1>2, <1>3

\* A block that has just been allocated, or freed.
LEMMA NewBlock ==
    /\ FreePcb \in Blocks /\ FreePcb.state = "FREE" /\ FreePcb.refused = NULL
    /\ \A p \in Pcbs : FreePcb \in GoodBlocks(p)
    /\ \A p \in TcpPcbs : NewPcb("CLOSED") \in GoodBlocks(p)
    /\ \A p \in UdpPcbs : NewPcb("UDP") \in GoodBlocks(p)
    /\ NewPcb("CLOSED").state = "CLOSED" /\ NewPcb("CLOSED").refused = NULL
    /\ NewPcb("UDP").state = "UDP" /\ NewPcb("UDP").refused = NULL
    /\ 0 \in Sockets /\ 0 \in 0 .. TCP_WND /\ 0 \in 0 .. SEQ_NUMBERS - 1
  <1>1. 0 \in Sockets /\ 0 \in 0 .. TCP_WND /\ 0 \in 0 .. SEQ_NUMBERS - 1
    BY SocketsAssumption, PoolsAssumption DEF Sockets
  <1>. QED
    BY <1>1, PoolsAssumption
    DEF FreePcb, NewPcb, GoodBlocks, Blocks, PcbStates, TcpStates, Eventful,
        Synchronized, Pcbs

\* A listening block and a half-open connection carry the listener's index.
LEMMA NewListenBlock ==
    ASSUME NEW id \in Sockets
    PROVE  /\ LET x == [NewPcb("LISTEN") EXCEPT !.arg = id]
              IN  /\ \A l \in ListenPcbs : x \in GoodBlocks(l)
                  /\ x \in Blocks /\ x.state = "LISTEN" /\ x.arg = id
                  /\ x.refused = NULL
           /\ LET x == [NewPcb("SYN_RCVD") EXCEPT !.arg = id]
              IN  /\ \A p \in TcpPcbs : x \in GoodBlocks(p)
                  /\ x \in Blocks /\ x.state = "SYN_RCVD" /\ x.arg = id
                  /\ x.refused = NULL
  <1>. DEFINE x(state) == [NewPcb(state) EXCEPT !.arg = id]
  <1>1. ASSUME NEW state \in {"LISTEN", "SYN_RCVD"}
        PROVE  /\ x(state) \in Blocks /\ x(state).state = state
               /\ x(state).arg = id /\ x(state).refused = NULL
               /\ x(state).wnd = 0 /\ x(state).next = 0
    BY NewBlock DEF NewPcb, FreePcb, Blocks, PcbStates, TcpStates
  <1>2. (\A l \in ListenPcbs : x("LISTEN") \in GoodBlocks(l))
        /\ (\A p \in TcpPcbs : x("SYN_RCVD") \in GoodBlocks(p))
    <2>. HIDE DEF x
    <2>. QED
      BY <1>1, PoolsAssumption DEF GoodBlocks, TcpStates
  <1>. QED
    BY <1>1, <1>2

\* Opening a socket assigns one entry and takes at most one block.
LEMMA NewSocketEffect ==
    ASSUME ServerInv, NEW c \in Clients, NEW protocol, NEW pool, NEW state,
           \/ protocol = XTCP_PROTOCOL_UDP /\ pool = UdpPcbs /\ state = "UDP"
           \/ protocol = XTCP_PROTOCOL_TCP /\ pool = TcpPcbs /\ state = "CLOSED"
           \/ protocol = XTCP_PROTOCOL_NONE /\ pool = {},
           NewSocket(c, protocol, pool, state)
    PROVE  /\ last_guid' \in 0 .. MAX_OPEN_SOCKETS
           /\ UNCHANGED <<queue, buf, next_read>>
           /\ \E index \in Sockets :
                 /\ OnlyEntry(index)
                 /\ AssignedTo(index, c, protocol)
                 /\ \/ \E p \in pool : /\ pcb[p].state = "FREE"
                                       /\ connections'[index].pcb = p
                                       /\ OnlyBlock(p)
                                       /\ pcb'[p] = NewPcb(state)
                    \/ connections'[index].pcb = NULL /\ UNCHANGED pcb
  <1>. DEFINE index == AssignedIndex(connections, last_guid)
              e == assign_client_connection(connections[index], c, protocol)
              conns == [connections EXCEPT ![index] = e]
  <1>1. HasFreeEntry(connections) /\ protocol \in Protocols
    BY DEF NewSocket
  <1>2. /\ index \in Sockets /\ ~connections[index].is_active
        /\ index + 1 \in 0 .. MAX_OPEN_SOCKETS
    BY <1>1, AssignedIndexFree DEF ServerInv
  <1>3. /\ e \in GoodEntries /\ e.is_active /\ e.client_num = c
        /\ e.protocol = protocol /\ e.pcb = NULL
        /\ e.pbuf = connections[index].pbuf
    BY <1>1, <1>2, AssignedEntry DEF ServerInv
  <1>4. /\ last_guid' = index + 1
        /\ \/ \E p \in pool :
                    /\ IsFree(p)
                    /\ pcb' = [pcb EXCEPT ![p] = NewPcb(state)]
                    /\ connections' = [conns EXCEPT ![index].pcb = p]
           \/ connections' = conns /\ UNCHANGED pcb
        /\ UNCHANGED <<queue, buf, next_read>>
    BY DEF NewSocket, AssignedTable
  <1>. HIDE DEF index, e
  <1>5. CASE connections' = conns /\ UNCHANGED pcb
    BY <1>2, <1>3, <1>4, <1>5 DEF ServerInv, OnlyEntry, AssignedTo
  <1>6. ASSUME NEW p \in pool, IsFree(p),
               pcb' = [pcb EXCEPT ![p] = NewPcb(state)],
               connections' = [conns EXCEPT ![index].pcb = p]
        PROVE  /\ OnlyEntry(index) /\ AssignedTo(index, c, protocol)
               /\ pcb[p].state = "FREE" /\ connections'[index].pcb = p
               /\ OnlyBlock(p) /\ pcb'[p] = NewPcb(state)
    <2>. DEFINE f == [e EXCEPT !.pcb = p]
    <2>1. p \in Pcbs /\ NewPcb(state) \in GoodBlocks(p)
      BY NewBlock DEF Pcbs
    <2>2. /\ f \in GoodEntries /\ f.is_active /\ f.client_num = c
          /\ f.protocol = protocol /\ f.pcb = p
          /\ f.pbuf = connections[index].pbuf
      BY <1>3, <2>1, EntryWithPcb
    <2>3. conns[index] = e
      BY <1>2 DEF ServerInv
    <2>4. connections' = [connections EXCEPT ![index] = f]
      BY <1>2, <1>6, <2>3 DEF ServerInv
    <2>5. OnlyEntry(index) /\ AssignedTo(index, c, protocol)
          /\ connections'[index].pcb = p
      <3>. HIDE DEF f
      <3>. QED
        BY <1>2, <2>2, <2>4 DEF ServerInv, OnlyEntry, AssignedTo
    <2>6. OnlyBlock(p) /\ pcb'[p] = NewPcb(state) /\ pcb[p].state = "FREE"
      BY <1>6, <2>1 DEF ServerInv, OnlyBlock, IsFree, GoodBlocks
    <2>. QED
      BY <2>5, <2>6
  <1>. QED
    BY <1>2, <1>4, <1>5, <1>6

\* Making room for a socket aborts one connection, whose entry is released
\* unless the connection was past its last event; the new socket gets the block,
\* unless it is its own entry that was released.
LEMMA KillEffect ==
    ASSUME ServerInv, NEW c \in Clients, socket_tcp_kill(c)
    PROVE  /\ "errors" \in Env
           /\ last_guid' \in 0 .. MAX_OPEN_SOCKETS
           /\ connections' \in [Sockets -> GoodEntries]
           /\ \E v \in Victims, index \in Sockets :
                 LET hit == pcb[v].arg
                 IN  /\ ~connections[index].is_active
                     /\ \A j \in Sockets :
                           j \notin {index, hit} => connections'[j] = connections[j]
                     /\ OnlyBlock(v)
                     /\ buf' = RefusedFreed(v)
                     /\ \/ /\ pcb[v].state = "TIME_WAIT"
                           /\ OnlyEntry(index)
                           /\ AssignedTo(index, c, XTCP_PROTOCOL_TCP)
                           /\ connections'[index].pcb = v
                           /\ pcb'[v] = NewPcb("CLOSED")
                           /\ UNCHANGED <<queue, next_read>>
                        \/ /\ pcb[v].state # "TIME_WAIT" /\ hit # index
                           /\ AssignedTo(index, c, XTCP_PROTOCOL_TCP)
                           /\ connections'[index].pcb = v
                           /\ pcb'[v] = NewPcb("CLOSED")
                           /\ Released(hit, connections[hit].pbuf)
                           /\ Forget(hit)
                           /\ Post(connections[hit].client_num, hit, "XTCP_ABORTED")
                        \/ /\ pcb[v].state # "TIME_WAIT" /\ hit = index
                           /\ pcb'[v] = FreePcb
                           /\ Released(hit, connections[hit].pbuf)
                           /\ Forget(hit)
                           /\ Post(c, hit, "XTCP_ABORTED")
  <1>. DEFINE index == AssignedIndex(connections, last_guid)
              e == assign_client_connection(connections[index], c, XTCP_PROTOCOL_TCP)
              conns == [connections EXCEPT ![index] = e]
  <1>1. HasFreeEntry(connections) /\ XTCP_PROTOCOL_TCP \in Protocols
        /\ "errors" \in Env
    BY DEF socket_tcp_kill
  <1>2. /\ index \in Sockets /\ ~connections[index].is_active
        /\ index + 1 \in 0 .. MAX_OPEN_SOCKETS
    BY <1>1, AssignedIndexFree DEF ServerInv
  <1>3. /\ e \in GoodEntries /\ e.is_active /\ e.client_num = c
        /\ e.protocol = XTCP_PROTOCOL_TCP /\ e.pcb = NULL
        /\ e.pbuf = connections[index].pbuf
    BY <1>1, <1>2, AssignedEntry DEF ServerInv
  <1>4. conns \in [Sockets -> GoodEntries] /\ conns[index] = e
        /\ \A j \in Sockets : j # index => conns[j] = connections[j]
    BY <1>2, <1>3 DEF ServerInv
  <1>5. PICK v \in Victims :
          LET silent == pcb[v].state = "TIME_WAIT"
              hit    == pcb[v].arg
              after  == IF silent THEN conns
                        ELSE [conns EXCEPT ![hit] = free_client_connection(@)]
              kept   == after[index].protocol = XTCP_PROTOCOL_TCP
          IN  /\ last_guid' = index + 1
              /\ IF silent THEN UNCHANGED next_read ELSE Forget(hit)
              /\ connections' = IF kept THEN [after EXCEPT ![index].pcb = v]
                                        ELSE after
              /\ pcb' = [pcb EXCEPT ![v] =
                            IF kept THEN NewPcb("CLOSED") ELSE FreePcb]
              /\ buf' = RefusedFreed(v)
              /\ IF silent THEN UNCHANGED queue
                           ELSE Post(conns[hit].client_num, hit, "XTCP_ABORTED")
    BY DEF socket_tcp_kill, AssignedTable
  <1>. DEFINE hit == pcb[v].arg
              f == [e EXCEPT !.pcb = v]
              g == free_client_connection(conns[hit])
  <1>6. v \in TcpPcbs /\ v \in Pcbs /\ hit \in Sockets
    BY DEF Victims, Pcbs, ServerInv, Blocks
  <1>7. /\ f \in GoodEntries /\ f.is_active /\ f.client_num = c
        /\ f.protocol = XTCP_PROTOCOL_TCP /\ f.pcb = v
        /\ f.pbuf = connections[index].pbuf
    BY <1>3, <1>6, EntryWithPcb
  <1>8. /\ g \in GoodEntries /\ ~g.is_active /\ g.client_num = DEINIT
        /\ g.protocol = XTCP_PROTOCOL_NONE /\ g.pcb = NULL
        /\ g.client_data = NULL /\ g.pbuf = conns[hit].pbuf
    BY <1>4, <1>6, FreedEntry
  <1>. HIDE DEF e, index, conns, f, g, hit
  <1>9. /\ \A x : [pcb EXCEPT ![v] = x][v] = x
        /\ \A x, q \in Pcbs : q # v => [pcb EXCEPT ![v] = x][q] = pcb[q]
        /\ \A x \in GoodBlocks(v) : [pcb EXCEPT ![v] = x] \in [Pcbs -> Blocks]
        /\ FreePcb \in GoodBlocks(v) /\ NewPcb("CLOSED") \in GoodBlocks(v)
        /\ FreePcb \in Blocks /\ NewPcb("CLOSED") \in Blocks
    BY <1>6, NewBlock DEF ServerInv, GoodBlocks
  <1>10. CASE pcb[v].state = "TIME_WAIT"
    <2>1. connections' = [conns EXCEPT ![index] = f] /\ UNCHANGED <<queue, next_read>>
          /\ pcb' = [pcb EXCEPT ![v] = NewPcb("CLOSED")] /\ buf' = RefusedFreed(v)
      BY <1>3, <1>4, <1>5, <1>10, <1>2, Zenon DEF f
    <2>2. OnlyEntry(index) /\ AssignedTo(index, c, XTCP_PROTOCOL_TCP)
          /\ connections'[index].pcb = v
      BY <1>2, <1>4, <1>7, <2>1, ZenonT(30) DEF OnlyEntry, AssignedTo
    <2>3. OnlyBlock(v) /\ pcb'[v] = NewPcb("CLOSED")
      BY <1>6, <1>9, <2>1, BlockUpdated
    <2>. QED
      BY <1>1, <1>2, <1>5, <1>6, <1>10, <2>1, <2>2, <2>3 DEF hit, OnlyEntry
  <1>11. CASE pcb[v].state # "TIME_WAIT" /\ hit # index
    <2>1. /\ connections' = [[conns EXCEPT ![hit] = g] EXCEPT ![index] = f]
          /\ pcb' = [pcb EXCEPT ![v] = NewPcb("CLOSED")] /\ buf' = RefusedFreed(v)
          /\ Forget(hit) /\ Post(conns[hit].client_num, hit, "XTCP_ABORTED")
      BY <1>3, <1>4, <1>5, <1>11, <1>2, <1>6 DEF f, g, hit
    <2>2. /\ connections' \in [Sockets -> GoodEntries]
          /\ AssignedTo(index, c, XTCP_PROTOCOL_TCP) /\ connections'[index].pcb = v
          /\ conns[hit] = connections[hit] /\ Released(hit, connections[hit].pbuf)
          /\ \A j \in Sockets :
                 j \notin {index, hit} => connections'[j] = connections[j]
      <3>. DEFINE m == [conns EXCEPT ![hit] = g]
      <3>1. /\ m \in [Sockets -> GoodEntries] /\ m[hit] = g
            /\ \A j \in Sockets : j # hit => m[j] = conns[j]
        BY <1>4, <1>6, <1>8
      <3>. HIDE DEF m
      <3>2. /\ connections' \in [Sockets -> GoodEntries] /\ connections'[index] = f
            /\ \A j \in Sockets : j # index => connections'[j] = m[j]
        BY <1>2, <1>7, <2>1, <3>1 DEF m
      <3>3. connections'[hit] = g /\ conns[hit] = connections[hit]
        BY <1>4, <1>6, <1>11, <3>1, <3>2
      <3>4. \A j \in Sockets :
               j \notin {index, hit} => connections'[j] = connections[j]
        BY <1>4, <3>1, <3>2
      <3>5. AssignedTo(index, c, XTCP_PROTOCOL_TCP) /\ connections'[index].pcb = v
        BY <1>2, <1>7, <3>2 DEF AssignedTo
      <3>6. Released(hit, connections[hit].pbuf)
        BY <1>8, <3>3 DEF Released
      <3>. QED
        BY <3>2, <3>3, <3>4, <3>5, <3>6
    <2>3. OnlyBlock(v) /\ pcb'[v] = NewPcb("CLOSED")
      BY <1>6, <1>9, <2>1, BlockUpdated
    <2>. QED
      BY <1>1, <1>2, <1>5, <1>6, <1>11, <2>1, <2>2, <2>3, ZenonT(30) DEF hit
  <1>12. CASE pcb[v].state # "TIME_WAIT" /\ hit = index
    <2>1. /\ connections' = [conns EXCEPT ![hit] = g]
          /\ pcb' = [pcb EXCEPT ![v] = FreePcb] /\ buf' = RefusedFreed(v)
          /\ Forget(hit) /\ Post(conns[hit].client_num, hit, "XTCP_ABORTED")
      <3>1. [conns EXCEPT ![hit] = g][index].protocol # XTCP_PROTOCOL_TCP
        BY <1>4, <1>6, <1>8, <1>12 DEF XTCP_PROTOCOL_NONE, XTCP_PROTOCOL_TCP
      <3>. QED
        BY <1>4, <1>5, <1>12, <3>1 DEF f, g, hit
    <2>2. /\ connections' \in [Sockets -> GoodEntries]
          /\ conns[hit].client_num = c
          /\ Released(hit, connections[hit].pbuf)
          /\ \A j \in Sockets :
                 j \notin {index, hit} => connections'[j] = connections[j]
      BY <1>2, <1>3, <1>4, <1>6, <1>8, <1>12, <2>1 DEF Released
    <2>3. OnlyBlock(v) /\ pcb'[v] = FreePcb
      BY <1>6, <1>9, <2>1, BlockUpdated
    <2>. QED
      BY <1>1, <1>2, <1>5, <1>6, <1>12, <2>1, <2>2, <2>3 DEF hit
  <1>. QED
    BY <1>10, <1>11, <1>12

\* Closing a socket releases its entry, with its data, and its block: TCP may
\* keep that for the closing handshake.  Half-open connections of a listener may
\* go, too.
LEMMA CloseEffect ==
    ASSUME ServerInv, NEW c \in Clients, NEW id, close(c, id)
    PROVE  /\ id \in Sockets /\ connections[id].is_active
           /\ connections[id].client_num = c
           /\ OnlyEntry(id) /\ Released(id, <<>>)
           /\ queue' = [queue EXCEPT ![c] = Remaining(queue[c], id)]
           /\ pcb' \in [Pcbs -> Blocks] /\ \A q \in Pcbs : pcb'[q] \in GoodBlocks(q)
           /\ \A q \in Pcbs : q # connections[id].pcb =>
                 \/ pcb'[q] = pcb[q]
                 \/ pcb[q].state = "SYN_RCVD" /\ pcb'[q] = FreePcb
           /\ \A q \in Pcbs : q = connections[id].pcb =>
                 \/ pcb'[q] = FreePcb
                 \/ /\ "linger" \in Env
                    /\ pcb[q].state \in Synchronized /\ pcb[q].refused = NULL
                    /\ pcb'[q].state = "CLOSING" /\ pcb'[q].refused = NULL
           /\ Forget(id) /\ UNCHANGED last_guid
  <1>. DEFINE entry == connections[id]
              p == entry.pcb
              w == IF entry.pbuf = <<>> THEN pcb[p].wnd ELSE tcp_recved(pcb[p].wnd)
              e == ClosedEntry(entry)
  <1>1. /\ id \in Sockets /\ entry \in GoodEntries /\ entry.is_active
        /\ entry.client_num = c
    BY OwnedEntry DEF close
  <1>2. /\ queue' = [queue EXCEPT ![c] = Remaining(queue[c], id)]
        /\ connections' = [connections EXCEPT ![id] = e]
        /\ Forget(id) /\ UNCHANGED last_guid
    BY DEF close
  <1>3. /\ e \in GoodEntries /\ ~e.is_active /\ e.client_num = DEINIT
        /\ e.protocol = XTCP_PROTOCOL_NONE /\ e.pcb = NULL
        /\ e.client_data = NULL /\ e.pbuf = <<>>
    <2>. DEFINE f == free_client_connection(entry)
    <2>1. /\ f \in GoodEntries /\ ~f.is_active /\ f.client_num = DEINIT
          /\ f.protocol = XTCP_PROTOCOL_NONE /\ f.pcb = NULL /\ f.client_data = NULL
      BY <1>1, FreedEntry
    <2>2. <<>> \in Seq(Pbufs) /\ e = [f EXCEPT !.pbuf = <<>>]
      BY EmptySeq DEF ClosedEntry
    <2>. HIDE DEF f, e
    <2>3. /\ e \in GoodEntries /\ e.is_active = f.is_active
          /\ e.client_num = f.client_num /\ e.protocol = f.protocol
          /\ e.pcb = f.pcb /\ e.pbuf = <<>> /\ e.client_data = f.client_data
      BY <2>1, <2>2, EntryWithList
    <2>. QED
      BY <2>1, <2>3
  <1>4. OnlyEntry(id) /\ Released(id, <<>>)
    <2>. HIDE DEF e
    <2>. QED
      BY <1>1, <1>2, <1>3 DEF OnlyEntry, Released, ServerInv
  <1>. DEFINE Blocks2 ==
           /\ pcb' \in [Pcbs -> Blocks] /\ \A q \in Pcbs : pcb'[q] \in GoodBlocks(q)
           /\ \A q \in Pcbs : q # p =>
                 \/ pcb'[q] = pcb[q]
                 \/ pcb[q].state = "SYN_RCVD" /\ pcb'[q] = FreePcb
           /\ \A q \in Pcbs : q = p =>
                 \/ pcb'[q] = FreePcb
                 \/ /\ "linger" \in Env
                    /\ pcb[q].state \in Synchronized /\ pcb[q].refused = NULL
                    /\ pcb'[q].state = "CLOSING" /\ pcb'[q].refused = NULL
  <1>5. pcb' = IF p = NULL THEN pcb
               ELSE IF entry.protocol = XTCP_PROTOCOL_UDP THEN PcbFreed(p)
               ELSE IF pcb[p].state = "LISTEN" /\ "linger" \notin Env
               THEN [q \in Pcbs |-> IF q = p \/ q \in HalfOpen(p)
                                    THEN FreePcb ELSE pcb[q]]
               ELSE AfterClose(p, w)
    BY DEF close
  <1>6. p \in Pcbs \cup {NULL} /\ NULL \notin Pcbs
    BY <1>1, PoolsAssumption DEF GoodEntries, Entries, Pcbs
  <1>. HIDE DEF w, p, entry, e
  <1>7. FreePcb \in Blocks /\ \A q \in Pcbs : FreePcb \in GoodBlocks(q)
    BY NewBlock
  <1>8. ASSUME p = NULL PROVE Blocks2
    BY <1>5, <1>6, <1>8 DEF ServerInv
  <1>9. ASSUME p # NULL, pcb' = PcbFreed(p) PROVE Blocks2
    BY <1>6, <1>7, <1>9 DEF PcbFreed, ServerInv
  <1>10. ASSUME p # NULL, pcb' = [q \in Pcbs |-> IF q = p \/ q \in HalfOpen(p)
                                                THEN FreePcb ELSE pcb[q]]
         PROVE  Blocks2
    BY <1>6, <1>7, <1>10 DEF HalfOpen, ServerInv
  <1>11. ASSUME p # NULL, pcb' = AfterClose(p, w), pcb' # PcbFreed(p)
         PROVE  Blocks2
    <2>1. /\ "linger" \in Env /\ pcb[p].state \in Synchronized
          /\ w = 0 /\ pcb[p].refused = NULL
          /\ pcb' = [pcb EXCEPT ![p].state = "CLOSING", ![p].wnd = w]
      BY <1>11 DEF AfterClose
    <2>. DEFINE x == [pcb[p] EXCEPT !.state = "CLOSING", !.wnd = 0]
    <2>2. p \in Pcbs /\ pcb[p] \in Blocks /\ pcb[p] \in GoodBlocks(p)
      BY <1>6, <1>11 DEF ServerInv
    <2>3. x \in GoodBlocks(p) /\ x \in Blocks /\ x.state = "CLOSING"
          /\ x.refused = NULL
      <3>1. p \notin ListenPcbs /\ p \notin UdpPcbs
        BY <2>1, <2>2 DEF GoodBlocks, Synchronized
      <3>2. /\ x \in Blocks /\ x.state = "CLOSING" /\ x.refused = NULL
        BY <2>1, <2>2, NewBlock DEF Blocks, PcbStates, TcpStates
      <3>. HIDE DEF x
      <3>. QED
        BY <3>1, <3>2 DEF GoodBlocks, TcpStates
    <2>4. pcb' = [pcb EXCEPT ![p] = x]
      BY <2>1, <2>2 DEF ServerInv
    <2>. HIDE DEF x
    <2>. QED
      BY <2>1, <2>2, <2>3, <2>4 DEF ServerInv
  <1>12. Blocks2
    BY <1>5, <1>8, <1>9, <1>10, <1>11
  <1>. QED
    BY <1>1, <1>2, <1>4, <1>12 DEF p, entry

\* Listening trades the entry's block for a listening one.
LEMMA ListenEffect ==
    ASSUME ServerInv, NEW c \in Clients, NEW id, listen_tcp(c, id)
    PROVE  LET p == connections[id].pcb
           IN  /\ id \in Sockets /\ connections[id].is_active
               /\ connections[id].protocol = XTCP_PROTOCOL_TCP
               /\ p \in TcpPcbs /\ pcb[p].state = "CLOSED"
               /\ \E l \in ListenPcbs :
                     /\ pcb[l].state = "FREE"
                     /\ OnlyEntry(id)
                     /\ connections'[id].is_active /\ connections'[id].pcb = l
                     /\ connections'[id].client_num = connections[id].client_num
                     /\ connections'[id].protocol = connections[id].protocol
                     /\ connections'[id].pbuf = connections[id].pbuf
                     /\ pcb' \in [Pcbs -> Blocks]
                     /\ \A q \in Pcbs : q \notin {p, l} => pcb'[q] = pcb[q]
                     /\ pcb'[p] = FreePcb
                     /\ pcb'[l] \in GoodBlocks(l)
                     /\ pcb'[l].state = "LISTEN" /\ pcb'[l].arg = id
                     /\ pcb'[l].refused = NULL
               /\ UNCHANGED <<last_guid, queue, buf, next_read>>
  <1>. DEFINE entry == connections[id]
              p == entry.pcb
  <1>1. /\ id \in Sockets /\ entry \in GoodEntries /\ entry.is_active
    BY OwnedEntry DEF listen_tcp
  <1>2. /\ get_tcp_pcb(connections, id) # NULL
        /\ entry.protocol = XTCP_PROTOCOL_TCP /\ p # NULL
        /\ pcb[p].state = "CLOSED"
        /\ UNCHANGED <<last_guid, queue, buf, next_read>>
    BY DEF listen_tcp, get_tcp_pcb
  <1>3. PICK l \in ListenPcbs :
            /\ IsFree(l)
            /\ pcb' = [pcb EXCEPT ![p] = FreePcb,
                                  ![l] = [NewPcb("LISTEN") EXCEPT !.arg = id]]
            /\ connections' = [connections EXCEPT ![id].pcb = l]
    BY <1>2 DEF listen_tcp, get_tcp_pcb
  <1>4. p \in TcpPcbs /\ p \in Pcbs /\ l \in Pcbs /\ l # p
    <2>1. p \in TcpPcbs \cup ListenPcbs
      BY <1>1, <1>2 DEF GoodEntries
    <2>2. p \in Pcbs /\ pcb[p] \in GoodBlocks(p)
      BY <2>1 DEF ServerInv, Pcbs
    <2>3. p \notin ListenPcbs
      BY <1>2, <2>2 DEF GoodBlocks
    <2>. QED
      BY <2>1, <2>3 DEF Pcbs
  <1>. DEFINE f == [entry EXCEPT !.pcb = l]
              x == [NewPcb("LISTEN") EXCEPT !.arg = id]
  <1>5. /\ f \in GoodEntries /\ f.is_active /\ f.client_num = entry.client_num
        /\ f.protocol = entry.protocol /\ f.pcb = l /\ f.pbuf = entry.pbuf
    BY <1>1, <1>2, <1>4, EntryWithPcb
  <1>6. /\ x \in GoodBlocks(l) /\ x \in Blocks /\ x.state = "LISTEN" /\ x.arg = id
        /\ x.refused = NULL
    BY <1>1, NewListenBlock
  <1>7. FreePcb \in Blocks
    BY NewBlock
  <1>8. connections' = [connections EXCEPT ![id] = f]
    BY <1>1, <1>3 DEF ServerInv
  <1>. HIDE DEF f, x
  <1>9. /\ OnlyEntry(id) /\ connections'[id] = f
    BY <1>1, <1>5, <1>8 DEF OnlyEntry, ServerInv
  <1>10. /\ pcb' \in [Pcbs -> Blocks]
         /\ \A q \in Pcbs : q \notin {p, l} => pcb'[q] = pcb[q]
         /\ pcb'[p] = FreePcb /\ pcb'[l] = x /\ pcb[l].state = "FREE"
    <2>. DEFINE m == [pcb EXCEPT ![p] = FreePcb]
    <2>1. pcb' = [m EXCEPT ![l] = x]
      BY <1>3 DEF x
    <2>2. /\ m \in [Pcbs -> Blocks] /\ m[p] = FreePcb
          /\ \A q \in Pcbs : q # p => m[q] = pcb[q]
      BY <1>4, <1>7 DEF ServerInv
    <2>. HIDE DEF m
    <2>3. /\ pcb' \in [Pcbs -> Blocks] /\ pcb'[l] = x
          /\ \A q \in Pcbs : q # l => pcb'[q] = m[q]
      BY <1>4, <1>6, <2>1, <2>2
    <2>. QED
      BY <1>3, <1>4, <2>2, <2>3 DEF IsFree
  <1>. QED
    BY <1>1, <1>2, <1>4, <1>5, <1>6, <1>9, <1>10 DEF f

\* Block p keeps its argument, its window, its place in the stream and its data.
SameStream(p) ==
    /\ pcb'[p].arg = pcb[p].arg /\ pcb'[p].wnd = pcb[p].wnd
    /\ pcb'[p].next = pcb[p].next /\ pcb'[p].refused = pcb[p].refused

\* listen and connect tell a UDP block its entry.
LEMMA OpenUdpEffect ==
    ASSUME ServerInv, NEW c \in Clients, NEW id,
           NEW state \in {"UDP_BOUND", "UDP_CONNECTED"}, open_udp(c, id, state)
    PROVE  LET p == connections[id].pcb
           IN  /\ id \in Sockets /\ p \in UdpPcbs /\ OnlyBlock(p)
               /\ pcb'[p].state \in {"UDP_BOUND", "UDP_CONNECTED"}
               /\ pcb'[p].arg = id /\ pcb'[p].refused = pcb[p].refused
               /\ UNCHANGED <<connections, last_guid, queue, buf, next_read>>
  <1>. DEFINE p == connections[id].pcb
              x == [pcb[p] EXCEPT !.arg = id, !.state =
                       IF @ = "UDP_CONNECTED" THEN @ ELSE state]
  <1>1. id \in Sockets /\ connections[id] \in GoodEntries
    BY OwnedEntry DEF open_udp
  <1>2. p \in UdpPcbs /\ p \in Pcbs /\ p \notin TcpPcbs /\ p \notin ListenPcbs
    BY <1>1, PoolsAssumption DEF open_udp, get_udp_pcb, GoodEntries, Pcbs
  <1>3. pcb[p] \in Blocks /\ pcb[p] \in GoodBlocks(p)
    BY <1>2 DEF ServerInv
  <1>4. /\ x \in Blocks /\ x.arg = id /\ x.refused = pcb[p].refused
        /\ x.state \in {"UDP_BOUND", "UDP_CONNECTED"}
    BY <1>1, <1>3 DEF Blocks, PcbStates
  <1>5. pcb' = [pcb EXCEPT ![p] = x]
    BY <1>2, <1>3 DEF open_udp, get_udp_pcb, ServerInv
  <1>6. pcb[p].refused = NULL
    BY <1>2, <1>3 DEF GoodBlocks
  <1>. HIDE DEF x
  <1>7. x \in GoodBlocks(p)
    BY <1>2, <1>4, <1>6 DEF GoodBlocks
  <1>8. OnlyBlock(p) /\ pcb'[p] = x
    BY <1>2, <1>4, <1>5, <1>7 DEF OnlyBlock, ServerInv
  <1>9. UNCHANGED <<connections, last_guid, queue, buf, next_read>>
    BY DEF open_udp
  <1>. QED
    BY <1>1, <1>2, <1>4, <1>8, <1>9

\* connect starts a handshake and leaves the block's argument, which is that of a
\* new block.
LEMMA ConnectEffect ==
    ASSUME ServerInv, NEW c \in Clients, NEW id, connect_tcp(c, id)
    PROVE  LET p == connections[id].pcb
           IN  /\ "connect" \in Env \/ id = 0
               /\ {"connect", "connect_0"} \cap Env # {}
               /\ id \in Sockets /\ p \in TcpPcbs /\ OnlyBlock(p)
               /\ pcb[p].state = "CLOSED" /\ pcb'[p].state = "SYN_SENT"
               /\ SameStream(p) /\ pcb'[p].arg = 0
               /\ UNCHANGED <<connections, last_guid, queue, buf, next_read>>
  <1>. DEFINE p == connections[id].pcb
              x == [pcb[p] EXCEPT !.state = "SYN_SENT"]
  <1>1. id \in Sockets /\ connections[id] \in GoodEntries
    BY OwnedEntry DEF connect_tcp
  <1>2. p \in TcpPcbs \cup ListenPcbs /\ p \in Pcbs /\ pcb[p].state = "CLOSED"
    BY <1>1 DEF connect_tcp, get_tcp_pcb, GoodEntries, Pcbs
  <1>3. pcb[p] \in Blocks /\ pcb[p] \in GoodBlocks(p)
    BY <1>2 DEF ServerInv
  <1>4. p \in TcpPcbs /\ p \notin ListenPcbs /\ p \notin UdpPcbs
    BY <1>2, <1>3, PoolsAssumption DEF GoodBlocks
  <1>5. /\ x \in Blocks /\ x.state = "SYN_SENT" /\ x.arg = pcb[p].arg
        /\ x.wnd = pcb[p].wnd /\ x.next = pcb[p].next /\ x.refused = pcb[p].refused
    BY <1>3 DEF Blocks, PcbStates, TcpStates, Eventful
  <1>6. pcb' = [pcb EXCEPT ![p] = x]
    BY <1>2, <1>3 DEF connect_tcp, get_tcp_pcb, ServerInv
  <1>. HIDE DEF x
  <1>7. x \in GoodBlocks(p)
    BY <1>2, <1>3, <1>4, <1>5 DEF GoodBlocks, TcpStates, Eventful
  <1>8. pcb[p].arg = 0
    BY <1>2, <1>3 DEF GoodBlocks
  <1>9. ("connect" \in Env \/ id = 0) /\ {"connect", "connect_0"} \cap Env # {}
    BY DEF connect_tcp
  <1>. QED
    BY <1>1, <1>2, <1>4, <1>5, <1>6, <1>7, <1>8, <1>9
    DEF OnlyBlock, SameStream, ServerInv, connect_tcp

\* A half-open connection has its listener's argument.
LEMMA SynEffect ==
    ASSUME ServerInv, NEW l \in ListenPcbs, Syn(l)
    PROVE  /\ UNCHANGED <<connections, last_guid, queue, buf, next_read>>
           /\ \E p \in TcpPcbs :
                 /\ pcb[p].state = "FREE" /\ OnlyBlock(p)
                 /\ pcb'[p].state = "SYN_RCVD" /\ pcb'[p].refused = NULL
  <1>1. PICK p \in TcpPcbs :
          /\ IsFree(p)
          /\ pcb' = [pcb EXCEPT ![p] =
                        [NewPcb("SYN_RCVD") EXCEPT !.arg = pcb[l].arg]]
    BY DEF Syn
  <1>. DEFINE x == [NewPcb("SYN_RCVD") EXCEPT !.arg = pcb[l].arg]
  <1>2. l \in Pcbs /\ p \in Pcbs /\ pcb[l].arg \in Sockets
    BY DEF Pcbs, ServerInv, Blocks
  <1>3. x \in Blocks /\ x \in GoodBlocks(p) /\ x.state = "SYN_RCVD"
        /\ x.refused = NULL
    BY <1>2, NewListenBlock
  <1>. HIDE DEF x
  <1>4. pcb[p].state = "FREE" /\ OnlyBlock(p) /\ pcb'[p] = x
    BY <1>1, <1>2, <1>3 DEF OnlyBlock, ServerInv, IsFree, x
  <1>. QED
    BY <1>3, <1>4 DEF Syn

\* The states a connection goes through while its entry stays as it is.
LEMMA ProgressEffect ==
    ASSUME ServerInv, NEW p \in TcpPcbs,
           HalfOpenLost(p) \/ Connected(p) \/ RecvFin(p) \/ CloseDone(p)
    PROVE  /\ UNCHANGED <<connections, last_guid, buf, next_read>>
           /\ OnlyBlock(p)
           /\ \/ /\ pcb[p].state \in {"SYN_RCVD", "CLOSING", "TIME_WAIT"}
                 /\ pcb'[p] = FreePcb
                 /\ UNCHANGED queue
              \/ /\ \/ pcb[p].state = "SYN_SENT" /\ pcb'[p].state = "ESTABLISHED"
                    \/ pcb[p].state = "ESTABLISHED" /\ pcb'[p].state = "CLOSE_WAIT"
                    \/ pcb[p].state = "CLOSING" /\ pcb'[p].state = "TIME_WAIT"
                 /\ SameStream(p)
                 /\ pcb[p].refused = NULL
                 /\ \E event \in {"XTCP_NEW_CONNECTION", "XTCP_CLOSED"} :
                       Post(connections[pcb[p].arg].client_num, pcb[p].arg, event)
  <1>1. p \in Pcbs /\ pcb[p] \in Blocks /\ pcb[p] \in GoodBlocks(p)
        /\ p \notin ListenPcbs /\ p \notin UdpPcbs
    BY PoolsAssumption DEF Pcbs, ServerInv
  <1>2. UNCHANGED <<connections, last_guid, buf, next_read>>
    BY DEF HalfOpenLost, Connected, RecvFin, CloseDone
  <1>3. CASE HalfOpenLost(p) \/ CloseDone(p)
    <2>1. pcb' = [pcb EXCEPT ![p] = FreePcb] /\ UNCHANGED queue
          /\ pcb[p].state \in {"SYN_RCVD", "CLOSING", "TIME_WAIT"}
      BY <1>3 DEF HalfOpenLost, CloseDone, PcbFreed
    <2>. QED
      BY <1>1, <1>2, <2>1, NewBlock DEF OnlyBlock, ServerInv
  <1>4. CASE Connected(p) \/ RecvFin(p)
    <2>1. PICK state \in {"ESTABLISHED", "CLOSE_WAIT", "TIME_WAIT"} :
             /\ \/ pcb[p].state = "SYN_SENT" /\ state = "ESTABLISHED"
                \/ pcb[p].state = "ESTABLISHED" /\ state = "CLOSE_WAIT"
                \/ pcb[p].state = "CLOSING" /\ state = "TIME_WAIT"
             /\ pcb' = [pcb EXCEPT ![p].state = state]
             /\ \E event \in {"XTCP_NEW_CONNECTION", "XTCP_CLOSED"} :
                   Post(connections[pcb[p].arg].client_num, pcb[p].arg, event)
             /\ pcb[p].refused = NULL
      BY <1>1, <1>4 DEF Connected, RecvFin, GoodBlocks
    <2>. DEFINE x == [pcb[p] EXCEPT !.state = state]
    <2>2. /\ x \in Blocks /\ x.state = state /\ x.arg = pcb[p].arg
          /\ x.wnd = pcb[p].wnd /\ x.next = pcb[p].next
          /\ x.refused = pcb[p].refused
      BY <1>1 DEF Blocks, PcbStates, TcpStates, Eventful, Synchronized
    <2>3. pcb' = [pcb EXCEPT ![p] = x]
      BY <1>1, <2>1
    <2>. HIDE DEF x
    <2>4. x \in GoodBlocks(p)
      BY <1>1, <2>1, <2>2 DEF GoodBlocks, TcpStates, Eventful, Synchronized
    <2>. QED
      BY <1>1, <1>2, <2>1, <2>2, <2>3, <2>4 DEF OnlyBlock, SameStream, ServerInv
  <1>. QED
    BY <1>3, <1>4

\* An accepted connection gets an entry, its block and its event; or, when the
\* event finds no room, neither entry nor block.
LEMMA AcceptEffect ==
    ASSUME ServerInv, NEW p \in TcpPcbs, Accept(p)
    PROVE  LET listener == connections[pcb[p].arg]
               c == listener.client_num
           IN  /\ pcb[p].state = "SYN_RCVD" /\ pcb[p].arg \in Sockets
               /\ listener.is_active /\ c \in Clients
               /\ last_guid' \in 0 .. MAX_OPEN_SOCKETS
               /\ UNCHANGED <<buf, next_read>>
               /\ OnlyBlock(p)
               /\ \E index \in Sockets :
                     /\ ~connections[index].is_active
                     /\ OnlyEntry(index)
                     /\ Post(c, index, "XTCP_ACCEPTED")
                     /\ \/ /\ Accepts(c)
                           /\ AssignedTo(index, c, XTCP_PROTOCOL_TCP)
                           /\ connections'[index].pcb = p
                           /\ pcb'[p].state = "ESTABLISHED" /\ pcb'[p].arg = index
                           /\ pcb'[p].wnd = pcb[p].wnd /\ pcb'[p].next = pcb[p].next
                           /\ pcb'[p].refused = pcb[p].refused
                        \/ /\ ~Accepts(c)
                           /\ Released(index, connections[index].pbuf)
                           /\ pcb'[p] = FreePcb
  <1>. DEFINE listener == connections[pcb[p].arg]
              c == listener.client_num
              index == AssignedIndex(connections, last_guid)
              e == assign_client_connection(connections[index], c, XTCP_PROTOCOL_TCP)
              conns == [connections EXCEPT ![index] = e]
              x == AcceptedPcb(pcb[p], index)
  <1>1. p \in Pcbs /\ pcb[p] \in Blocks /\ pcb[p] \in GoodBlocks(p)
        /\ p \notin ListenPcbs /\ p \notin UdpPcbs /\ pcb[p].arg \in Sockets
    BY PoolsAssumption DEF Pcbs, ServerInv, Blocks
  <1>2. /\ pcb[p].state = "SYN_RCVD" /\ HasFreeEntry(connections)
        /\ listener.protocol = XTCP_PROTOCOL_TCP
        /\ UNCHANGED <<buf, next_read>>
    BY DEF Accept, CanAccept
  <1>3. listener \in GoodEntries
    BY <1>1 DEF ServerInv
  <1>4. listener.is_active /\ c \in Clients /\ XTCP_PROTOCOL_TCP \in Protocols
    BY <1>2, <1>3 DEF GoodEntries, XTCP_PROTOCOL_TCP, XTCP_PROTOCOL_NONE
  <1>5. /\ index \in Sockets /\ ~connections[index].is_active
        /\ index + 1 \in 0 .. MAX_OPEN_SOCKETS
    BY <1>2, AssignedIndexFree DEF ServerInv
  <1>6. /\ last_guid' = index + 1
        /\ Post(c, index, "XTCP_ACCEPTED")
        /\ IF Accepts(c)
           THEN /\ connections' = [conns EXCEPT ![index].pcb = p]
                /\ pcb' = [pcb EXCEPT ![p] = x]
           ELSE /\ connections' = [conns EXCEPT
                                     ![index] = free_client_connection(@)]
                /\ pcb' = PcbFreed(p)
    BY DEF Accept, AssignedTable, get_client_info
  <1>7. /\ e \in GoodEntries /\ e.is_active /\ e.client_num = c
        /\ e.protocol = XTCP_PROTOCOL_TCP /\ e.pcb = NULL
        /\ e.pbuf = connections[index].pbuf
    BY <1>4, <1>5, AssignedEntry DEF ServerInv
  <1>8. /\ x \in Blocks /\ x.state = "ESTABLISHED" /\ x.arg = index
        /\ x.wnd = pcb[p].wnd /\ x.next = pcb[p].next /\ x.refused = pcb[p].refused
    BY <1>1, <1>5
    DEF AcceptedPcb, Blocks, PcbStates, TcpStates, Eventful, Synchronized
  <1>. DEFINE f == [e EXCEPT !.pcb = p]
              g == free_client_connection(e)
  <1>9. /\ f \in GoodEntries /\ f.is_active /\ f.client_num = c
        /\ f.protocol = XTCP_PROTOCOL_TCP /\ f.pcb = p
        /\ f.pbuf = connections[index].pbuf
    BY <1>1, <1>7, EntryWithPcb
  <1>10. /\ g \in GoodEntries /\ ~g.is_active /\ g.client_num = DEINIT
         /\ g.protocol = XTCP_PROTOCOL_NONE /\ g.pcb = NULL
         /\ g.client_data = NULL /\ g.pbuf = connections[index].pbuf
    BY <1>7, FreedEntry
  <1>. HIDE DEF x, e, index
  <1>11. x \in GoodBlocks(p)
    BY <1>1, <1>8 DEF GoodBlocks, TcpStates, Eventful, Synchronized
  <1>12. conns[index] = e
    BY <1>5 DEF ServerInv
  <1>13. ASSUME Accepts(c)
         PROVE  /\ OnlyEntry(index) /\ AssignedTo(index, c, XTCP_PROTOCOL_TCP)
                /\ connections'[index].pcb = p /\ OnlyBlock(p) /\ pcb'[p] = x
    <2>1. connections' = [connections EXCEPT ![index] = f]
      BY <1>5, <1>6, <1>12, <1>13 DEF ServerInv
    <2>2. pcb' = [pcb EXCEPT ![p] = x]
      BY <1>6, <1>13
    <2>. HIDE DEF f
    <2>3. OnlyEntry(index) /\ AssignedTo(index, c, XTCP_PROTOCOL_TCP)
          /\ connections'[index].pcb = p
      BY <1>5, <1>9, <2>1 DEF OnlyEntry, AssignedTo, ServerInv
    <2>. QED
      BY <1>1, <1>8, <1>11, <2>2, <2>3 DEF OnlyBlock, ServerInv
  <1>14. ASSUME ~Accepts(c)
         PROVE  /\ OnlyEntry(index) /\ Released(index, connections[index].pbuf)
                /\ OnlyBlock(p) /\ pcb'[p] = FreePcb
    <2>1. connections' = [connections EXCEPT ![index] = g]
      BY <1>5, <1>6, <1>12, <1>14 DEF ServerInv
    <2>2. pcb' = [pcb EXCEPT ![p] = FreePcb]
      BY <1>6, <1>14 DEF PcbFreed
    <2>. HIDE DEF g
    <2>3. OnlyEntry(index) /\ Released(index, connections[index].pbuf)
      BY <1>5, <1>10, <2>1 DEF OnlyEntry, Released, ServerInv
    <2>. QED
      BY <1>1, <2>2, <2>3, NewBlock, BlockUpdated
  <1>. QED
    BY <1>1, <1>2, <1>4, <1>5, <1>6, <1>8, <1>13, <1>14

\* A failed connection takes the entry of its argument with it.
LEMMA ErrEffect ==
    ASSUME ServerInv, NEW p \in TcpPcbs, NEW event \in ServerEvents,
           Err(p, event) \/ (event = "XTCP_ABORTED" /\ AcceptFails(p))
    PROVE  LET hit == pcb[p].arg
           IN  /\ \/ "errors" \in Env /\ pcb[p].state \in Eventful
                  \/ "overload" \in Env /\ pcb[p].state = "SYN_RCVD"
               /\ hit \in Sockets
               /\ OnlyEntry(hit) /\ Released(hit, connections[hit].pbuf)
               /\ OnlyBlock(p) /\ pcb'[p] = FreePcb
               /\ Post(connections[hit].client_num, hit, event)
               /\ Forget(hit)
               /\ buf' = RefusedFreed(p)
               /\ UNCHANGED last_guid
  <1>. DEFINE hit == pcb[p].arg
              g == free_client_connection(connections[hit])
  <1>1. p \in Pcbs /\ pcb[p] \in GoodBlocks(p) /\ hit \in Sockets
    BY DEF Pcbs, ServerInv, Blocks
  <1>2. /\ \/ "errors" \in Env /\ pcb[p].state \in Eventful
           \/ "overload" \in Env /\ pcb[p].state = "SYN_RCVD"
        /\ Post(connections[hit].client_num, hit, event)
        /\ connections' = [connections EXCEPT ![hit] = g]
        /\ Forget(hit)
        /\ pcb' = [pcb EXCEPT ![p] = FreePcb]
        /\ UNCHANGED last_guid
    BY DEF Err, AcceptFails, PcbFreed
  <1>3. buf' = RefusedFreed(p)
    <2>1. CASE Err(p, event)
      BY <2>1 DEF Err
    <2>2. CASE AcceptFails(p)
      <3>1. pcb[p].refused = NULL /\ NULL \notin Pbufs /\ buf' = buf
        BY <1>1, <2>2, PoolsAssumption DEF AcceptFails, GoodBlocks
      <3>. QED
        BY <3>1 DEF RefusedFreed, ServerInv
    <2>. QED
      BY <2>1, <2>2
  <1>4. /\ g \in GoodEntries /\ ~g.is_active /\ g.client_num = DEINIT
        /\ g.protocol = XTCP_PROTOCOL_NONE /\ g.pcb = NULL
        /\ g.client_data = NULL /\ g.pbuf = connections[hit].pbuf
    BY <1>1, FreedEntry DEF ServerInv
  <1>5. OnlyEntry(hit) /\ Released(hit, connections[hit].pbuf)
    <2>. HIDE DEF g
    <2>. QED
      BY <1>1, <1>2, <1>4 DEF OnlyEntry, Released, ServerInv
  <1>6. OnlyBlock(p) /\ pcb'[p] = FreePcb
    BY <1>1, <1>2, NewBlock DEF OnlyBlock, ServerInv
  <1>. QED
    BY <1>1, <1>2, <1>3, <1>5, <1>6

\* Entry i stays its client's, for the same connection.
SameOwner(i) ==
    /\ connections'[i].is_active = connections[i].is_active
    /\ connections'[i].client_num = connections[i].client_num
    /\ connections'[i].protocol = connections[i].protocol
    /\ connections'[i].pcb = connections[i].pcb

\* Sending data, and hearing that it has arrived, is about nothing else.
LEMMA SendEffect ==
    ASSUME ServerInv, NEW p,
           \/ \E c \in Clients, id \in Sockets :
                 p = connections[id].pcb /\ send_tcp(c, id)
           \/ p \in TcpPcbs /\ Sent(p)
    PROVE  /\ UNCHANGED <<connections, last_guid, buf, next_read>>
           /\ p \in Pcbs /\ OnlyBlock(p) /\ SameStream(p)
           /\ pcb'[p].state = pcb[p].state
           /\ \/ UNCHANGED queue
              \/ /\ pcb[p].state \in Synchronized \cup {"CLOSING"}
                 /\ pcb[p].arg \in Sockets
                 /\ Post(connections[pcb[p].arg].client_num, pcb[p].arg,
                         "XTCP_SENT_DATA")
  <1>1. p \in Pcbs /\ UNCHANGED <<connections, last_guid, buf, next_read>>
        /\ \E u \in BOOLEAN : pcb' = [pcb EXCEPT ![p].unacked = u]
    <2>1. ASSUME NEW c \in Clients, NEW id \in Sockets, send_tcp(c, id),
                 p = connections[id].pcb
          PROVE  <1>1
      <3>1. /\ p # NULL /\ pcb' = [pcb EXCEPT ![p].unacked = TRUE]
            /\ UNCHANGED <<connections, last_guid, buf, next_read>>
        BY <2>1 DEF send_tcp, get_tcp_pcb
      <3>2. p \in Pcbs
        BY <2>1, <3>1 DEF ServerInv, GoodEntries, Entries
      <3>. QED
        BY <3>1, <3>2
    <2>2. ASSUME p \in TcpPcbs, Sent(p)
          PROVE  <1>1
      BY <2>2 DEF Sent, Pcbs
    <2>. QED
      BY <2>1, <2>2
  <1>2. PICK u \in BOOLEAN : pcb' = [pcb EXCEPT ![p].unacked = u]
    BY <1>1
  <1>. DEFINE x == [pcb[p] EXCEPT !.unacked = u]
  <1>3. pcb[p] \in Blocks /\ pcb[p] \in GoodBlocks(p)
        /\ pcb' = [pcb EXCEPT ![p] = x]
    BY <1>1, <1>2 DEF ServerInv
  <1>4. /\ x \in Blocks /\ x.state = pcb[p].state /\ x.arg = pcb[p].arg
        /\ x.wnd = pcb[p].wnd /\ x.next = pcb[p].next /\ x.refused = pcb[p].refused
    BY <1>3 DEF Blocks
  <1>. HIDE DEF x
  <1>5. x \in GoodBlocks(p)
    BY <1>3, <1>4 DEF GoodBlocks
  <1>6. OnlyBlock(p) /\ pcb'[p] = x
    BY <1>1, <1>3, <1>4, <1>5 DEF OnlyBlock, ServerInv
  <1>7. \/ UNCHANGED queue
        \/ /\ pcb[p].state \in Synchronized \cup {"CLOSING"}
           /\ Post(connections[pcb[p].arg].client_num, pcb[p].arg, "XTCP_SENT_DATA")
    BY DEF send_tcp, Sent
  <1>8. pcb[p].arg \in Sockets
    BY <1>3 DEF Blocks
  <1>. QED
    BY <1>1, <1>4, <1>6, <1>7, <1>8 DEF SameStream

\* Reading takes the first buffer of an entry's list.
LEMMA RecvEffect ==
    ASSUME ServerInv, NEW c \in Clients, NEW id, recv(c, id)
    PROVE  LET p == get_tcp_pcb(connections, id)
               s == connections[id].pbuf
           IN  /\ id \in Sockets /\ connections[id].is_active
               /\ MemoryIntact /\ s \in Seq(Pbufs) /\ s # <<>>
               /\ OnlyEntry(id) /\ SameOwner(id) /\ connections'[id].pbuf = Tail(s)
               /\ pcb' \in [Pcbs -> Blocks]
               /\ \A q \in Pcbs :
                     /\ pcb'[q] \in GoodBlocks(q)
                     /\ pcb'[q].state = pcb[q].state /\ pcb'[q].arg = pcb[q].arg
                     /\ pcb'[q].next = pcb[q].next
                     /\ pcb'[q].refused = pcb[q].refused
                     /\ pcb'[q].wnd = IF q = p THEN tcp_recved(pcb[q].wnd)
                                              ELSE pcb[q].wnd
               /\ Head(s) \in Pbufs /\ buf' = [buf EXCEPT ![Head(s)] = FreeBuf]
               /\ next_read' = IF p = NULL THEN next_read
                               ELSE [next_read EXCEPT
                                       ![id] = (next_read[id] + 1) % SEQ_NUMBERS]
               /\ UNCHANGED <<last_guid, queue>>
  <1>. DEFINE p == get_tcp_pcb(connections, id)
              entry == connections[id]
              s == entry.pbuf
              e == [entry EXCEPT !.pbuf = Tail(s)]
  <1>1. id \in Sockets /\ entry \in GoodEntries /\ entry.is_active
    BY OwnedEntry DEF recv
  <1>2. /\ MemoryIntact /\ s # <<>> /\ s \in Seq(Pbufs)
        /\ pcb' = IF p = NULL THEN pcb ELSE [pcb EXCEPT ![p].wnd = tcp_recved(@)]
        /\ connections' = [connections EXCEPT ![id] = e]
        /\ buf' = [buf EXCEPT ![Head(s)] = FreeBuf]
        /\ next_read' = IF p = NULL THEN next_read
                        ELSE [next_read EXCEPT
                                ![id] = (next_read[id] + 1) % SEQ_NUMBERS]
        /\ UNCHANGED <<last_guid, queue>>
    BY <1>1 DEF recv, free_remote_data, GoodEntries, Entries
  <1>3. Head(s) \in Pbufs /\ Tail(s) \in Seq(Pbufs)
    BY <1>2, HeadTailProperties
  <1>4. e \in GoodEntries /\ e.is_active = entry.is_active
        /\ e.client_num = entry.client_num /\ e.protocol = entry.protocol
        /\ e.pcb = entry.pcb /\ e.pbuf = Tail(s)
    BY <1>1, <1>3, EntryWithList
  <1>5. OnlyEntry(id) /\ SameOwner(id) /\ connections'[id].pbuf = Tail(s)
    <2>. HIDE DEF e
    <2>. QED
      BY <1>1, <1>2, <1>4 DEF OnlyEntry, SameOwner, ServerInv
  <1>. DEFINE SameButWindow ==
        /\ pcb' \in [Pcbs -> Blocks]
        /\ \A q \in Pcbs :
              /\ pcb'[q] \in GoodBlocks(q)
              /\ pcb'[q].state = pcb[q].state /\ pcb'[q].arg = pcb[q].arg
              /\ pcb'[q].next = pcb[q].next
              /\ pcb'[q].refused = pcb[q].refused
              /\ pcb'[q].wnd = IF q = p THEN tcp_recved(pcb[q].wnd) ELSE pcb[q].wnd
  <1>6. p \in Pcbs \cup {NULL} /\ NULL \notin Pcbs
    BY <1>1, PoolsAssumption DEF get_tcp_pcb, GoodEntries, Entries, Pcbs
  <1>. HIDE DEF p
  <1>7. CASE p = NULL
    <2>1. SameButWindow
      BY <1>2, <1>6, <1>7 DEF ServerInv
    <2>. QED
      BY <1>1, <1>2, <1>3, <1>5, <2>1 DEF p
  <1>8. CASE p # NULL
    <2>. DEFINE x == [pcb[p] EXCEPT !.wnd = tcp_recved(pcb[p].wnd)]
    <2>1. p \in Pcbs /\ pcb[p] \in Blocks /\ pcb[p] \in GoodBlocks(p)
      BY <1>6, <1>8 DEF ServerInv
    <2>2. tcp_recved(pcb[p].wnd) \in 0 .. TCP_WND
          /\ (pcb[p].wnd = 0 => tcp_recved(pcb[p].wnd) = 0)
      BY <2>1, PoolsAssumption DEF Blocks, tcp_recved
    <2>3. /\ x \in Blocks /\ x.state = pcb[p].state /\ x.arg = pcb[p].arg
          /\ x.wnd = tcp_recved(pcb[p].wnd) /\ x.next = pcb[p].next
          /\ x.refused = pcb[p].refused
      BY <2>1, <2>2 DEF Blocks
    <2>4. pcb' = [pcb EXCEPT ![p] = x]
      BY <1>2, <1>8, <2>1 DEF ServerInv
    <2>. HIDE DEF x
    <2>5. x \in GoodBlocks(p)
      BY <2>1, <2>2, <2>3 DEF GoodBlocks
    <2>6. SameButWindow
      BY <2>1, <2>3, <2>4, <2>5 DEF ServerInv
    <2>. QED
      BY <1>1, <1>2, <1>3, <1>5, <2>6 DEF p
  <1>. QED
    BY <1>7, <1>8

\* The next segment of a stream is put on the list of the block's entry, or kept
\* by the block.
LEMMA RecvDataEffect ==
    ASSUME ServerInv, NEW p \in TcpPcbs, RecvData(p)
    PROVE  LET index == pcb[p].arg
               c == connections[index].client_num
           IN  /\ MemoryIntact /\ index \in Sockets
               /\ pcb[p].state = "ESTABLISHED" /\ pcb[p].refused = NULL
               /\ OnlyEntry(index) /\ SameOwner(index)
               /\ Post(c, index, "XTCP_RECV_DATA")
               /\ OnlyBlock(p)
               /\ pcb'[p].state = pcb[p].state /\ pcb'[p].arg = index
               /\ pcb'[p].wnd = pcb[p].wnd + 1
               /\ pcb'[p].next = (pcb[p].next + 1) % SEQ_NUMBERS
               /\ \E b \in Pbufs :
                     /\ buf[b] = FreeBuf
                     /\ buf' = [buf EXCEPT ![b] = [src |-> p, seq |-> pcb[p].next]]
                     /\ \/ /\ Accepts(c) /\ pcb'[p].refused = NULL
                           /\ connections'[index].pbuf =
                                 Append(connections[index].pbuf, b)
                        \/ /\ ~Accepts(c) /\ pcb'[p].refused = b
                           /\ connections'[index].pbuf = connections[index].pbuf
               /\ UNCHANGED <<last_guid, next_read>>
  <1>. DEFINE index == pcb[p].arg
              entry == connections[index]
              c == entry.client_num
  <1>1. p \in Pcbs /\ pcb[p] \in Blocks /\ pcb[p] \in GoodBlocks(p)
        /\ p \notin ListenPcbs /\ p \notin UdpPcbs /\ index \in Sockets
    BY PoolsAssumption DEF Pcbs, ServerInv, Blocks
  <1>2. entry \in GoodEntries /\ entry.pbuf \in Seq(Pbufs)
    BY <1>1 DEF ServerInv, GoodEntries, Entries
  <1>3. /\ MemoryIntact /\ pcb[p].state = "ESTABLISHED" /\ pcb[p].refused = NULL
        /\ pcb[p].wnd < TCP_WND /\ UNCHANGED <<last_guid, next_read>>
    BY DEF RecvData
  <1>4. PICK b \in Pbufs :
          /\ buf[b] = FreeBuf
          /\ buf' = [buf EXCEPT ![b] = [src |-> p, seq |-> pcb[p].next]]
          /\ Deliver(p, b)
          /\ pcb' = [pcb EXCEPT ![p].wnd = @ + 1,
                       ![p].next = (@ + 1) % SEQ_NUMBERS,
                       ![p].refused = IF Accepts(c) THEN NULL ELSE b]
    BY DEF RecvData
  <1>. DEFINE t == IF Accepts(c) THEN Append(entry.pbuf, b) ELSE entry.pbuf
              r == IF Accepts(c) THEN NULL ELSE b
              e == [entry EXCEPT !.pbuf = t]
              x == [pcb[p] EXCEPT !.wnd = @ + 1, !.next = (@ + 1) % SEQ_NUMBERS,
                                  !.refused = r]
  <1>5. Post(c, index, "XTCP_RECV_DATA") /\ t \in Seq(Pbufs)
        /\ connections' = [connections EXCEPT ![index] = e]
    <2>1. \A k \in 1 .. Len(entry.pbuf) : entry.pbuf[k] # b
      BY <1>1, <1>2, <1>3, <1>4 DEF MemoryIntact
    <2>2. RemoveFirst(Append(entry.pbuf, b), b) = entry.pbuf
          /\ Append(entry.pbuf, b) \in Seq(Pbufs)
      <3>. HIDE DEF entry
      <3>1. RemoveFirst(Append(entry.pbuf, b), b) = entry.pbuf
        BY <1>2, <2>1, Unlinked
      <3>2. Append(entry.pbuf, b) \in Seq(Pbufs)
        BY <1>2, AppendProperties
      <3>. QED
        BY <3>1, <3>2
    <2>3. set_remote(entry, b) = [entry EXCEPT !.pbuf = Append(entry.pbuf, b)]
      BY DEF set_remote
    <2>4. unlink_remote(set_remote(entry, b), b) = [entry EXCEPT !.pbuf = entry.pbuf]
      BY <1>2, <2>2 DEF set_remote, unlink_remote, GoodEntries, Entries
    <2>. QED
      BY <1>2, <1>4, <2>2, <2>3, <2>4 DEF Deliver
  <1>6. e \in GoodEntries /\ e.is_active = entry.is_active
        /\ e.client_num = entry.client_num /\ e.protocol = entry.protocol
        /\ e.pcb = entry.pcb /\ e.pbuf = t
    BY <1>2, <1>5, EntryWithList
  <1>7. OnlyEntry(index) /\ SameOwner(index) /\ connections'[index].pbuf = t
    <2>. HIDE DEF e
    <2>. QED
      BY <1>1, <1>5, <1>6 DEF OnlyEntry, SameOwner, ServerInv
  <1>8. /\ pcb[p].wnd + 1 \in 0 .. TCP_WND
        /\ (pcb[p].next + 1) % SEQ_NUMBERS \in 0 .. SEQ_NUMBERS - 1
    BY <1>1, <1>3, PoolsAssumption DEF Blocks
  <1>9. /\ x \in Blocks /\ x.state = "ESTABLISHED" /\ x.arg = index
        /\ x.wnd = pcb[p].wnd + 1 /\ x.next = (pcb[p].next + 1) % SEQ_NUMBERS
        /\ x.refused = r
    BY <1>1, <1>3, <1>8 DEF Blocks
  <1>10. pcb' = [pcb EXCEPT ![p] = x]
    BY <1>1, <1>4 DEF ServerInv
  <1>. HIDE DEF x, t
  <1>11. x \in GoodBlocks(p)
    BY <1>1, <1>9 DEF GoodBlocks, TcpStates, Eventful, Synchronized
  <1>12. OnlyBlock(p) /\ pcb'[p] = x
    BY <1>1, <1>9, <1>10, <1>11, BlockUpdated
  <1>. QED
    BY <1>1, <1>3, <1>4, <1>5, <1>7, <1>9, <1>12, Zenon DEF t

\* Refused data is put on the list of the block's entry after all.
LEMMA RetryEffect ==
    ASSUME ServerInv, NEW p \in TcpPcbs, RetryRefused(p)
    PROVE  LET index == pcb[p].arg
               c == connections[index].client_num
               b == pcb[p].refused
           IN  /\ MemoryIntact /\ index \in Sockets /\ b \in Pbufs
               /\ pcb[p].state \in Synchronized
               /\ Accepts(c)
               /\ OnlyEntry(index) /\ SameOwner(index)
               /\ connections'[index].pbuf = Append(connections[index].pbuf, b)
               /\ Post(c, index, "XTCP_RECV_DATA")
               /\ OnlyBlock(p)
               /\ pcb'[p].state = pcb[p].state /\ pcb'[p].arg = index
               /\ pcb'[p].wnd = pcb[p].wnd /\ pcb'[p].next = pcb[p].next
               /\ pcb'[p].refused = NULL
               /\ UNCHANGED <<last_guid, buf, next_read>>
  <1>. DEFINE index == pcb[p].arg
              entry == connections[index]
              c == entry.client_num
              b == pcb[p].refused
              e == [entry EXCEPT !.pbuf = Append(entry.pbuf, b)]
              x == [pcb[p] EXCEPT !.refused = NULL]
  <1>1. p \in Pcbs /\ pcb[p] \in Blocks /\ pcb[p] \in GoodBlocks(p)
        /\ index \in Sockets
    BY DEF Pcbs, ServerInv, Blocks
  <1>2. entry \in GoodEntries /\ entry.pbuf \in Seq(Pbufs)
    BY <1>1 DEF ServerInv, GoodEntries, Entries
  <1>3. /\ MemoryIntact /\ pcb[p].state \in Synchronized /\ b # NULL
        /\ Accepts(c) /\ Deliver(p, b)
        /\ pcb' = [pcb EXCEPT ![p].refused = NULL]
        /\ UNCHANGED <<last_guid, buf, next_read>>
    BY DEF RetryRefused
  <1>4. b \in Pbufs /\ Append(entry.pbuf, b) \in Seq(Pbufs)
    BY <1>1, <1>2, <1>3, AppendProperties DEF Blocks
  <1>5. Post(c, index, "XTCP_RECV_DATA")
        /\ connections' = [connections EXCEPT ![index] = e]
    BY <1>3 DEF Deliver, set_remote
  <1>6. e \in GoodEntries /\ e.is_active = entry.is_active
        /\ e.client_num = entry.client_num /\ e.protocol = entry.protocol
        /\ e.pcb = entry.pcb /\ e.pbuf = Append(entry.pbuf, b)
    BY <1>2, <1>4, EntryWithList
  <1>7. OnlyEntry(index) /\ SameOwner(index)
        /\ connections'[index].pbuf = Append(entry.pbuf, b)
    <2>. HIDE DEF e
    <2>. QED
      BY <1>1, <1>5, <1>6 DEF OnlyEntry, SameOwner, ServerInv
  <1>8. /\ x \in Blocks /\ x.state = pcb[p].state /\ x.arg = index
        /\ x.wnd = pcb[p].wnd /\ x.next = pcb[p].next /\ x.refused = NULL
    BY <1>1 DEF Blocks
  <1>9. pcb' = [pcb EXCEPT ![p] = x]
    BY <1>1, <1>3 DEF ServerInv
  <1>. HIDE DEF x
  <1>10. x \in GoodBlocks(p)
    BY <1>1, <1>8 DEF GoodBlocks
  <1>11. OnlyBlock(p) /\ pcb'[p] = x
    BY <1>1, <1>8, <1>9, <1>10, BlockUpdated
  <1>. QED
    BY <1>1, <1>3, <1>4, <1>5, <1>7, <1>8, <1>11

\* A datagram is put on the list of the block's entry; its buffer is freed again
\* when the event finds no room.
LEMMA DatagramEffect ==
    ASSUME ServerInv, NEW p \in UdpPcbs, xtcp_udp_recv(p)
    PROVE  LET index == pcb[p].arg
               c == connections[index].client_num
           IN  /\ MemoryIntact /\ index \in Sockets
               /\ pcb[p].state \in {"UDP_BOUND", "UDP_CONNECTED"}
               /\ OnlyEntry(index) /\ SameOwner(index)
               /\ \E event \in {"XTCP_RECV_DATA", "XTCP_RECV_FROM_DATA"} :
                     Post(c, index, event)
               /\ \E b \in Pbufs :
                     /\ buf[b] = FreeBuf
                     /\ connections'[index].pbuf = Append(connections[index].pbuf, b)
                     /\ buf' = IF Accepts(c)
                               THEN [buf EXCEPT ![b] = [src |-> p, seq |-> 0]]
                               ELSE buf
               /\ UNCHANGED <<last_guid, pcb, next_read>>
  <1>. DEFINE index == pcb[p].arg
              entry == connections[index]
              c == entry.client_num
  <1>1. p \in Pcbs /\ index \in Sockets
    BY DEF Pcbs, ServerInv, Blocks
  <1>2. entry \in GoodEntries /\ entry.pbuf \in Seq(Pbufs)
    BY <1>1 DEF ServerInv, GoodEntries, Entries
  <1>3. /\ MemoryIntact /\ pcb[p].state \in {"UDP_BOUND", "UDP_CONNECTED"}
        /\ UNCHANGED <<last_guid, pcb, next_read>>
    BY DEF xtcp_udp_recv
  <1>4. PICK b \in Pbufs :
          /\ buf[b] = FreeBuf
          /\ connections' = [connections EXCEPT ![index] = set_remote(@, b)]
          /\ Post(c, index, IF pcb[p].state = "UDP_CONNECTED"
                            THEN "XTCP_RECV_DATA" ELSE "XTCP_RECV_FROM_DATA")
          /\ buf' = IF Accepts(c)
                    THEN [buf EXCEPT ![b] = [src |-> p, seq |-> 0]]
                    ELSE buf
    BY DEF xtcp_udp_recv
  <1>5. \E event \in {"XTCP_RECV_DATA", "XTCP_RECV_FROM_DATA"} : Post(c, index, event)
    BY <1>4
  <1>. DEFINE e == [entry EXCEPT !.pbuf = Append(entry.pbuf, b)]
  <1>6. connections' = [connections EXCEPT ![index] = e]
    BY <1>4 DEF set_remote
  <1>7. e \in GoodEntries /\ e.is_active = entry.is_active
        /\ e.client_num = entry.client_num /\ e.protocol = entry.protocol
        /\ e.pcb = entry.pcb /\ e.pbuf = Append(entry.pbuf, b)
    <2>. HIDE DEF entry
    <2>1. Append(entry.pbuf, b) \in Seq(Pbufs)
      BY <1>2, AppendProperties
    <2>. QED
      BY <1>2, <2>1, EntryWithList
  <1>8. OnlyEntry(index) /\ SameOwner(index)
        /\ connections'[index].pbuf = Append(entry.pbuf, b)
    <2>. HIDE DEF e
    <2>. QED
      BY <1>1, <1>6, <1>7 DEF OnlyEntry, SameOwner, ServerInv
  <1>. QED
    BY <1>1, <1>3, <1>4, <1>5, <1>8

\* Client data concerns its entry only.
LEMMA ClientDataEffect ==
    ASSUME ServerInv, NEW c \in Clients, NEW id, NEW data \in ClientData,
           set_connection_client_data(c, id, data)
    PROVE  /\ id \in Sockets /\ OnlyEntry(id) /\ SameOwner(id)
           /\ connections'[id].pbuf = connections[id].pbuf
           /\ UNCHANGED <<last_guid, queue, pcb, buf, next_read>>
  <1>. DEFINE e == [connections[id] EXCEPT !.client_data = data]
  <1>1. id \in Sockets /\ connections[id] \in GoodEntries /\ connections[id].is_active
    BY OwnedEntry DEF set_connection_client_data
  <1>2. /\ connections' = [connections EXCEPT ![id] = e]
        /\ UNCHANGED <<last_guid, queue, pcb, buf, next_read>>
    BY <1>1 DEF set_connection_client_data, ServerInv
  <1>3. /\ e \in GoodEntries /\ e.is_active = connections[id].is_active
        /\ e.client_num = connections[id].client_num
        /\ e.protocol = connections[id].protocol /\ e.pcb = connections[id].pcb
        /\ e.pbuf = connections[id].pbuf
    BY <1>1, EntryWithData
  <1>4. OnlyEntry(id) /\ SameOwner(id)
        /\ connections'[id].pbuf = connections[id].pbuf
    <2>. HIDE DEF e
    <2>. QED
      BY <1>1, <1>2, <1>3 DEF OnlyEntry, SameOwner, ServerInv
  <1>. QED
    BY <1>1, <1>2, <1>4

-----------------------------------------------------------------------------
(* The invariant is inductive.                                             *)

\* The program starts in it.
LEMMA ServerInvInit == Init => ServerInv
  <1>. SUFFICES ASSUME Init PROVE ServerInv
    OBVIOUS
  <1>1. InitEntry \in GoodEntries /\ ~InitEntry.is_active
    <2>1. DEINIT \in ClientNums /\ <<>> \in Seq(Pbufs)
      BY SizesAssumption, EmptySeq DEF DEINIT, ClientNums
    <2>. QED
      BY <2>1 DEF InitEntry, GoodEntries, Entries, XTCP_PROTOCOL_NONE,
                  XTCP_PROTOCOL_UDP, XTCP_PROTOCOL_TCP
  <1>2. FreeBuf \in Buffers
    BY NewBlock DEF FreeBuf, Buffers
  <1>3. 0 \in 0 .. MAX_OPEN_SOCKETS
    BY SocketsAssumption
  <1>4. queue \in [Clients -> Seq(Event)]
        /\ \A c \in Clients : Len(queue[c]) <= CLIENT_QUEUE_SIZE
    <2>1. <<>> \in Seq(Event) /\ Len(<<>>) = 0 /\ 0 <= CLIENT_QUEUE_SIZE
      BY SizesAssumption, EmptySeq
    <2>. QED
      BY <2>1 DEF Init
  <1>. QED
    BY <1>1, <1>2, <1>3, <1>4, NewBlock DEF Init, ServerInv, init_client_connections

\* A step on one block leaves all blocks good.
LEMMA BlocksAfter ==
    ASSUME ServerInv, NEW p \in Pcbs, OnlyBlock(p)
    PROVE  pcb' \in [Pcbs -> Blocks] /\ \A q \in Pcbs : pcb'[q] \in GoodBlocks(q)
  BY DEF ServerInv, OnlyBlock

\* Freed buffers are buffers.
LEMMA BuffersAfter ==
    ASSUME ServerInv
    PROVE  /\ FreeBuf \in Buffers
           /\ \A p : RefusedFreed(p) \in [Pbufs -> Buffers]
           /\ \A S : [b \in Pbufs |-> IF b \in S THEN FreeBuf ELSE buf[b]]
                        \in [Pbufs -> Buffers]
  <1>1. FreeBuf \in Buffers
    BY NewBlock DEF FreeBuf, Buffers
  <1>. QED
    BY <1>1 DEF RefusedFreed, ServerInv

\* Forgetting the reading position of a released entry.
LEMMA ReadAfterRelease ==
    ASSUME ServerInv, NEW i \in Sockets, NEW j \in Sockets, Forget(i),
           ~connections[j].is_active,
           \A k \in Sockets : k \notin {i, j} => connections'[k] = connections[k]
    PROVE  /\ next_read' \in [Sockets -> 0 .. SEQ_NUMBERS - 1]
           /\ \A k \in Sockets : ~connections'[k].is_active => next_read'[k] = 0
  <1>1. next_read' = [next_read EXCEPT ![i] = 0]
    BY DEF Forget
  <1>2. next_read \in [Sockets -> 0 .. SEQ_NUMBERS - 1]
    BY DEF ServerInv
  <1>3. 0 \in 0 .. SEQ_NUMBERS - 1
    BY NewBlock
  <1>4. next_read' \in [Sockets -> 0 .. SEQ_NUMBERS - 1]
        /\ \A k \in Sockets : next_read'[k] = IF k = i THEN 0 ELSE next_read[k]
    BY <1>1, <1>2, <1>3
  <1>. QED
    BY <1>4 DEF ServerInv

\* Reading positions stay while no entry is released.
LEMMA ReadAfterAssign ==
    ASSUME ServerInv, UNCHANGED next_read, NEW i \in Sockets,
           \A k \in Sockets : k # i => connections'[k] = connections[k],
           ~connections[i].is_active \/ connections'[i].is_active
    PROVE  /\ next_read' \in [Sockets -> 0 .. SEQ_NUMBERS - 1]
           /\ \A k \in Sockets : ~connections'[k].is_active => next_read'[k] = 0
  BY DEF ServerInv

\* Every call of a client keeps the invariant.
LEMMA ServerInvClient ==
    ASSUME ServerInv, NEW c \in Clients, ClientCall(c)
    PROVE  ServerInv'
  <1>. DEFINE Read == /\ next_read' \in [Sockets -> 0 .. SEQ_NUMBERS - 1]
                      /\ \A k \in Sockets :
                            ~connections'[k].is_active => next_read'[k] = 0
  <1>. USE DEF Read
  <1>1. CASE get_event(c)
    <2>1. queue[c] \in Seq(Event) /\ queue[c] # <<>>
          /\ queue' = [queue EXCEPT ![c] = Tail(queue[c])]
          /\ UNCHANGED <<connections, last_guid, pcb, buf, next_read>>
      BY <1>1 DEF get_event, ServerInv
    <2>2. Tail(queue[c]) \in Seq(Event) /\ Len(Tail(queue[c])) = Len(queue[c]) - 1
          /\ Len(queue[c]) \in Nat
      BY <2>1, HeadTailProperties, LenProperties
    <2>3. queue' \in [Clients -> Seq(Event)]
          /\ \A d \in Clients : Len(queue'[d]) <= CLIENT_QUEUE_SIZE
      BY <2>1, <2>2, SizesAssumption DEF ServerInv
    <2>. QED
      BY <2>1, <2>3 DEF ServerInv
  <1>2. ASSUME NEW id, close(c, id)
        PROVE  ServerInv'
    <2>. DEFINE entry == connections[id]
    <2>1. /\ id \in Sockets /\ OnlyEntry(id)
          /\ queue' = [queue EXCEPT ![c] = Remaining(queue[c], id)]
          /\ pcb' \in [Pcbs -> Blocks] /\ \A q \in Pcbs : pcb'[q] \in GoodBlocks(q)
          /\ Forget(id) /\ UNCHANGED last_guid
          /\ connections[id].is_active
          /\ ~connections'[id].is_active
      BY <1>2, CloseEffect DEF Released
    <2>2. queue[c] \in Seq(Event) /\ Len(queue[c]) <= CLIENT_QUEUE_SIZE
      BY DEF ServerInv
    <2>3. Remaining(queue[c], id) \in Seq(Event)
          /\ Len(Remaining(queue[c], id)) <= Len(queue[c])
          /\ Len(Remaining(queue[c], id)) \in Nat /\ Len(queue[c]) \in Nat
      BY <2>2, RemainingCorrect, LenProperties
    <2>4. queue' \in [Clients -> Seq(Event)]
          /\ \A d \in Clients : Len(queue'[d]) <= CLIENT_QUEUE_SIZE
      BY <2>1, <2>2, <2>3, SizesAssumption DEF ServerInv
    <2>5. buf' \in [Pbufs -> Buffers]
      BY <1>2, BuffersAfter DEF close, ServerInv
    <2>6. Read
      <3>1. next_read' = [next_read EXCEPT ![id] = 0]
            /\ next_read \in [Sockets -> 0 .. SEQ_NUMBERS - 1]
        BY <2>1 DEF Forget, ServerInv
      <3>2. 0 \in 0 .. SEQ_NUMBERS - 1
        BY NewBlock
      <3>3. next_read' \in [Sockets -> 0 .. SEQ_NUMBERS - 1]
            /\ \A k \in Sockets : next_read'[k] = IF k = id THEN 0 ELSE next_read[k]
        BY <3>1, <3>2
      <3>. QED
        BY <2>1, <3>3 DEF OnlyEntry, ServerInv
    <2>. QED
      BY <2>1, <2>4, <2>5, <2>6 DEF ServerInv, OnlyEntry
  <1>3. ASSUME NEW id \in Sockets, send_tcp(c, id)
        PROVE  ServerInv'
    <2>. DEFINE p == connections[id].pcb
    <2>1. /\ UNCHANGED <<connections, last_guid, buf, next_read>>
          /\ p \in Pcbs /\ OnlyBlock(p)
      BY <1>3, SendEffect
    <2>2. UNCHANGED queue
      BY <1>3 DEF send_tcp
    <2>3. pcb' \in [Pcbs -> Blocks] /\ \A q \in Pcbs : pcb'[q] \in GoodBlocks(q)
      BY <2>1, BlocksAfter
    <2>. QED
      BY <2>1, <2>2, <2>3 DEF ServerInv
  <1>4. ASSUME NEW protocol, NEW pool, NEW state,
           \/ protocol = XTCP_PROTOCOL_UDP /\ pool = UdpPcbs /\ state = "UDP"
           \/ protocol = XTCP_PROTOCOL_TCP /\ pool = TcpPcbs /\ state = "CLOSED"
           \/ protocol = XTCP_PROTOCOL_NONE /\ pool = {},
           NewSocket(c, protocol, pool, state)
        PROVE  ServerInv'
    <2>1. /\ last_guid' \in 0 .. MAX_OPEN_SOCKETS /\ UNCHANGED <<queue, buf, next_read>>
          /\ \E index \in Sockets :
                 /\ OnlyEntry(index)
                 /\ ~connections[index].is_active
                 /\ (\E p \in Pcbs : OnlyBlock(p)) \/ UNCHANGED pcb
      <3>1. pool \subseteq Pcbs
        BY <1>4 DEF Pcbs
      <3>. QED
        BY <1>4, <3>1, NewSocketEffect DEF AssignedTo
    <2>2. PICK index \in Sockets : /\ OnlyEntry(index)
                                   /\ ~connections[index].is_active
                                   /\ (\E p \in Pcbs : OnlyBlock(p)) \/ UNCHANGED pcb
      BY <2>1
    <2>3. pcb' \in [Pcbs -> Blocks] /\ \A q \in Pcbs : pcb'[q] \in GoodBlocks(q)
      BY <2>2, BlocksAfter DEF ServerInv
    <2>4. Read
      BY <2>1, <2>2, ReadAfterAssign DEF OnlyEntry
    <2>. QED
      BY <2>1, <2>2, <2>3, <2>4 DEF ServerInv, OnlyEntry
  <1>5. CASE socket_tcp_kill(c)
    <2>1. PICK v \in Victims, index \in Sockets :
             /\ ~connections[index].is_active
             /\ \A j \in Sockets :
                   j \notin {index, pcb[v].arg} => connections'[j] = connections[j]
             /\ OnlyBlock(v)
             /\ buf' = RefusedFreed(v)
             /\ \/ OnlyEntry(index) /\ UNCHANGED <<queue, next_read>>
                \/ \E d : Forget(pcb[v].arg) /\ Post(d, pcb[v].arg, "XTCP_ABORTED")
      BY <1>5, KillEffect
    <2>2. last_guid' \in 0 .. MAX_OPEN_SOCKETS
          /\ connections' \in [Sockets -> GoodEntries]
      BY <1>5, KillEffect
    <2>3. v \in Pcbs /\ pcb[v].arg \in Sockets
      BY DEF Victims, Pcbs, ServerInv, Blocks
    <2>4. pcb' \in [Pcbs -> Blocks] /\ \A q \in Pcbs : pcb'[q] \in GoodBlocks(q)
      BY <2>1, <2>3, BlocksAfter
    <2>5. buf' \in [Pbufs -> Buffers]
      BY <2>1, BuffersAfter
    <2>6. Read
      <3>1. CASE OnlyEntry(index) /\ UNCHANGED next_read
        BY <2>1, <3>1, ReadAfterAssign DEF OnlyEntry
      <3>2. CASE Forget(pcb[v].arg)
        BY <2>1, <2>3, <3>2, ReadAfterRelease
      <3>. QED
        BY <2>1, <3>1, <3>2
    <2>7. queue' \in [Clients -> Seq(Event)]
          /\ \A d \in Clients : Len(queue'[d]) <= CLIENT_QUEUE_SIZE
      <3>1. "XTCP_ABORTED" \in ServerEvents
        BY DEF ServerEvents
      <3>2. ASSUME NEW d, Post(d, pcb[v].arg, "XTCP_ABORTED")
            PROVE  <2>7
        BY <2>3, <3>1, <3>2, PostType
      <3>3. CASE UNCHANGED queue
        BY <3>3 DEF ServerInv
      <3>. QED
        BY <2>1, <3>2, <3>3
    <2>. QED
      BY <2>2, <2>4, <2>5, <2>6, <2>7 DEF ServerInv
  <1>6. ASSUME NEW id, listen_tcp(c, id)
        PROVE  ServerInv'
    <2>. DEFINE p == connections[id].pcb
    <2>1. /\ id \in Sockets /\ p \in TcpPcbs
          /\ UNCHANGED <<last_guid, queue, buf, next_read>>
          /\ \E l \in ListenPcbs :
                /\ OnlyEntry(id) /\ connections'[id].is_active
                /\ pcb' \in [Pcbs -> Blocks]
                /\ \A q \in Pcbs : q \notin {p, l} => pcb'[q] = pcb[q]
                /\ pcb'[p] = FreePcb /\ pcb'[l] \in GoodBlocks(l)
      BY <1>6, ListenEffect
    <2>2. PICK l \in ListenPcbs :
                /\ OnlyEntry(id) /\ connections'[id].is_active
                /\ pcb' \in [Pcbs -> Blocks]
                /\ \A q \in Pcbs : q \notin {p, l} => pcb'[q] = pcb[q]
                /\ pcb'[p] = FreePcb /\ pcb'[l] \in GoodBlocks(l)
      BY <2>1
    <2>. HIDE DEF p
    <2>3. \A q \in Pcbs : pcb'[q] \in GoodBlocks(q)
      BY <2>1, <2>2, NewBlock DEF ServerInv
    <2>4. Read
      BY <2>1, <2>2, ReadAfterAssign DEF OnlyEntry
    <2>. QED
      BY <2>1, <2>2, <2>3, <2>4 DEF ServerInv, OnlyEntry
  <1>7. ASSUME NEW id, listen_udp(c, id) \/ connect_udp(c, id)
        PROVE  ServerInv'
    <2>1. PICK state \in {"UDP_BOUND", "UDP_CONNECTED"} : open_udp(c, id, state)
      BY <1>7 DEF listen_udp, connect_udp
    <2>2. /\ UNCHANGED <<connections, last_guid, queue, buf, next_read>>
          /\ connections[id].pcb \in Pcbs /\ OnlyBlock(connections[id].pcb)
      BY <2>1, OpenUdpEffect DEF Pcbs
    <2>3. pcb' \in [Pcbs -> Blocks] /\ \A q \in Pcbs : pcb'[q] \in GoodBlocks(q)
      BY <2>2, BlocksAfter
    <2>. QED
      BY <2>2, <2>3 DEF ServerInv
  <1>8. ASSUME NEW id, connect_tcp(c, id)
        PROVE  ServerInv'
    <2>1. /\ UNCHANGED <<connections, last_guid, queue, buf, next_read>>
          /\ connections[id].pcb \in Pcbs /\ OnlyBlock(connections[id].pcb)
      BY <1>8, ConnectEffect DEF Pcbs
    <2>2. pcb' \in [Pcbs -> Blocks] /\ \A q \in Pcbs : pcb'[q] \in GoodBlocks(q)
      BY <2>1, BlocksAfter
    <2>. QED
      BY <2>1, <2>2 DEF ServerInv
  <1>9. ASSUME NEW id, recv(c, id)
        PROVE  ServerInv'
    <2>. DEFINE p == get_tcp_pcb(connections, id)
                s == connections[id].pbuf
    <2>1. /\ id \in Sockets /\ connections[id].is_active
          /\ OnlyEntry(id) /\ SameOwner(id)
          /\ pcb' \in [Pcbs -> Blocks] /\ \A q \in Pcbs : pcb'[q] \in GoodBlocks(q)
          /\ Head(s) \in Pbufs /\ buf' = [buf EXCEPT ![Head(s)] = FreeBuf]
          /\ next_read' = IF p = NULL THEN next_read
                          ELSE [next_read EXCEPT
                                  ![id] = (next_read[id] + 1) % SEQ_NUMBERS]
          /\ UNCHANGED <<last_guid, queue>>
      BY <1>9, RecvEffect
    <2>2. buf' \in [Pbufs -> Buffers]
      BY <2>1, BuffersAfter DEF ServerInv
    <2>. HIDE DEF p, s
    <2>3. Read
      <3>1. (next_read[id] + 1) % SEQ_NUMBERS \in 0 .. SEQ_NUMBERS - 1
        BY <2>1, PoolsAssumption DEF ServerInv
      <3>2. next_read' \in [Sockets -> 0 .. SEQ_NUMBERS - 1]
            /\ \A k \in Sockets : k # id => next_read'[k] = next_read[k]
        BY <2>1, <3>1 DEF ServerInv
      <3>. QED
        BY <2>1, <3>2 DEF ServerInv, OnlyEntry, SameOwner
    <2>. QED
      BY <2>1, <2>2, <2>3 DEF ServerInv, OnlyEntry
  <1>10. ASSUME NEW id, NEW data \in ClientData,
                set_connection_client_data(c, id, data)
         PROVE  ServerInv'
    <2>1. /\ id \in Sockets /\ OnlyEntry(id) /\ SameOwner(id)
          /\ UNCHANGED <<last_guid, queue, pcb, buf, next_read>>
      BY <1>10, ClientDataEffect
    <2>2. Read
      BY <2>1 DEF ServerInv, OnlyEntry, SameOwner
    <2>. QED
      BY <2>1, <2>2 DEF ServerInv, OnlyEntry
  <1>. QED
    BY <1>1, <1>2, <1>3, <1>4, <1>5, <1>6, <1>7, <1>8, <1>9, <1>10
    DEF ClientCall, OtherCall, socket_udp, socket_none, socket_tcp, recvfrom

\* So does every callback.
LEMMA ServerInvCallback ==
    ASSUME ServerInv, Callback
    PROVE  ServerInv'
  <1>. DEFINE Read == /\ next_read' \in [Sockets -> 0 .. SEQ_NUMBERS - 1]
                      /\ \A k \in Sockets :
                            ~connections'[k].is_active => next_read'[k] = 0
              Queues == /\ queue' \in [Clients -> Seq(Event)]
                        /\ \A d \in Clients : Len(queue'[d]) <= CLIENT_QUEUE_SIZE
              Pool == /\ pcb' \in [Pcbs -> Blocks]
                      /\ \A q \in Pcbs : pcb'[q] \in GoodBlocks(q)
  <1>1. \A p \in TcpPcbs : p \in Pcbs /\ pcb[p].arg \in Sockets
    BY DEF Pcbs, ServerInv, Blocks
  <1>2. ASSUME NEW d, NEW i \in Sockets, NEW event \in ServerEvents,
               Post(d, i, event)
        PROVE  Queues
    BY <1>2, PostType
  <1>3. ASSUME NEW l \in ListenPcbs, Syn(l)
        PROVE  ServerInv'
    <2>1. /\ UNCHANGED <<connections, last_guid, queue, buf, next_read>>
          /\ \E p \in Pcbs : OnlyBlock(p)
      BY <1>1, <1>3, SynEffect
    <2>2. Pool
      BY <2>1, BlocksAfter
    <2>. QED
      BY <2>1, <2>2 DEF ServerInv
  <1>4. ASSUME NEW p \in TcpPcbs,
               HalfOpenLost(p) \/ Connected(p) \/ RecvFin(p) \/ CloseDone(p)
        PROVE  ServerInv'
    <2>1. /\ UNCHANGED <<connections, last_guid, buf, next_read>>
          /\ OnlyBlock(p)
          /\ \/ UNCHANGED queue
             \/ \E d : \E event \in ServerEvents : Post(d, pcb[p].arg, event)
      BY <1>4, ProgressEffect DEF ServerEvents
    <2>2. Pool
      BY <1>1, <2>1, BlocksAfter
    <2>3. Queues
      <3>1. CASE UNCHANGED queue
        BY <3>1 DEF ServerInv
      <3>. QED
        BY <1>1, <1>2, <2>1, <3>1
    <2>. QED
      BY <2>1, <2>2, <2>3 DEF ServerInv
  <1>5. ASSUME NEW p \in TcpPcbs, Accept(p)
        PROVE  ServerInv'
    <2>1. /\ last_guid' \in 0 .. MAX_OPEN_SOCKETS
          /\ UNCHANGED <<buf, next_read>> /\ OnlyBlock(p)
          /\ \E index \in Sockets :
                /\ ~connections[index].is_active
                /\ OnlyEntry(index)
                /\ \E d : Post(d, index, "XTCP_ACCEPTED")
      BY <1>5, AcceptEffect
    <2>2. PICK index \in Sockets :
                /\ ~connections[index].is_active
                /\ OnlyEntry(index)
                /\ \E d : Post(d, index, "XTCP_ACCEPTED")
      BY <2>1
    <2>3. Pool
      BY <1>1, <2>1, BlocksAfter
    <2>4. Queues
      BY <1>2, <2>2 DEF ServerEvents
    <2>5. Read
      BY <2>1, <2>2, ReadAfterAssign DEF OnlyEntry
    <2>. QED
      BY <2>1, <2>2, <2>3, <2>4, <2>5 DEF ServerInv, OnlyEntry
  <1>6. ASSUME NEW p \in TcpPcbs, NEW event \in ServerEvents,
               Err(p, event) \/ (event = "XTCP_ABORTED" /\ AcceptFails(p))
        PROVE  ServerInv'
    <2>. DEFINE hit == pcb[p].arg
    <2>1. /\ hit \in Sockets /\ OnlyEntry(hit) /\ OnlyBlock(p)
          /\ Released(hit, connections[hit].pbuf)
          /\ Post(connections[hit].client_num, hit, event)
          /\ Forget(hit) /\ buf' = RefusedFreed(p) /\ UNCHANGED last_guid
      BY <1>6, ErrEffect
    <2>2. Pool
      BY <1>1, <2>1, BlocksAfter
    <2>. HIDE DEF hit
    <2>3. Queues
      BY <1>2, <2>1
    <2>4. Read
      <3>1. next_read' = [next_read EXCEPT ![hit] = 0]
            /\ next_read \in [Sockets -> 0 .. SEQ_NUMBERS - 1]
        BY <2>1 DEF Forget, ServerInv
      <3>2. 0 \in 0 .. SEQ_NUMBERS - 1
        BY NewBlock
      <3>3. next_read' \in [Sockets -> 0 .. SEQ_NUMBERS - 1]
            /\ \A k \in Sockets : next_read'[k] = IF k = hit THEN 0 ELSE next_read[k]
        BY <3>1, <3>2
      <3>. QED
        BY <2>1, <3>3 DEF OnlyEntry, ServerInv
    <2>5. buf' \in [Pbufs -> Buffers]
      BY <2>1, BuffersAfter
    <2>. QED
      BY <2>1, <2>2, <2>3, <2>4, <2>5 DEF ServerInv, OnlyEntry
  <1>7. ASSUME NEW p \in TcpPcbs, RecvData(p) \/ RetryRefused(p)
        PROVE  ServerInv'
    <2>. DEFINE index == pcb[p].arg
    <2>1. /\ OnlyEntry(index) /\ SameOwner(index) /\ OnlyBlock(p)
          /\ Post(connections[index].client_num, index, "XTCP_RECV_DATA")
          /\ UNCHANGED <<last_guid, next_read>>
      BY <1>7, RecvDataEffect, RetryEffect
    <2>2. buf' \in [Pbufs -> Buffers]
      <3>1. CASE RecvData(p)
        <4>1. PICK b \in Pbufs :
                buf' = [buf EXCEPT ![b] = [src |-> p, seq |-> pcb[p].next]]
          BY <3>1 DEF RecvData
        <4>2. [src |-> p, seq |-> pcb[p].next] \in Buffers
          BY <1>1 DEF Buffers, ServerInv, Blocks
        <4>. QED
          BY <4>1, <4>2 DEF ServerInv
      <3>2. CASE RetryRefused(p)
        BY <3>2 DEF RetryRefused, ServerInv
      <3>. QED
        BY <1>7, <3>1, <3>2
    <2>3. Pool
      BY <1>1, <2>1, BlocksAfter
    <2>4. Queues
      BY <1>1, <1>2, <2>1 DEF ServerEvents
    <2>5. Read
      BY <1>1, <2>1 DEF ServerInv, OnlyEntry, SameOwner
    <2>. QED
      BY <2>1, <2>2, <2>3, <2>4, <2>5 DEF ServerInv, OnlyEntry
  <1>8. ASSUME NEW p \in TcpPcbs, Sent(p)
        PROVE  ServerInv'
    <2>1. /\ UNCHANGED <<connections, last_guid, buf, next_read>> /\ OnlyBlock(p)
          /\ Post(connections[pcb[p].arg].client_num, pcb[p].arg, "XTCP_SENT_DATA")
      BY <1>8, SendEffect DEF Sent
    <2>2. Pool
      BY <1>1, <2>1, BlocksAfter
    <2>3. Queues
      BY <1>1, <1>2, <2>1 DEF ServerEvents
    <2>. QED
      BY <2>1, <2>2, <2>3 DEF ServerInv
  <1>9. ASSUME NEW p \in UdpPcbs, xtcp_udp_recv(p)
        PROVE  ServerInv'
    <2>. DEFINE index == pcb[p].arg
                c == connections[index].client_num
    <2>1. /\ index \in Sockets /\ OnlyEntry(index) /\ SameOwner(index)
          /\ \E event \in {"XTCP_RECV_DATA", "XTCP_RECV_FROM_DATA"} :
                Post(c, index, event)
          /\ UNCHANGED <<last_guid, pcb, next_read>>
          /\ \E b \in Pbufs :
                buf' = IF Accepts(c)
                       THEN [buf EXCEPT ![b] = [src |-> p, seq |-> 0]] ELSE buf
      BY <1>9, DatagramEffect
    <2>2. [src |-> p, seq |-> 0] \in Buffers
      BY NewBlock DEF Buffers, Pcbs
    <2>3. buf' \in [Pbufs -> Buffers]
      BY <2>1, <2>2 DEF ServerInv
    <2>4. Queues
      BY <1>2, <2>1 DEF ServerEvents
    <2>5. Read
      BY <2>1 DEF ServerInv, OnlyEntry, SameOwner
    <2>. QED
      BY <2>1, <2>3, <2>4, <2>5 DEF ServerInv, OnlyEntry
  <1>10. {"XTCP_ABORTED", "XTCP_TIMED_OUT"} \subseteq ServerEvents
    BY DEF ServerEvents
  <1>. QED
    BY <1>3, <1>4, <1>5, <1>6, <1>7, <1>8, <1>9, <1>10 DEF Callback, TcpCallback

\* The invariant is inductive.
LEMMA ServerInvNext == ServerInv /\ [Next]_vars => ServerInv'
  <1>. SUFFICES ASSUME ServerInv, [Next]_vars PROVE ServerInv'
    OBVIOUS
  <1>1. CASE Next
    BY <1>1, ServerInvClient, ServerInvCallback DEF Next
  <1>2. CASE UNCHANGED vars
    BY <1>2 DEF vars, ServerInv
  <1>. QED
    BY <1>1, <1>2

\* Every state of the program satisfies it.
LEMMA ServerInvAlways == Spec => []ServerInv
  BY ServerInvInit, ServerInvNext, PTL DEF Spec

-----------------------------------------------------------------------------
(* What follows at once.                                                   *)

\* Every variable keeps its type, for any number of clients, sockets, control
\* blocks and buffers: indices stay in the table, queues within their bound, and
\* windows and sequence numbers in their range.
THEOREM TypeCorrect == Spec => []TypeOK
  <1>1. ServerInv => TypeOK
    <2>1. GoodEntries \subseteq Entries
      BY DEF GoodEntries
    <2>. QED
      BY <2>1 DEF ServerInv, TypeOK
  <1>. QED
    BY <1>1, ServerInvAlways, PTL

\* No entry without owner keeps anything of its last one: free_client_connection
\* runs on every path that gives an entry up, also inside socket and accept.
THEOREM InactiveEntriesAreClean == Spec => []InactiveIsClean
  <1>1. ServerInv => InactiveIsClean
    BY DEF ServerInv, GoodEntries, InactiveIsClean
  <1>. QED
    BY <1>1, ServerInvAlways, PTL

\* A step of the server keeps the owner of every entry in use.
LEMMA OwnerStep ==
    ASSUME ServerInv, Next
    PROVE  \A i \in Sockets : KeepsOwner(i)
  <1>. DEFINE Kept == \A i \in Sockets : KeepsOwner(i)
  <1>1. ASSUME UNCHANGED connections PROVE Kept
    BY <1>1 DEF KeepsOwner
  <1>2. ASSUME NEW i, OnlyEntry(i),
               SameOwner(i) \/ ~connections[i].is_active \/ ~connections'[i].is_active
        PROVE  Kept
    BY <1>2 DEF OnlyEntry, SameOwner, KeepsOwner
  <1>3. ASSUME NEW c \in Clients, ClientCall(c)
        PROVE  Kept
    <2>1. CASE get_event(c)
      BY <1>1, <2>1 DEF get_event
    <2>2. ASSUME NEW id, close(c, id) PROVE Kept
      BY <1>2, <2>2, CloseEffect DEF Released
    <2>3. ASSUME NEW id \in Sockets, send_tcp(c, id) PROVE Kept
      BY <1>1, <2>3, SendEffect
    <2>4. ASSUME NEW protocol, NEW pool, NEW state,
             \/ protocol = XTCP_PROTOCOL_UDP /\ pool = UdpPcbs /\ state = "UDP"
             \/ protocol = XTCP_PROTOCOL_TCP /\ pool = TcpPcbs /\ state = "CLOSED"
             \/ protocol = XTCP_PROTOCOL_NONE /\ pool = {},
             NewSocket(c, protocol, pool, state)
          PROVE  Kept
      <3>1. \E index \in Sockets : OnlyEntry(index) /\ ~connections[index].is_active
        BY <2>4, NewSocketEffect DEF AssignedTo
      <3>. QED
        BY <1>2, <3>1
    <2>5. CASE socket_tcp_kill(c)
      <3>1. PICK v \in Victims, index \in Sockets :
               /\ ~connections[index].is_active
               /\ \A j \in Sockets : j \notin {index, pcb[v].arg} =>
                     connections'[j] = connections[j]
               /\ OnlyEntry(index) \/ ~connections'[pcb[v].arg].is_active
        BY <2>5, KillEffect DEF Released
      <3>. QED
        BY <1>2, <3>1 DEF KeepsOwner
    <2>6. ASSUME NEW id, listen_tcp(c, id) PROVE Kept
      <3>. DEFINE p == connections[id].pcb
      <3>1. /\ OnlyEntry(id) /\ pcb[p].state = "CLOSED"
            /\ connections'[id].client_num = connections[id].client_num
            /\ connections'[id].protocol = connections[id].protocol
            /\ pcb'[connections'[id].pcb].state = "LISTEN"
        BY <2>6, ListenEffect
      <3>. QED
        BY <3>1 DEF OnlyEntry, KeepsOwner
    <2>7. ASSUME NEW id, listen_udp(c, id) \/ connect_udp(c, id) \/ connect_tcp(c, id)
          PROVE  Kept
      BY <1>1, <2>7 DEF listen_udp, connect_udp, open_udp, connect_tcp
    <2>8. ASSUME NEW id, recv(c, id) PROVE Kept
      BY <1>2, <2>8, RecvEffect
    <2>9. ASSUME NEW id, NEW data \in ClientData,
                 set_connection_client_data(c, id, data)
          PROVE  Kept
      BY <1>2, <2>9, ClientDataEffect
    <2>. QED
      BY <1>3, <2>1, <2>2, <2>3, <2>4, <2>5, <2>6, <2>7, <2>8, <2>9
      DEF ClientCall, OtherCall, socket_udp, socket_none, socket_tcp, recvfrom
  <1>4. ASSUME Callback
        PROVE  Kept
    <2>1. ASSUME NEW l \in ListenPcbs, Syn(l) PROVE Kept
      BY <1>1, <2>1 DEF Syn
    <2>2. ASSUME NEW p \in TcpPcbs, \/ HalfOpenLost(p) \/ Connected(p)
                                    \/ RecvFin(p) \/ CloseDone(p) \/ Sent(p)
          PROVE  Kept
      BY <1>1, <2>2 DEF HalfOpenLost, Connected, RecvFin, CloseDone, Sent
    <2>3. ASSUME NEW p \in TcpPcbs, Accept(p) PROVE Kept
      <3>1. \E index \in Sockets : OnlyEntry(index) /\ ~connections[index].is_active
        BY <2>3, AcceptEffect
      <3>. QED
        BY <1>2, <3>1
    <2>4. ASSUME NEW p \in TcpPcbs, NEW event \in ServerEvents,
                 Err(p, event) \/ (event = "XTCP_ABORTED" /\ AcceptFails(p))
          PROVE  Kept
      BY <1>2, <2>4, ErrEffect DEF Released
    <2>5. ASSUME NEW p \in TcpPcbs, RecvData(p) \/ RetryRefused(p) PROVE Kept
      BY <1>2, <2>5, RecvDataEffect, RetryEffect
    <2>6. ASSUME NEW p \in UdpPcbs, xtcp_udp_recv(p) PROVE Kept
      BY <1>2, <2>6, DatagramEffect
    <2>7. {"XTCP_ABORTED", "XTCP_TIMED_OUT"} \subseteq ServerEvents
      BY DEF ServerEvents
    <2>. QED
      BY <1>4, <2>1, <2>2, <2>3, <2>4, <2>5, <2>6, <2>7 DEF Callback, TcpCallback
  <1>. QED
    BY <1>3, <1>4 DEF Next

\* No step, in any environment, hands an entry in use to another client or puts
\* another connection under its id.
THEOREM EntriesKeepTheirOwner == Spec => OwnershipIsExclusive
  <1>1. ServerInv /\ [Next]_vars => [\A i \in Sockets : KeepsOwner(i)]_vars
    BY OwnerStep
  <1>. QED
    BY <1>1, ServerInvAlways, PTL DEF Spec, OwnershipIsExclusive

=============================================================================
