-------------------------- MODULE XtcpBufferProofs --------------------------
(***************************************************************************)
(* Receive buffers: on their way from lwIP to a client none is lost, freed *)
(* twice or kept in two places (RxInv), and a connection's stream stays    *)
(* whole while data is refused and offered again (StreamInv).              *)
(***************************************************************************)
EXTENDS XtcpDataProofs, FiniteSetTheorems

-----------------------------------------------------------------------------
(* Every buffer has one place.                                             *)

\* The places on entry i's list, and what is there.
Places(i) == 1 .. Len(connections[i].pbuf)
At(i, k)  == connections[i].pbuf[k]

\* What is on a list is in use (MemoryIntact says the same), and what is refused.
ListsInUse == \A i \in Sockets : \A k \in Places(i) : buf[At(i, k)] # FreeBuf
RefusedInUse ==
    \A p \in Pcbs : pcb[p].refused # NULL => buf[pcb[p].refused] # FreeBuf

\* Nothing is held twice.
OnePlace ==
    /\ \A i, j \in Sockets : \A k \in Places(i), m \in Places(j) :
          At(i, k) = At(j, m) => i = j /\ k = m
    /\ \A p, q \in Pcbs : pcb[p].refused # NULL /\ pcb[p].refused = pcb[q].refused
                             => p = q
    /\ \A p \in Pcbs, i \in Sockets : \A k \in Places(i) : pcb[p].refused # At(i, k)

\* What is in use is held.
NothingLeaked ==
    \A b \in Pbufs : buf[b] # FreeBuf =>
        \/ \E i \in Sockets : \E k \in Places(i) : At(i, k) = b
        \/ \E p \in Pcbs : pcb[p].refused = b

\* Without UDP sockets no UDP block is ever allocated.
NoUdpBlocks == \A p \in UdpPcbs : pcb[p].state = "FREE"

\* RxInv holds in every surrounding; a list can hold a buffer that is not in use
\* only once xtcp_udp_recv has linked one and freed it.
RxInv == RefusedInUse /\ OnePlace /\ NothingLeaked

\* A list's places are numbers, and buffers are on them.
LEMMA ListPlaces ==
    ASSUME ServerInv, NEW i \in Sockets
    PROVE  /\ connections[i].pbuf \in Seq(Pbufs)
           /\ Len(connections[i].pbuf) \in Nat
           /\ DOMAIN connections[i].pbuf = Places(i)
           /\ \A k \in Places(i) : At(i, k) \in Pbufs
  <1>1. connections[i].pbuf \in Seq(Pbufs)
    BY DEF ServerInv, GoodEntries, Entries
  <1>. QED
    BY <1>1, LenProperties, ElementOfSeq DEF Places, At

\* The test the model makes before it walks a list.
LEMMA IntactLists ==
    ASSUME ServerInv
    PROVE  MemoryIntact <=> ListsInUse
  BY ListPlaces DEF MemoryIntact, ListsInUse, At

\* Lists are emptied and refused data dropped, together with their buffers, and
\* nothing else changes.
LEMMA RxAfterDrop ==
    ASSUME ServerInv, ServerInv', RxInv,
           \A i \in Sockets : connections'[i].pbuf \in {connections[i].pbuf, <<>>},
           \A p \in Pcbs : pcb'[p].refused \in {pcb[p].refused, NULL},
           \A b \in Pbufs :
              \/ buf'[b] = buf[b]
              \/ buf'[b] = FreeBuf
                   /\ \/ \E i \in Sockets : connections'[i].pbuf = <<>>
                                /\ \E k \in Places(i) : At(i, k) = b
                      \/ \E p \in Pcbs : pcb[p].refused = b /\ pcb'[p].refused = NULL,
           \A i \in Sockets : connections'[i].pbuf # connections[i].pbuf =>
              \A k \in Places(i) : buf'[At(i, k)] = FreeBuf,
           \A p \in Pcbs : pcb'[p].refused # pcb[p].refused =>
              buf'[pcb[p].refused] = FreeBuf
    PROVE  RxInv' /\ (ListsInUse => ListsInUse')
  <1>0. NULL \notin Pbufs
    BY PoolsAssumption
  <1>1. ASSUME NEW i \in Sockets, NEW k \in Places(i)'
        PROVE  k \in Places(i) /\ At(i, k)' = At(i, k)
               /\ connections'[i].pbuf = connections[i].pbuf
               /\ connections'[i].pbuf # <<>> /\ At(i, k) \in Pbufs
    <2>1. connections'[i].pbuf # <<>>
      BY <1>1, EmptySeq DEF Places
    <2>. QED
      BY <1>1, <2>1, ListPlaces DEF Places, At
  <1>2. ASSUME NEW p \in Pcbs, pcb'[p].refused # NULL
        PROVE  pcb'[p].refused = pcb[p].refused /\ pcb[p].refused \in Pbufs
    BY <1>2 DEF ServerInv, Blocks
  <1>3. ASSUME ListsInUse PROVE ListsInUse'
    <2>1. ASSUME NEW i \in Sockets, NEW k \in Places(i)'
          PROVE  buf'[At(i, k)'] # FreeBuf
      BY <1>0, <1>1, <1>3, <2>1 DEF RxInv, ListsInUse, OnePlace
    <2>. QED
      BY <2>1 DEF ListsInUse
  <1>6. RefusedInUse'
    BY <1>0, <1>2 DEF RxInv, RefusedInUse, OnePlace
  <1>4. OnePlace'
    <2>1. \A i, j \in Sockets : \A k \in Places(i)', m \in Places(j)' :
             At(i, k)' = At(j, m)' => i = j /\ k = m
      BY <1>1 DEF RxInv, OnePlace
    <2>2. \A p, q \in Pcbs : pcb'[p].refused # NULL /\ pcb'[p].refused = pcb'[q].refused
             => p = q
      BY <1>2 DEF RxInv, OnePlace
    <2>3. \A p \in Pcbs, i \in Sockets : \A k \in Places(i)' :
             pcb'[p].refused # At(i, k)'
      BY <1>0, <1>1 DEF RxInv, OnePlace
    <2>. QED
      BY <2>1, <2>2, <2>3 DEF OnePlace
  <1>5. NothingLeaked'
    <2>1. ASSUME NEW b \in Pbufs, buf'[b] # FreeBuf
          PROVE  \/ \E i \in Sockets : \E k \in Places(i)' : At(i, k)' = b
                 \/ \E p \in Pcbs : pcb'[p].refused = b
      <3>1. buf[b] # FreeBuf
        BY <2>1
      <3>2. ASSUME NEW i \in Sockets, NEW k \in Places(i), At(i, k) = b
            PROVE  k \in Places(i)' /\ At(i, k)' = b
        <4>1. connections'[i].pbuf = connections[i].pbuf
          BY <2>1, <3>2
        <4>. QED
          BY <3>2, <4>1 DEF Places, At
      <3>3. ASSUME NEW p \in Pcbs, pcb[p].refused = b
            PROVE  pcb'[p].refused = b
        BY <2>1, <3>3
      <3>. QED
        BY <3>1, <3>2, <3>3 DEF RxInv, NothingLeaked
    <2>. QED
      BY <2>1 DEF NothingLeaked
  <1>. QED
    BY <1>3, <1>4, <1>5, <1>6 DEF RxInv

\* The places of a list to which a buffer is appended.
LEMMA AppendedPlaces ==
    ASSUME ServerInv, NEW i \in Sockets, NEW b \in Pbufs,
           connections'[i].pbuf = Append(connections[i].pbuf, b),
           \A j \in Sockets : j # i => connections'[j].pbuf = connections[j].pbuf
    PROVE  \E n \in Nat :
              /\ n = Len(connections[i].pbuf)
              /\ Places(i) = 1 .. n /\ Places(i)' = 1 .. n + 1
              /\ connections'[i].pbuf[n + 1] = b
              /\ \A k \in 1 .. n : At(i, k)' = At(i, k)
              /\ \A j \in Sockets : j # i =>
                    Places(j)' = Places(j) /\ \A k : At(j, k)' = At(j, k)
  <1>1. PICK n \in Nat : n = Len(connections[i].pbuf)
    BY ListPlaces
  <1>2. /\ Len(connections'[i].pbuf) = n + 1 /\ connections'[i].pbuf[n + 1] = b
        /\ \A k \in 1 .. n : connections'[i].pbuf[k] = connections[i].pbuf[k]
    BY <1>1, ListPlaces, AppendProperties
  <1>3. Places(i) = 1 .. n /\ Places(i)' = 1 .. n + 1
        /\ \A k \in 1 .. n : At(i, k)' = At(i, k)
    BY <1>1, <1>2 DEF Places, At
  <1>4. \A j \in Sockets : j # i => Places(j)' = Places(j) /\ \A k : At(j, k)' = At(j, k)
    BY DEF Places, At
  <1>. QED
    BY <1>1, <1>2, <1>3, <1>4

\* The places of a list that loses its first buffer.
LEMMA TailPlaces ==
    ASSUME ServerInv, NEW i \in Sockets, connections[i].pbuf # <<>>,
           connections'[i].pbuf = Tail(connections[i].pbuf),
           \A j \in Sockets : j # i => connections'[j].pbuf = connections[j].pbuf
    PROVE  \E n \in Nat :
              /\ n + 1 = Len(connections[i].pbuf)
              /\ Places(i) = 1 .. n + 1 /\ Places(i)' = 1 .. n
              /\ At(i, 1) = Head(connections[i].pbuf)
              /\ \A k \in 1 .. n : At(i, k)' = At(i, k + 1)
              /\ \A j \in Sockets : j # i =>
                    Places(j)' = Places(j) /\ \A k : At(j, k)' = At(j, k)
  <1>1. PICK m \in Nat : m = Len(connections[i].pbuf)
    BY ListPlaces
  <1>2. m # 0
    BY <1>1, ListPlaces, EmptySeq
  <1>3. PICK n \in Nat : m = n + 1
    <2>1. m - 1 \in Nat /\ m = (m - 1) + 1
      BY <1>2
    <2>. QED
      BY <2>1
  <1>4. /\ Len(connections'[i].pbuf) = n
        /\ Head(connections[i].pbuf) = connections[i].pbuf[1]
        /\ \A k \in 1 .. n : connections'[i].pbuf[k] = connections[i].pbuf[k + 1]
    <2>. DEFINE s == connections[i].pbuf
    <2>1. s \in Seq(Pbufs) /\ s # <<>>
      BY ListPlaces
    <2>2. /\ Len(Tail(s)) = Len(s) - 1
          /\ \A k \in 1 .. Len(Tail(s)) : Tail(s)[k] = s[k + 1]
      BY <2>1, HeadTailProperties
    <2>3. Head(s) = s[1]
      BY <2>1
    <2>4. Len(Tail(s)) = n
      BY <1>1, <1>3, <2>2
    <2>. HIDE DEF s
    <2>5. connections'[i].pbuf = Tail(s)
      BY DEF s
    <2>. QED
      BY <2>2, <2>3, <2>4, <2>5 DEF s
  <1>5. Places(i) = 1 .. n + 1 /\ Places(i)' = 1 .. n
        /\ \A k \in 1 .. n : At(i, k)' = At(i, k + 1)
    BY <1>1, <1>3, <1>4 DEF Places, At
  <1>6. At(i, 1) = Head(connections[i].pbuf)
    BY <1>4 DEF At
  <1>7. \A j \in Sockets : j # i => Places(j)' = Places(j) /\ \A k : At(j, k)' = At(j, k)
    BY DEF Places, At
  <1>. QED
    BY <1>1, <1>3, <1>5, <1>6, <1>7

\* Buffer b, on no list before, is linked at place n of entry i's list and no
\* longer refused.
LEMMA RxAfterLink ==
    ASSUME ServerInv, RxInv, NEW i \in Sockets, NEW b \in Pbufs, NEW n,
           n \in Places(i)', At(i, n)' = b,
           \A j \in Sockets : \A k \in Places(j)' :
              \/ j = i /\ k = n
              \/ k \in Places(j) /\ At(j, k)' = At(j, k),
           \A j \in Sockets : \A k \in Places(j) :
              k \in Places(j)' /\ At(j, k)' = At(j, k),
           \A p \in Pcbs : pcb'[p].refused =
                              IF pcb[p].refused = b THEN NULL ELSE pcb[p].refused,
           \A j \in Sockets : \A k \in Places(j) : At(j, k) # b,
           \A d \in Pbufs : d # b => buf'[d] = buf[d]
    PROVE  RxInv' /\ (ListsInUse /\ buf'[b] # FreeBuf => ListsInUse')
  <1>0. NULL \notin Pbufs
    BY PoolsAssumption
  <1>3. \A j \in Sockets : \A k \in Places(j) : At(j, k) \in Pbufs
    BY ListPlaces
  <1>4. ASSUME NEW j \in Sockets, NEW k \in Places(j)'
        PROVE  \/ j = i /\ k = n /\ At(j, k)' = b
               \/ /\ k \in Places(j) /\ At(j, k)' = At(j, k)
                  /\ At(j, k) # b /\ At(j, k) \in Pbufs
    BY <1>3, <1>4
  <1>5. \A p \in Pcbs : /\ pcb'[p].refused # b
                        /\ pcb'[p].refused \in {pcb[p].refused, NULL}
                        /\ pcb[p].refused \in Pbufs \cup {NULL}
    BY <1>0 DEF ServerInv, Blocks
  <1>6. ASSUME ListsInUse, buf'[b] # FreeBuf PROVE ListsInUse'
    BY <1>4, <1>6 DEF ListsInUse
  <1>9. RefusedInUse'
    BY <1>5 DEF RxInv, RefusedInUse
  <1>7. OnePlace'
    <2>1. \A j, h \in Sockets : \A k \in Places(j)', m \in Places(h)' :
             At(j, k)' = At(h, m)' => j = h /\ k = m
      BY <1>4 DEF RxInv, OnePlace
    <2>2. \A p, q \in Pcbs : pcb'[p].refused # NULL /\ pcb'[p].refused = pcb'[q].refused
             => p = q
      BY <1>5 DEF RxInv, OnePlace
    <2>3. \A p \in Pcbs, j \in Sockets : \A k \in Places(j)' :
             pcb'[p].refused # At(j, k)'
      BY <1>0, <1>4, <1>5 DEF RxInv, OnePlace
    <2>. QED
      BY <2>1, <2>2, <2>3 DEF OnePlace
  <1>8. NothingLeaked'
    <2>1. ASSUME NEW d \in Pbufs, buf'[d] # FreeBuf
          PROVE  \/ \E j \in Sockets : \E k \in Places(j)' : At(j, k)' = d
                 \/ \E p \in Pcbs : pcb'[p].refused = d
      <3>1. CASE d = b
        BY <3>1
      <3>2. CASE d # b
        <4>2. \/ \E j \in Sockets : \E k \in Places(j) : At(j, k) = d
              \/ \E p \in Pcbs : pcb[p].refused = d
          BY <2>1, <3>2 DEF RxInv, NothingLeaked
        <4>. QED
          BY <3>2, <4>2
      <3>. QED
        BY <3>1, <3>2
    <2>. QED
      BY <2>1 DEF NothingLeaked
  <1>. QED
    BY <1>6, <1>7, <1>8, <1>9 DEF RxInv

\* Buffer b, free before, is kept by block p.
LEMMA RxAfterRefuse ==
    ASSUME ServerInv, RxInv, NEW p \in Pcbs, NEW b \in Pbufs,
           pcb[p].refused = NULL, pcb'[p].refused = b, buf[b] = FreeBuf,
           \A i \in Sockets : connections'[i].pbuf = connections[i].pbuf,
           \A q \in Pcbs : q # p => pcb'[q].refused = pcb[q].refused,
           \A i \in Sockets : \A k \in Places(i) : At(i, k) # b,
           buf'[b] # FreeBuf,
           \A d \in Pbufs : d # b => buf'[d] = buf[d]
    PROVE  RxInv' /\ (ListsInUse => ListsInUse')
  <1>1. \A i \in Sockets : Places(i)' = Places(i) /\ \A k : At(i, k)' = At(i, k)
    BY DEF Places, At
  <1>2. \A i \in Sockets : \A k \in Places(i) : At(i, k) \in Pbufs /\ At(i, k) # b
    BY ListPlaces
  <1>3. \A q \in Pcbs : pcb[q].refused \in Pbufs \cup {NULL} /\ pcb[q].refused # b
    BY PoolsAssumption DEF RxInv, RefusedInUse, ServerInv, Blocks
  <1>4. ASSUME ListsInUse PROVE ListsInUse'
    BY <1>1, <1>2, <1>4 DEF ListsInUse
  <1>7. RefusedInUse'
    BY <1>3 DEF RxInv, RefusedInUse
  <1>5. OnePlace'
    <2>1. \A i, j \in Sockets : \A k \in Places(i)', m \in Places(j)' :
             At(i, k)' = At(j, m)' => i = j /\ k = m
      BY <1>1 DEF RxInv, OnePlace
    <2>2. \A q, r \in Pcbs : pcb'[q].refused # NULL /\ pcb'[q].refused = pcb'[r].refused
             => q = r
      BY <1>3 DEF RxInv, OnePlace
    <2>3. \A q \in Pcbs, i \in Sockets : \A k \in Places(i)' :
             pcb'[q].refused # At(i, k)'
      BY <1>1, <1>2 DEF RxInv, OnePlace
    <2>. QED
      BY <2>1, <2>2, <2>3 DEF OnePlace
  <1>6. NothingLeaked'
    <2>1. ASSUME NEW d \in Pbufs, buf'[d] # FreeBuf
          PROVE  \/ \E i \in Sockets : \E k \in Places(i)' : At(i, k)' = d
                 \/ \E q \in Pcbs : pcb'[q].refused = d
      <3>1. CASE d = b
        BY <3>1
      <3>2. CASE d # b
        <4>1. \/ \E i \in Sockets : \E k \in Places(i) : At(i, k) = d
              \/ \E q \in Pcbs : pcb[q].refused = d
          BY <2>1, <3>2 DEF RxInv, NothingLeaked
        <4>2. ASSUME NEW q \in Pcbs, pcb[q].refused = d
              PROVE  pcb'[q].refused = d
          BY <4>2, PoolsAssumption
        <4>. QED
          BY <1>1, <4>1, <4>2
      <3>. QED
        BY <3>1, <3>2
    <2>. QED
      BY <2>1 DEF NothingLeaked
  <1>. QED
    BY <1>4, <1>5, <1>6, <1>7 DEF RxInv

\* The first buffer h of entry i's list is freed.
LEMMA RxAfterRead ==
    ASSUME ServerInv, RxInv, NEW i \in Sockets, NEW n \in Nat, NEW h \in Pbufs,
           Places(i) = 1 .. n + 1, Places(i)' = 1 .. n, At(i, 1) = h,
           \A k \in 1 .. n : At(i, k)' = At(i, k + 1),
           \A j \in Sockets : j # i =>
              Places(j)' = Places(j) /\ \A k : At(j, k)' = At(j, k),
           \A p \in Pcbs : pcb'[p].refused = pcb[p].refused,
           \A d \in Pbufs : buf'[d] = IF d = h THEN FreeBuf ELSE buf[d]
    PROVE  RxInv' /\ (ListsInUse => ListsInUse')
  <1>4. \A j \in Sockets : \A k \in Places(j) : At(j, k) \in Pbufs
    BY ListPlaces
  <1>6. \A j \in Sockets : \A k \in Places(j) : At(j, k) = h => j = i /\ k = 1
    <2>1. 1 \in Places(i)
      OBVIOUS
    <2>. QED
      BY <2>1 DEF RxInv, OnePlace
  <1>7. ASSUME NEW j \in Sockets, NEW k \in Places(j)'
        PROVE  \E m \in Places(j) : /\ At(j, k)' = At(j, m)
                                    /\ m = IF j = i THEN k + 1 ELSE k
                                    /\ At(j, m) # h
    <2>1. CASE j = i
      <3>1. k + 1 \in Places(i) /\ At(i, k)' = At(i, k + 1) /\ k + 1 # 1
        BY <1>7, <2>1
      <3>. QED
        BY <1>6, <2>1, <3>1
    <2>2. CASE j # i
      BY <1>6, <1>7, <2>2
    <2>. QED
      BY <2>1, <2>2
  <1>8. \A p \in Pcbs : pcb[p].refused # h /\ pcb[p].refused \in Pbufs \cup {NULL}
    <2>1. 1 \in Places(i)
      OBVIOUS
    <2>. QED
      BY <2>1 DEF RxInv, OnePlace, ServerInv, Blocks
  <1>9. ASSUME ListsInUse PROVE ListsInUse'
    BY <1>4, <1>7, <1>9 DEF ListsInUse
  <1>12. RefusedInUse'
    BY <1>8 DEF RxInv, RefusedInUse
  <1>10. OnePlace'
    <2>1. ASSUME NEW j \in Sockets, NEW g \in Sockets,
                 NEW k \in Places(j)', NEW m \in Places(g)', At(j, k)' = At(g, m)'
          PROVE  j = g /\ k = m
      <3>1. PICK k2 \in Places(j) : At(j, k)' = At(j, k2)
                                    /\ k2 = IF j = i THEN k + 1 ELSE k
        BY <1>7
      <3>2. PICK m2 \in Places(g) : At(g, m)' = At(g, m2)
                                    /\ m2 = IF g = i THEN m + 1 ELSE m
        BY <1>7
      <3>a. \A j1, g1 \in Sockets : \A k1 \in Places(j1), m1 \in Places(g1) :
               At(j1, k1) = At(g1, m1) => j1 = g1 /\ k1 = m1
        BY DEF RxInv, OnePlace
      <3>b. At(j, k2) = At(g, m2)
        BY <2>1, <3>1, <3>2
      <3>3. j = g /\ k2 = m2
        BY <3>a, <3>b
      <3>4. k \in Int /\ m \in Int
        BY <2>1 DEF Places
      <3>. QED
        BY <3>1, <3>2, <3>3, <3>4
    <2>2. \A p, q \in Pcbs : pcb'[p].refused # NULL /\ pcb'[p].refused = pcb'[q].refused
             => p = q
      BY DEF RxInv, OnePlace
    <2>3. \A p \in Pcbs, j \in Sockets : \A k \in Places(j)' :
             pcb'[p].refused # At(j, k)'
      BY <1>7 DEF RxInv, OnePlace
    <2>. QED
      BY <2>1, <2>2, <2>3 DEF OnePlace
  <1>11. NothingLeaked'
    <2>1. ASSUME NEW d \in Pbufs, buf'[d] # FreeBuf
          PROVE  \/ \E j \in Sockets : \E k \in Places(j)' : At(j, k)' = d
                 \/ \E p \in Pcbs : pcb'[p].refused = d
      <3>1. d # h /\ buf[d] # FreeBuf
        BY <2>1
      <3>2. ASSUME NEW j \in Sockets, NEW k \in Places(j), At(j, k) = d
            PROVE  \E m \in Places(j)' : At(j, m)' = d
        <4>1. CASE j = i
          <5>1. k # 1 /\ k \in 1 .. n + 1
            BY <3>1, <3>2, <4>1
          <5>2. k - 1 \in 1 .. n /\ (k - 1) + 1 = k
            BY <5>1
          <5>3. k - 1 \in Places(i)' /\ At(i, k - 1)' = At(i, k)
            BY <5>2
          <5>. QED
            BY <3>2, <4>1, <5>3
        <4>2. CASE j # i
          BY <3>2, <4>2
        <4>. QED
          BY <4>1, <4>2
      <3>. QED
        BY <3>1, <3>2 DEF RxInv, NothingLeaked
    <2>. QED
      BY <2>1 DEF NothingLeaked
  <1>. QED
    BY <1>9, <1>10, <1>11, <1>12 DEF RxInv


\* Lists, refused data and buffers stay as they are.
LEMMA RxAfterQuiet ==
    ASSUME RxInv,
           \A i \in Sockets : connections'[i].pbuf = connections[i].pbuf,
           \A p \in Pcbs : pcb'[p].refused = pcb[p].refused,
           UNCHANGED buf
    PROVE  RxInv' /\ (ListsInUse => ListsInUse')
  <1>1. \A i \in Sockets : Places(i)' = Places(i) /\ \A k : At(i, k)' = At(i, k)
    BY DEF Places, At
  <1>2. ASSUME ListsInUse PROVE ListsInUse'
    BY <1>1, <1>2 DEF ListsInUse
  <1>5. RefusedInUse'
    BY DEF RxInv, RefusedInUse
  <1>3. OnePlace'
    BY <1>1 DEF RxInv, OnePlace
  <1>4. NothingLeaked'
    BY <1>1 DEF RxInv, NothingLeaked
  <1>. QED
    BY <1>2, <1>3, <1>4, <1>5 DEF RxInv

\* lwIP gives block p up, with the data it kept.
LEMMA RxAfterGiveUp ==
    ASSUME ServerInv, ServerInv', RxInv, NEW p \in Pcbs,
           \A i \in Sockets : connections'[i].pbuf = connections[i].pbuf,
           pcb'[p].refused = NULL,
           \A q \in Pcbs : q # p => pcb'[q].refused = pcb[q].refused,
           buf' = RefusedFreed(p)
    PROVE  RxInv' /\ (ListsInUse => ListsInUse')
  <1>1. \A b \in Pbufs : buf'[b] = IF b = pcb[p].refused THEN FreeBuf ELSE buf[b]
    BY DEF RefusedFreed
  <1>2. pcb[p].refused \in Pbufs \cup {NULL}
    BY DEF ServerInv, Blocks
  <1>3. \A q \in Pcbs : pcb'[q].refused \in {pcb[q].refused, NULL}
    OBVIOUS
  <1>4. \A q \in Pcbs : pcb'[q].refused # pcb[q].refused =>
           buf'[pcb[q].refused] = FreeBuf
    BY <1>1, <1>2
  <1>. QED
    BY <1>1, <1>3, <1>4, RxAfterDrop

\* shim_close_socket frees what the entry and its block kept.
LEMMA RxAfterClose ==
    ASSUME ServerInv, ServerInv', RxInv, NEW c \in Clients, NEW id, close(c, id)
    PROVE  RxInv' /\ (ListsInUse => ListsInUse')
  <1>. DEFINE p == connections[id].pcb
  <1>1. /\ id \in Sockets /\ OnlyEntry(id) /\ Released(id, <<>>)
        /\ \A q \in Pcbs : q # p =>
              \/ pcb'[q] = pcb[q]
              \/ pcb[q].state = "SYN_RCVD" /\ pcb'[q] = FreePcb
        /\ \A q \in Pcbs : q = p =>
              \/ pcb'[q] = FreePcb
              \/ pcb[q].refused = NULL /\ pcb'[q].refused = NULL
    BY CloseEffect
  <1>2. \A b \in Pbufs :
           buf'[b] = IF b \in ToSet(connections[id].pbuf)
                          \/ (p # NULL /\ b = pcb[p].refused)
                     THEN FreeBuf ELSE buf[b]
    BY DEF close
  <1>3. \A b : b \in ToSet(connections[id].pbuf) <=> \E k \in Places(id) : At(id, k) = b
    BY <1>1, ListPlaces DEF ToSet, Places, At
  <1>4. \A q \in Pcbs : pcb[q].refused # NULL => pcb[q].state # "SYN_RCVD"
    BY DEF ServerInv, GoodBlocks
  <1>5. \A q \in Pcbs : /\ q # p => pcb'[q].refused = pcb[q].refused
                        /\ q = p => pcb'[q].refused = NULL
    BY <1>1, <1>4, NewBlock
  <1>6. p = NULL \/ p \in Pcbs
    BY <1>1 DEF ServerInv, GoodEntries, Entries
  <1>7. \A q \in Pcbs : q # NULL
    BY PoolsAssumption DEF Pcbs
  <1>8. \A q \in Pcbs : pcb[q].refused \in Pbufs \cup {NULL}
    BY DEF ServerInv, Blocks
  <1>9. \A k \in Places(id) : At(id, k) \in Pbufs
    BY <1>1, ListPlaces
  <1>. HIDE DEF p
  <1>10. \A b \in Pbufs :
           \/ buf'[b] = buf[b]
           \/ buf'[b] = FreeBuf
                /\ \/ \E i \in Sockets : connections'[i].pbuf = <<>>
                             /\ \E k \in Places(i) : At(i, k) = b
                   \/ \E q \in Pcbs : pcb[q].refused = b /\ pcb'[q].refused = NULL
    BY <1>1, <1>2, <1>3, <1>5, <1>6 DEF Released
  <1>11. \A i \in Sockets : i # id => connections'[i].pbuf = connections[i].pbuf
    BY <1>1 DEF OnlyEntry
  <1>12. connections'[id].pbuf = <<>>
    BY <1>1 DEF Released
  <1>13. \A i \in Sockets : connections'[i].pbuf # connections[i].pbuf =>
            \A k \in Places(i) : buf'[At(i, k)] = FreeBuf
    <2>1. \A k \in Places(id) : buf'[At(id, k)] = FreeBuf
      BY <1>2, <1>3, <1>9
    <2>. QED
      BY <1>11, <2>1
  <1>14. \A q \in Pcbs : pcb'[q].refused # pcb[q].refused =>
            buf'[pcb[q].refused] = FreeBuf
    BY <1>2, <1>5, <1>7, <1>8
  <1>15. \A i \in Sockets : connections'[i].pbuf \in {connections[i].pbuf, <<>>}
    BY <1>11, <1>12
  <1>16. \A q \in Pcbs : pcb'[q].refused \in {pcb[q].refused, NULL}
    BY <1>5
  <1>. QED
    BY <1>10, <1>13, <1>14, <1>15, <1>16, RxAfterDrop

\* recv frees the first buffer.
LEMMA RxAfterRecv ==
    ASSUME ServerInv, RxInv, NEW c \in Clients, NEW id, recv(c, id)
    PROVE  RxInv' /\ (ListsInUse => ListsInUse')
  <1>. DEFINE s == connections[id].pbuf
              h == Head(s)
  <1>1. /\ id \in Sockets /\ s # <<>> /\ OnlyEntry(id)
        /\ connections'[id].pbuf = Tail(s)
        /\ h \in Pbufs /\ buf' = [buf EXCEPT ![h] = FreeBuf]
        /\ \A p \in Pcbs : pcb'[p].refused = pcb[p].refused
    BY RecvEffect
  <1>2. \A j \in Sockets : j # id => connections'[j].pbuf = connections[j].pbuf
    BY <1>1 DEF OnlyEntry
  <1>3. PICK n \in Nat :
           /\ Places(id) = 1 .. n + 1 /\ Places(id)' = 1 .. n /\ At(id, 1) = h
           /\ \A k \in 1 .. n : At(id, k)' = At(id, k + 1)
           /\ \A j \in Sockets : j # id =>
                 Places(j)' = Places(j) /\ \A k : At(j, k)' = At(j, k)
    BY <1>1, <1>2, TailPlaces
  <1>4. \A d \in Pbufs : buf'[d] = IF d = h THEN FreeBuf ELSE buf[d]
    BY <1>1 DEF ServerInv
  <1>. HIDE DEF s, h
  <1>. QED
    BY <1>1, <1>3, <1>4, RxAfterRead

\* A buffer that is on no list goes to the end of one.
LEMMA RxAfterAppend ==
    ASSUME ServerInv, RxInv, NEW i \in Sockets, NEW b \in Pbufs, OnlyEntry(i),
           connections'[i].pbuf = Append(connections[i].pbuf, b),
           \A p \in Pcbs : pcb'[p].refused =
                              IF pcb[p].refused = b THEN NULL ELSE pcb[p].refused,
           \A j \in Sockets : \A k \in Places(j) : At(j, k) # b,
           \A d \in Pbufs : d # b => buf'[d] = buf[d]
    PROVE  RxInv' /\ (ListsInUse /\ buf'[b] # FreeBuf => ListsInUse')
  <1>1. \A j \in Sockets : j # i => connections'[j].pbuf = connections[j].pbuf
    BY DEF OnlyEntry
  <1>2. PICK n \in Nat :
           /\ Places(i) = 1 .. n /\ Places(i)' = 1 .. n + 1
           /\ connections'[i].pbuf[n + 1] = b
           /\ \A k \in 1 .. n : At(i, k)' = At(i, k)
           /\ \A j \in Sockets : j # i =>
                 Places(j)' = Places(j) /\ \A k : At(j, k)' = At(j, k)
    BY <1>1, AppendedPlaces
  <1>3. PICK m \in Nat : m = n + 1
    OBVIOUS
  <1>4. m \in Places(i)' /\ At(i, m)' = b
    BY <1>2, <1>3 DEF At
  <1>5. \A j \in Sockets : \A k \in Places(j)' :
           \/ j = i /\ k = m
           \/ k \in Places(j) /\ At(j, k)' = At(j, k)
    BY <1>2, <1>3
  <1>6. \A j \in Sockets : \A k \in Places(j) :
           k \in Places(j)' /\ At(j, k)' = At(j, k)
    BY <1>2
  <1>. QED
    BY <1>4, <1>5, <1>6, RxAfterLink

\* The calls of clients keep every buffer in its place.
LEMMA RxClient ==
    ASSUME ServerInv, ServerInv', RxInv, NEW c \in Clients, ClientCall(c)
    PROVE  RxInv' /\ (ListsInUse => ListsInUse')
  <1>1. CASE get_event(c)
    BY <1>1, RxAfterQuiet DEF get_event
  <1>2. ASSUME NEW id, close(c, id)
        PROVE  RxInv' /\ (ListsInUse => ListsInUse')
    BY <1>2, RxAfterClose
  <1>3. ASSUME NEW id \in Sockets, send_tcp(c, id)
        PROVE  RxInv' /\ (ListsInUse => ListsInUse')
    <2>. DEFINE p == connections[id].pcb
    <2>1. UNCHANGED <<connections, buf>> /\ p \in Pcbs /\ OnlyBlock(p) /\ SameStream(p)
      BY <1>3, SendEffect
    <2>. QED
      BY <2>1, RxAfterQuiet DEF OnlyBlock, SameStream
  <1>4. ASSUME NEW protocol, NEW pool, NEW state,
           \/ protocol = XTCP_PROTOCOL_UDP /\ pool = UdpPcbs /\ state = "UDP"
           \/ protocol = XTCP_PROTOCOL_TCP /\ pool = TcpPcbs /\ state = "CLOSED"
           \/ protocol = XTCP_PROTOCOL_NONE /\ pool = {},
           NewSocket(c, protocol, pool, state)
        PROVE  RxInv' /\ (ListsInUse => ListsInUse')
    <2>1. /\ UNCHANGED buf
          /\ \E index \in Sockets :
                /\ OnlyEntry(index) /\ AssignedTo(index, c, protocol)
                /\ \/ \E p \in pool : /\ pcb[p].state = "FREE"
                                      /\ OnlyBlock(p) /\ pcb'[p] = NewPcb(state)
                   \/ UNCHANGED pcb
      BY <1>4, NewSocketEffect
    <2>2. \A i \in Sockets : connections'[i].pbuf = connections[i].pbuf
      BY <2>1 DEF OnlyEntry, AssignedTo
    <2>3. \A p \in pool : p \in Pcbs /\ NewPcb(state).refused = NULL
      BY <1>4, NewBlock DEF Pcbs
    <2>4. \A p \in Pcbs : pcb[p].state = "FREE" => pcb[p].refused = NULL
      BY DEF ServerInv, GoodBlocks
    <2>5. \A p \in Pcbs : pcb'[p].refused = pcb[p].refused
      BY <2>1, <2>3, <2>4 DEF OnlyBlock
    <2>. QED
      BY <2>1, <2>2, <2>5, RxAfterQuiet
  <1>5. CASE socket_tcp_kill(c)
    <2>1. PICK v \in Victims, index \in Sockets :
             LET hit == pcb[v].arg
             IN  /\ \A j \in Sockets :
                       j \notin {index, hit} => connections'[j] = connections[j]
                 /\ OnlyBlock(v) /\ buf' = RefusedFreed(v)
                 /\ \/ /\ OnlyEntry(index)
                       /\ AssignedTo(index, c, XTCP_PROTOCOL_TCP)
                       /\ pcb'[v] = NewPcb("CLOSED")
                    \/ /\ AssignedTo(index, c, XTCP_PROTOCOL_TCP)
                       /\ pcb'[v] = NewPcb("CLOSED")
                       /\ Released(hit, connections[hit].pbuf)
                    \/ /\ hit = index
                       /\ pcb'[v] = FreePcb
                       /\ Released(hit, connections[hit].pbuf)
      BY <1>5, KillEffect
    <2>2. \A i \in Sockets : connections'[i].pbuf = connections[i].pbuf
      BY <2>1 DEF OnlyEntry, AssignedTo, Released
    <2>3. v \in Pcbs /\ pcb'[v].refused = NULL
      BY <2>1, NewBlock DEF Victims, Pcbs
    <2>. QED
      BY <2>1, <2>2, <2>3, RxAfterGiveUp DEF OnlyBlock
  <1>6. ASSUME NEW id, listen_tcp(c, id)
        PROVE  RxInv' /\ (ListsInUse => ListsInUse')
    <2>. DEFINE p == connections[id].pcb
    <2>1. /\ p \in Pcbs /\ pcb[p].state = "CLOSED" /\ id \in Sockets
          /\ OnlyEntry(id) /\ connections'[id].pbuf = connections[id].pbuf
          /\ UNCHANGED buf
      BY <1>6, ListenEffect DEF Pcbs
    <2>2. PICK l \in ListenPcbs :
             /\ pcb[l].state = "FREE"
             /\ \A q \in Pcbs : q \notin {p, l} => pcb'[q] = pcb[q]
             /\ pcb'[p] = FreePcb /\ pcb'[l].refused = NULL
      BY <1>6, ListenEffect
    <2>3. \A q \in Pcbs : pcb[q].state \in {"FREE", "CLOSED"} => pcb[q].refused = NULL
      BY DEF ServerInv, GoodBlocks
    <2>4. \A i \in Sockets : connections'[i].pbuf = connections[i].pbuf
      BY <2>1 DEF OnlyEntry
    <2>5. l \in Pcbs
      BY DEF Pcbs
    <2>. HIDE DEF p
    <2>6. \A q \in Pcbs : pcb'[q].refused = pcb[q].refused
      BY <2>1, <2>2, <2>3, <2>5, NewBlock
    <2>. QED
      BY <2>1, <2>4, <2>6, RxAfterQuiet
  <1>7. ASSUME NEW id, listen_udp(c, id) \/ connect_udp(c, id)
        PROVE  RxInv' /\ (ListsInUse => ListsInUse')
    <2>. DEFINE p == connections[id].pcb
    <2>1. /\ p \in Pcbs /\ OnlyBlock(p) /\ pcb'[p].refused = pcb[p].refused
          /\ UNCHANGED <<connections, buf>>
      BY <1>7, OpenUdpEffect DEF listen_udp, connect_udp, Pcbs
    <2>. QED
      BY <2>1, RxAfterQuiet DEF OnlyBlock
  <1>8. ASSUME NEW id, connect_tcp(c, id)
        PROVE  RxInv' /\ (ListsInUse => ListsInUse')
    <2>. DEFINE p == connections[id].pcb
    <2>1. p \in Pcbs /\ OnlyBlock(p) /\ SameStream(p) /\ UNCHANGED <<connections, buf>>
      BY <1>8, ConnectEffect DEF Pcbs
    <2>. QED
      BY <2>1, RxAfterQuiet DEF OnlyBlock, SameStream
  <1>9. ASSUME NEW id, recv(c, id)
        PROVE  RxInv' /\ (ListsInUse => ListsInUse')
    BY <1>9, RxAfterRecv
  <1>10. ASSUME NEW id, NEW data \in ClientData,
                set_connection_client_data(c, id, data)
         PROVE  RxInv' /\ (ListsInUse => ListsInUse')
    <2>1. /\ id \in Sockets /\ OnlyEntry(id)
          /\ connections'[id].pbuf = connections[id].pbuf
          /\ UNCHANGED <<pcb, buf>>
      BY <1>10, ClientDataEffect
    <2>. QED
      BY <2>1, RxAfterQuiet DEF OnlyEntry
  <1>. QED
    BY <1>1, <1>2, <1>3, <1>4, <1>5, <1>6, <1>7, <1>8, <1>9, <1>10
    DEF ClientCall, OtherCall, socket_udp, socket_none, socket_tcp, recvfrom

\* So do the callbacks; only a datagram can leave a freed buffer on a list.
LEMMA RxCallback ==
    ASSUME ServerInv, ServerInv', RxInv, Callback
    PROVE  /\ RxInv'
           /\ ListsInUse => ListsInUse' \/ \E p \in UdpPcbs : xtcp_udp_recv(p)
  <1>0. /\ \A p \in Pcbs : pcb[p].refused # NULL => pcb[p].state = "ESTABLISHED"
        /\ \A p \in Pcbs : pcb[p].refused \in Pbufs \cup {NULL}
        /\ NULL \notin Pbufs
        /\ TcpPcbs \subseteq Pcbs
    BY PoolsAssumption DEF ServerInv, GoodBlocks, Blocks, Pcbs
  <1>1. ASSUME NEW l \in ListenPcbs, Syn(l)
        PROVE  RxInv' /\ (ListsInUse => ListsInUse')
    <2>1. /\ UNCHANGED <<connections, buf>>
          /\ \E p \in TcpPcbs : /\ pcb[p].state = "FREE" /\ OnlyBlock(p)
                                /\ pcb'[p].refused = NULL
      BY <1>1, SynEffect
    <2>. QED
      BY <1>0, <2>1, RxAfterQuiet DEF OnlyBlock
  <1>2. ASSUME NEW p \in TcpPcbs,
               HalfOpenLost(p) \/ Connected(p) \/ RecvFin(p) \/ CloseDone(p)
        PROVE  RxInv' /\ (ListsInUse => ListsInUse')
    <2>1. /\ UNCHANGED <<connections, buf>> /\ OnlyBlock(p)
          /\ \/ /\ pcb[p].state \in {"SYN_RCVD", "CLOSING", "TIME_WAIT"}
                /\ pcb'[p] = FreePcb
             \/ SameStream(p)
      BY <1>2, ProgressEffect
    <2>2. pcb'[p].refused = pcb[p].refused
      BY <1>0, <2>1, NewBlock DEF SameStream
    <2>. QED
      BY <2>1, <2>2, RxAfterQuiet DEF OnlyBlock
  <1>3. ASSUME NEW p \in TcpPcbs, Accept(p)
        PROVE  RxInv' /\ (ListsInUse => ListsInUse')
    <2>1. /\ UNCHANGED buf /\ OnlyBlock(p) /\ pcb[p].state = "SYN_RCVD"
          /\ \E index \in Sockets :
                OnlyEntry(index) /\ connections'[index].pbuf = connections[index].pbuf
          /\ pcb'[p].refused = pcb[p].refused \/ pcb'[p] = FreePcb
      BY <1>3, AcceptEffect DEF AssignedTo, Released
    <2>2. pcb'[p].refused = pcb[p].refused
      BY <1>0, <2>1, NewBlock
    <2>. QED
      BY <2>1, <2>2, RxAfterQuiet DEF OnlyBlock, OnlyEntry
  <1>4. ASSUME NEW p \in TcpPcbs, NEW event \in ServerEvents,
               Err(p, event) \/ (event = "XTCP_ABORTED" /\ AcceptFails(p))
        PROVE  RxInv' /\ (ListsInUse => ListsInUse')
    <2>. DEFINE hit == pcb[p].arg
    <2>1. /\ hit \in Sockets /\ OnlyEntry(hit)
          /\ connections'[hit].pbuf = connections[hit].pbuf
          /\ OnlyBlock(p) /\ pcb'[p] = FreePcb /\ buf' = RefusedFreed(p)
      BY <1>4, ErrEffect DEF Released
    <2>2. \A i \in Sockets : connections'[i].pbuf = connections[i].pbuf
      BY <2>1 DEF OnlyEntry
    <2>3. /\ p \in Pcbs /\ pcb'[p].refused = NULL
          /\ \A q \in Pcbs : q # p => pcb'[q].refused = pcb[q].refused
      BY <1>0, <2>1, NewBlock DEF OnlyBlock
    <2>. QED
      BY <2>1, <2>2, <2>3, RxAfterGiveUp
  <1>5. ASSUME NEW p \in TcpPcbs, RecvData(p)
        PROVE  RxInv' /\ (ListsInUse => ListsInUse')
    <2>. DEFINE i == pcb[p].arg
    <2>1. PICK b \in Pbufs :
             /\ buf[b] = FreeBuf
             /\ buf' = [buf EXCEPT ![b] = [src |-> p, seq |-> pcb[p].next]]
             /\ \/ /\ pcb'[p].refused = NULL
                   /\ connections'[i].pbuf = Append(connections[i].pbuf, b)
                \/ /\ pcb'[p].refused = b
                   /\ connections'[i].pbuf = connections[i].pbuf
      BY <1>5, RecvDataEffect
    <2>2. /\ i \in Sockets /\ pcb[p].refused = NULL
          /\ OnlyEntry(i) /\ OnlyBlock(p)
      BY <1>5, RecvDataEffect
    <2>. HIDE DEF i
    <2>3. buf'[b] # FreeBuf /\ \A d \in Pbufs : d # b => buf'[d] = buf[d]
      <3>1. buf'[b] = [src |-> p, seq |-> pcb[p].next]
            /\ \A d \in Pbufs : d # b => buf'[d] = buf[d]
        BY <2>1 DEF ServerInv
      <3>2. p # NULL
        BY PoolsAssumption
      <3>3. buf'[b].src # NULL
        BY <3>1, <3>2
      <3>. QED
        BY <3>1, <3>3 DEF FreeBuf
    <2>a. ListsInUse
      BY <1>5, RecvDataEffect, IntactLists
    <2>4. \A j \in Sockets : \A k \in Places(j) : At(j, k) # b
      BY <2>1, <2>a DEF ListsInUse
    <2>5. \A q \in Pcbs : pcb[q].refused # b
      BY <1>0, <2>1 DEF RxInv, RefusedInUse
    <2>6. CASE pcb'[p].refused = NULL
                 /\ connections'[i].pbuf = Append(connections[i].pbuf, b)
      <3>1. \A q \in Pcbs : pcb'[q].refused =
                              IF pcb[q].refused = b THEN NULL ELSE pcb[q].refused
        BY <2>2, <2>5, <2>6 DEF OnlyBlock
      <3>. QED
        BY <2>2, <2>3, <2>4, <2>6, <3>1, RxAfterAppend
    <2>7. CASE pcb'[p].refused = b /\ connections'[i].pbuf = connections[i].pbuf
      <3>1. \A j \in Sockets : connections'[j].pbuf = connections[j].pbuf
        BY <2>2, <2>7 DEF OnlyEntry
      <3>2. \A q \in Pcbs : q # p => pcb'[q].refused = pcb[q].refused
        BY <2>2 DEF OnlyBlock
      <3>. QED
        BY <1>0, <2>1, <2>2, <2>3, <2>4, <2>7, <3>1, <3>2, RxAfterRefuse
    <2>. QED
      BY <2>1, <2>6, <2>7, Zenon
  <1>6. ASSUME NEW p \in TcpPcbs, RetryRefused(p)
        PROVE  RxInv' /\ (ListsInUse => ListsInUse')
    <2>. DEFINE i == pcb[p].arg
                b == pcb[p].refused
    <2>1. /\ i \in Sockets /\ b \in Pbufs /\ OnlyEntry(i) /\ OnlyBlock(p)
          /\ connections'[i].pbuf = Append(connections[i].pbuf, b)
          /\ pcb'[p].refused = NULL /\ UNCHANGED buf
      BY <1>6, RetryEffect
    <2>. HIDE DEF i
    <2>2. \A q \in Pcbs : pcb'[q].refused =
                            IF pcb[q].refused = b THEN NULL ELSE pcb[q].refused
      BY <1>0, <2>1 DEF OnlyBlock, RxInv, OnePlace
    <2>3. buf'[b] # FreeBuf /\ \A j \in Sockets : \A k \in Places(j) : At(j, k) # b
      BY <1>0, <2>1 DEF RxInv, OnePlace, RefusedInUse
    <2>. HIDE DEF b
    <2>. QED
      BY <2>1, <2>2, <2>3, RxAfterAppend
  <1>7. ASSUME NEW p \in TcpPcbs, Sent(p)
        PROVE  RxInv' /\ (ListsInUse => ListsInUse')
    <2>1. UNCHANGED <<connections, buf>> /\ p \in Pcbs /\ OnlyBlock(p) /\ SameStream(p)
      BY <1>7, SendEffect
    <2>. QED
      BY <2>1, RxAfterQuiet DEF OnlyBlock, SameStream
  <1>8. ASSUME NEW p \in UdpPcbs, xtcp_udp_recv(p) PROVE RxInv'
    <2>. DEFINE i == pcb[p].arg
                c == connections[i].client_num
    <2>1. PICK b \in Pbufs :
             /\ buf[b] = FreeBuf
             /\ connections'[i].pbuf = Append(connections[i].pbuf, b)
             /\ buf' = IF Accepts(c) THEN [buf EXCEPT ![b] = [src |-> p, seq |-> 0]]
                                     ELSE buf
      BY <1>8, DatagramEffect
    <2>2. /\ i \in Sockets /\ MemoryIntact /\ OnlyEntry(i) /\ UNCHANGED pcb
      BY <1>8, DatagramEffect
    <2>3. \A d \in Pbufs : d # b => buf'[d] = buf[d]
      BY <2>1
    <2>4. \A j \in Sockets : \A k \in Places(j) : At(j, k) # b
      BY <2>1, <2>2, IntactLists DEF ListsInUse
    <2>5. \A q \in Pcbs : pcb'[q].refused =
                            IF pcb[q].refused = b THEN NULL ELSE pcb[q].refused
      BY <1>0, <2>1, <2>2 DEF RxInv, RefusedInUse
    <2>. HIDE DEF i, c
    <2>. QED
      BY <2>1, <2>2, <2>3, <2>4, <2>5, RxAfterAppend
  <1>9. {"XTCP_ABORTED", "XTCP_TIMED_OUT"} \subseteq ServerEvents
    BY DEF ServerEvents
  <1>. QED
    BY <1>1, <1>2, <1>3, <1>4, <1>5, <1>6, <1>7, <1>8, <1>9 DEF Callback, TcpCallback

\* Without UDP sockets no step allocates or opens a UDP block.
LEMMA UdpUnused ==
    ASSUME ServerInv, NoUdpBlocks, XTCP_PROTOCOL_UDP \notin Protocols, Next
    PROVE  NoUdpBlocks'
  <1>0. /\ UdpPcbs \subseteq Pcbs
        /\ \A p \in TcpPcbs \cup ListenPcbs : p \in Pcbs /\ p \notin UdpPcbs
        /\ XTCP_PROTOCOL_UDP # XTCP_PROTOCOL_NONE
        /\ \A i \in Sockets : connections[i].pcb \notin UdpPcbs
    <2>1. ASSUME NEW i \in Sockets PROVE connections[i].pcb \notin UdpPcbs
      <3>1. connections[i] \in GoodEntries
        BY DEF ServerInv
      <3>2. connections[i].protocol \in {XTCP_PROTOCOL_NONE, XTCP_PROTOCOL_TCP}
        BY <3>1, ProtocolsAssumption DEF GoodEntries, Entries
      <3>. QED
        BY <3>1, <3>2, PoolsAssumption DEF GoodEntries
    <2>. QED
      BY <2>1, PoolsAssumption DEF Pcbs, XTCP_PROTOCOL_UDP, XTCP_PROTOCOL_NONE
  <1>1. ASSUME UNCHANGED pcb PROVE NoUdpBlocks'
    BY <1>1 DEF NoUdpBlocks
  <1>2. ASSUME NEW p \in TcpPcbs \cup ListenPcbs, OnlyBlock(p) PROVE NoUdpBlocks'
    BY <1>0, <1>2 DEF NoUdpBlocks, OnlyBlock
  <1>3. ASSUME NEW c \in Clients, ClientCall(c) PROVE NoUdpBlocks'
    <2>1. CASE get_event(c)
      BY <1>1, <2>1 DEF get_event
    <2>2. ASSUME NEW id, close(c, id) PROVE NoUdpBlocks'
      <3>1. /\ id \in Sockets
            /\ \A q \in Pcbs : q # connections[id].pcb =>
                  pcb'[q] = pcb[q] \/ pcb'[q] = FreePcb
        BY <2>2, CloseEffect
      <3>. QED
        BY <1>0, <3>1, NewBlock DEF NoUdpBlocks
    <2>3. ASSUME NEW id \in Sockets, send_tcp(c, id) PROVE NoUdpBlocks'
      <3>1. LET p == connections[id].pcb IN p \in Pcbs /\ OnlyBlock(p)
        BY <2>3, SendEffect
      <3>. QED
        BY <1>0, <1>2, <3>1 DEF Pcbs
    <2>4. ASSUME NEW protocol, NEW pool, NEW state,
             \/ protocol = XTCP_PROTOCOL_UDP /\ pool = UdpPcbs /\ state = "UDP"
             \/ protocol = XTCP_PROTOCOL_TCP /\ pool = TcpPcbs /\ state = "CLOSED"
             \/ protocol = XTCP_PROTOCOL_NONE /\ pool = {},
             NewSocket(c, protocol, pool, state)
          PROVE  NoUdpBlocks'
      <3>1. pool \subseteq TcpPcbs
        BY <2>4 DEF NewSocket
      <3>2. UNCHANGED pcb \/ \E p \in pool : OnlyBlock(p)
        BY <2>4, NewSocketEffect
      <3>. QED
        BY <1>1, <1>2, <3>1, <3>2
    <2>5. CASE socket_tcp_kill(c)
      <3>1. \E v \in Victims : OnlyBlock(v)
        BY <2>5, KillEffect
      <3>. QED
        BY <1>2, <3>1 DEF Victims
    <2>6. ASSUME NEW id, listen_tcp(c, id) PROVE NoUdpBlocks'
      <3>1. PICK l \in ListenPcbs : \A q \in Pcbs :
               q \notin {connections[id].pcb, l} => pcb'[q] = pcb[q]
        BY <2>6, ListenEffect
      <3>2. id \in Sockets
        BY <2>6, ListenEffect
      <3>. QED
        BY <1>0, <3>1, <3>2 DEF NoUdpBlocks
    <2>7. ASSUME NEW id PROVE ~listen_udp(c, id) /\ ~connect_udp(c, id)
      BY <1>0, OpenUdpEffect DEF listen_udp, connect_udp
    <2>8. ASSUME NEW id, connect_tcp(c, id) PROVE NoUdpBlocks'
      BY <1>2, <2>8, ConnectEffect
    <2>9. ASSUME NEW id, recv(c, id) PROVE NoUdpBlocks'
      BY <1>0, <2>9, RecvEffect DEF NoUdpBlocks
    <2>10. ASSUME NEW id, NEW data, set_connection_client_data(c, id, data)
           PROVE  NoUdpBlocks'
      BY <1>1, <2>10 DEF set_connection_client_data
    <2>. QED
      BY <1>3, <2>1, <2>2, <2>3, <2>4, <2>5, <2>6, <2>7, <2>8, <2>9, <2>10
      DEF ClientCall, OtherCall, socket_udp, socket_none, socket_tcp, recvfrom
  <1>4. ASSUME Callback PROVE NoUdpBlocks'
    <2>1. ASSUME NEW l \in ListenPcbs, Syn(l) PROVE NoUdpBlocks'
      BY <1>2, <2>1, SynEffect
    <2>2. ASSUME NEW p \in TcpPcbs, TcpCallback(p) PROVE OnlyBlock(p)
      <3>1. {"XTCP_ABORTED", "XTCP_TIMED_OUT"} \subseteq ServerEvents
        BY DEF ServerEvents
      <3>2. \A event \in ServerEvents :
               Err(p, event) \/ (event = "XTCP_ABORTED" /\ AcceptFails(p)) => OnlyBlock(p)
        BY ErrEffect
      <3>. QED
        BY <2>2, <3>1, <3>2, ProgressEffect, AcceptEffect, RecvDataEffect,
           RetryEffect, SendEffect
        DEF TcpCallback
    <2>3. ASSUME NEW p \in UdpPcbs, xtcp_udp_recv(p) PROVE NoUdpBlocks'
      BY <1>1, <2>3 DEF xtcp_udp_recv
    <2>. QED
      BY <1>2, <1>4, <2>1, <2>2, <2>3 DEF Callback
  <1>. QED
    BY <1>3, <1>4 DEF Next

\* The places of a buffer, counted.
LEMMA RxHoldersCounted ==
    ASSUME ServerInv, RxInv, ListsInUse
    PROVE  RxBuffersOwned
  <1>0. /\ \A p \in Pcbs : pcb[p].refused # NULL => p \in TcpPcbs
        /\ TcpPcbs \subseteq Pcbs /\ NULL \notin Pbufs
    BY PoolsAssumption DEF ServerInv, GoodBlocks, Pcbs
  <1>1. ASSUME NEW b \in Pbufs
        PROVE  Cardinality(RxBufferHolders(b)) = IF buf[b] = FreeBuf THEN 0 ELSE 1
    <2>. DEFINE H == RxBufferHolders(b)
    <2>1. \A x : x \in H <=>
             \/ \E i \in Sockets : \E k \in Places(i) : At(i, k) = b /\ x = <<i, k>>
             \/ x \in TcpPcbs /\ pcb[x].refused = b
      <3>1. \A i \in Sockets : DOMAIN connections[i].pbuf = Places(i)
        BY ListPlaces
      <3>2. \A x : x \in H <=>
               \/ \E i \in Sockets :
                     x \in {i} \X {k \in DOMAIN connections[i].pbuf :
                                      connections[i].pbuf[k] = b}
               \/ x \in {p \in TcpPcbs : pcb[p].refused = b}
        BY DEF RxBufferHolders
      <3>3. \A i \in Sockets : \A x :
               x \in {i} \X {k \in DOMAIN connections[i].pbuf :
                                connections[i].pbuf[k] = b}
                 <=> \E k \in Places(i) : At(i, k) = b /\ x = <<i, k>>
        BY <3>1 DEF At
      <3>. HIDE DEF H
      <3>. QED
        BY <3>2, <3>3
    <2>2. CASE buf[b] = FreeBuf
      <3>1. H = {}
        BY <1>0, <2>1, <2>2 DEF RxInv, RefusedInUse, ListsInUse
      <3>. QED
        BY <2>2, <3>1, FS_EmptySet
    <2>3. CASE buf[b] # FreeBuf
      <3>. HIDE DEF H
      <3>1. ASSUME NEW i \in Sockets, NEW k \in Places(i), At(i, k) = b
            PROVE  \E x : H = {x}
        <4>1. \A j \in Sockets : \A m \in Places(j) : At(j, m) = b => j = i /\ m = k
          BY <3>1 DEF RxInv, OnePlace
        <4>2. \A p \in TcpPcbs : pcb[p].refused # b
          BY <1>0, <3>1 DEF RxInv, OnePlace
        <4>3. H = {<<i, k>>}
          BY <2>1, <3>1, <4>1, <4>2
        <4>. QED
          BY <4>3
      <3>2. ASSUME NEW p \in Pcbs, pcb[p].refused = b
            PROVE  \E x : H = {x}
        <4>1. p \in TcpPcbs
          BY <1>0, <3>2
        <4>2. \A j \in Sockets : \A m \in Places(j) : At(j, m) # b
          BY <1>0, <3>2 DEF RxInv, OnePlace
        <4>3. \A q \in TcpPcbs : pcb[q].refused = b => q = p
          BY <1>0, <3>2 DEF RxInv, OnePlace
        <4>4. H = {p}
          BY <2>1, <3>2, <4>1, <4>2, <4>3
        <4>. QED
          BY <4>4
      <3>3. PICK x : H = {x}
        BY <2>3, <3>1, <3>2 DEF RxInv, NothingLeaked
      <3>4. Cardinality(H) = 1
        BY <3>3, FS_Singleton
      <3>. QED
        BY <2>3, <3>4 DEF H
    <2>. QED
      BY <2>2, <2>3
  <1>. QED
    BY <1>1 DEF RxBuffersOwned

\* In every surrounding, no buffer is in two places and none is leaked; while
\* there are no datagrams, none on a list has been freed.
LEMMA RxAlways == Spec => []RxInv
  <1>1. Init => RxInv
    <2>. SUFFICES ASSUME Init PROVE RxInv
      OBVIOUS
    <2>1. /\ \A i \in Sockets : connections[i].pbuf = <<>>
          /\ \A p \in Pcbs : pcb[p].refused = NULL
          /\ \A b \in Pbufs : buf[b] = FreeBuf
      BY NewBlock DEF Init, init_client_connections, InitEntry
    <2>2. \A i \in Sockets : Places(i) = {}
      BY <2>1, EmptySeq DEF Places
    <2>3. \A b \in Pbufs : b # NULL
      BY PoolsAssumption
    <2>. QED
      BY <2>1, <2>2, <2>3 DEF RxInv, RefusedInUse, OnePlace, NothingLeaked
  <1>2. ServerInv /\ RxInv /\ [Next]_vars => RxInv'
    <2>. SUFFICES ASSUME ServerInv, RxInv, [Next]_vars PROVE RxInv'
      OBVIOUS
    <2>1. ServerInv'
      BY ServerInvNext
    <2>2. CASE Next
      BY <2>1, <2>2, RxClient, RxCallback DEF Next
    <2>3. CASE UNCHANGED vars
      BY <2>3, RxAfterQuiet DEF vars
    <2>. QED
      BY <2>2, <2>3
  <1>. QED
    BY <1>1, <1>2, ServerInvAlways, PTL DEF Spec

\* Every receive buffer lwIP has handed out is in exactly one place, however
\* connections are accepted, refused, closed, reset or aborted, as long as the
\* clients open no UDP sockets: xtcp_udp_recv links a datagram that it frees
\* again when its event is refused.
THEOREM BuffersAreOwned ==
    ASSUME XTCP_PROTOCOL_UDP \notin Protocols
    PROVE  Spec => []RxBuffersOwned
  <1>1. Init => ListsInUse /\ NoUdpBlocks
    <2>. SUFFICES ASSUME Init PROVE ListsInUse /\ NoUdpBlocks
      OBVIOUS
    <2>1. /\ \A i \in Sockets : connections[i].pbuf = <<>>
          /\ \A p \in Pcbs : pcb[p].state = "FREE"
      BY NewBlock DEF Init, init_client_connections, InitEntry
    <2>2. \A i \in Sockets : Places(i) = {}
      BY <2>1, EmptySeq DEF Places
    <2>. QED
      BY <2>1, <2>2 DEF ListsInUse, NoUdpBlocks, Pcbs
  <1>2. ServerInv /\ RxInv /\ ListsInUse /\ NoUdpBlocks /\ [Next]_vars
           => ListsInUse' /\ NoUdpBlocks'
    <2>. SUFFICES ASSUME ServerInv, RxInv, ListsInUse, NoUdpBlocks, [Next]_vars
                  PROVE  ListsInUse' /\ NoUdpBlocks'
      OBVIOUS
    <2>1. ServerInv'
      BY ServerInvNext
    <2>2. CASE Next
      <3>1. \A p \in UdpPcbs : ~xtcp_udp_recv(p)
        BY DEF NoUdpBlocks, xtcp_udp_recv
      <3>2. ListsInUse'
        BY <2>1, <2>2, <3>1, RxClient, RxCallback DEF Next
      <3>. QED
        BY <2>2, <3>2, UdpUnused
    <2>3. CASE UNCHANGED vars
      BY <2>3, RxAfterQuiet DEF vars, NoUdpBlocks
    <2>. QED
      BY <2>2, <2>3
  <1>3. ServerInv /\ RxInv /\ ListsInUse => RxBuffersOwned
    BY RxHoldersCounted
  <1>. QED
    BY <1>1, <1>2, <1>3, ServerInvAlways, RxAlways, PTL DEF Spec

-----------------------------------------------------------------------------
(* Numbers modulo SEQ_NUMBERS.                                             *)

\* Quotient and remainder.
LEMMA DivMod ==
    ASSUME NEW S \in Nat \ {0}, NEW a \in Nat
    PROVE  a % S \in 0 .. S - 1 /\ a \div S \in Int /\ a = S * (a \div S) + (a % S)
  OBVIOUS

\* There is only one remainder.
LEMMA OneRemainder ==
    ASSUME NEW S \in Nat \ {0}, NEW q1 \in Int, NEW q2 \in Int,
           NEW r1 \in 0 .. S - 1, NEW r2 \in 0 .. S - 1, S * q1 + r1 = S * q2 + r2
    PROVE  r1 = r2
  <1>1. S * (q1 - q2) = r2 - r1
    OBVIOUS
  <1>2. CASE q1 - q2 >= 1
    BY <1>1, <1>2
  <1>3. CASE q1 - q2 <= -1
    BY <1>1, <1>3
  <1>4. CASE q1 = q2
    BY <1>1, <1>4
  <1>. QED
    BY <1>2, <1>3, <1>4

\* A sequence number may be reduced before or after counting on.
LEMMA CountingOn ==
    ASSUME NEW S \in Nat \ {0}, NEW a \in Nat, NEW b \in Nat
    PROVE  ((a % S) + b) % S = (a + b) % S
  <1>. DEFINE r == a % S
              r1 == (r + b) % S
              r2 == (a + b) % S
              q == a \div S
              q1 == (r + b) \div S
              q2 == (a + b) \div S
  <1>1. r \in 0 .. S - 1 /\ q \in Int /\ a = S * q + r
    BY DivMod
  <1>2. r + b \in Nat /\ a + b \in Nat
    BY <1>1
  <1>3. r1 \in 0 .. S - 1 /\ q1 \in Int /\ r + b = S * q1 + r1
    BY <1>2, DivMod
  <1>4. r2 \in 0 .. S - 1 /\ q2 \in Int /\ a + b = S * q2 + r2
    BY <1>2, DivMod
  <1>. HIDE DEF r, r1, r2, q, q1, q2
  <1>5. q + q1 \in Int /\ S * (q + q1) = S * q + S * q1
    BY <1>1, <1>3
  <1>6. S * q \in Int /\ S * q1 \in Int /\ S * q2 \in Int
    BY <1>1, <1>3, <1>4
  <1>7. S * (q + q1) + r1 = S * q2 + r2
    BY <1>1, <1>3, <1>4, <1>5, <1>6
  <1>8. r1 = r2
    BY <1>3, <1>4, <1>5, <1>7, OneRemainder
  <1>. QED
    BY <1>8 DEF r, r1, r2

\* The number after the one reached by counting n on.
LEMMA NextNumber ==
    ASSUME NEW S \in Nat \ {0}, NEW a \in Nat, NEW n \in Nat
    PROVE  (((a + n) % S) + 1) % S = (a + (n + 1)) % S
  <1>1. a + n \in Nat /\ (a + n) + 1 = a + (n + 1) /\ 1 \in Nat
    OBVIOUS
  <1>2. \A j \in Nat : ((j % S) + 1) % S = (j + 1) % S
    BY CountingOn
  <1>3. (((a + n) % S) + 1) % S = ((a + n) + 1) % S
    BY <1>1, <1>2
  <1>. QED
    BY <1>1, <1>3

-----------------------------------------------------------------------------
(* A connection's stream.                                                  *)

\* What StreamIntact says of entry i, its block p and its list of n segments.
Streaming(i, p, n) ==
    /\ \A k \in 1 .. n :
          buf[At(i, k)] = [src |-> p, seq |-> (next_read[i] + (k - 1)) % SEQ_NUMBERS]
    /\ pcb[p].refused = NULL =>
          /\ pcb[p].next = (next_read[i] + n) % SEQ_NUMBERS
          /\ pcb[p].wnd = n
    /\ pcb[p].refused # NULL =>
          /\ buf[pcb[p].refused] =
                [src |-> p, seq |-> (next_read[i] + n) % SEQ_NUMBERS]
          /\ pcb[p].next = (next_read[i] + (n + 1)) % SEQ_NUMBERS
          /\ pcb[p].wnd = n + 1

\* Entry i's stream, if its connection carries data.
StreamOK(i) ==
    \A p \in Pcbs, n \in Nat :
        /\ connections[i].pcb = p /\ pcb[p].state \in Synchronized
        /\ Len(connections[i].pbuf) = n
        => Streaming(i, p, n)

StreamInv == \A i \in Sockets : StreamOK(i)

\* StreamInv says what StreamIntact says.
LEMMA StreamMeaning ==
    ASSUME ServerInv, StreamInv
    PROVE  StreamIntact
  <1>1. ASSUME NEW i \in Sockets, connections[i].pcb # NULL,
               pcb[connections[i].pcb].state \in Synchronized
        PROVE  /\ \A k \in 1 .. Len(connections[i].pbuf) :
                     buf[connections[i].pbuf[k]] =
                        [src |-> connections[i].pcb,
                         seq |-> (next_read[i] + (k - 1)) % SEQ_NUMBERS]
               /\ pcb[connections[i].pcb].refused # NULL =>
                     buf[pcb[connections[i].pcb].refused] =
                        [src |-> connections[i].pcb,
                         seq |-> (next_read[i] + Len(connections[i].pbuf)) % SEQ_NUMBERS]
               /\ pcb[connections[i].pcb].next =
                     (next_read[i] + (Len(connections[i].pbuf) +
                        (IF pcb[connections[i].pcb].refused = NULL THEN 0 ELSE 1)))
                     % SEQ_NUMBERS
               /\ pcb[connections[i].pcb].wnd = Len(connections[i].pbuf) +
                     (IF pcb[connections[i].pcb].refused = NULL THEN 0 ELSE 1)
    <2>1. PICK p : p = connections[i].pcb
      OBVIOUS
    <2>2. PICK n : n = Len(connections[i].pbuf)
      OBVIOUS
    <2>3. p \in Pcbs /\ n \in Nat
      BY <1>1, <2>1, <2>2, ListPlaces DEF ServerInv, GoodEntries, Entries
    <2>4. Streaming(i, p, n)
      BY <1>1, <2>1, <2>2, <2>3 DEF StreamInv, StreamOK
    <2>5. n + 0 = n
      BY <2>3
    <2>. QED
      BY <2>1, <2>2, <2>4, <2>5 DEF Streaming, At
  <1>. QED
    BY <1>1 DEF StreamIntact

\* A stream no step touches.
LEMMA StreamKept ==
    ASSUME ServerInv, NEW i \in Sockets, StreamOK(i),
           connections'[i].pbuf = connections[i].pbuf,
           next_read'[i] = next_read[i],
           \A k \in Places(i) : buf'[At(i, k)] = buf[At(i, k)],
           \A p \in Pcbs : connections'[i].pcb = p /\ pcb'[p].state \in Synchronized =>
              /\ connections[i].pcb = p /\ pcb[p].state \in Synchronized
              /\ pcb'[p].next = pcb[p].next /\ pcb'[p].wnd = pcb[p].wnd
              /\ pcb'[p].refused = pcb[p].refused
              /\ pcb[p].refused # NULL =>
                    buf'[pcb[p].refused] = buf[pcb[p].refused]
    PROVE  StreamOK(i)'
  <1>1. SUFFICES ASSUME NEW p \in Pcbs, NEW n \in Nat, connections'[i].pcb = p,
                        pcb'[p].state \in Synchronized,
                        Len(connections'[i].pbuf) = n
                 PROVE  Streaming(i, p, n)'
    BY DEF StreamOK
  <1>2. Streaming(i, p, n)
    BY <1>1 DEF StreamOK
  <1>3. Places(i) = 1 .. n /\ \A k : At(i, k)' = At(i, k)
    BY <1>1 DEF Places, At
  <1>. QED
    BY <1>1, <1>2, <1>3 DEF Streaming

\* Entry i has no connection that carries data.
LEMMA NoStream ==
    ASSUME NEW i \in Sockets,
           \A p \in Pcbs : connections'[i].pcb = p => pcb'[p].state \notin Synchronized
    PROVE  StreamOK(i)'
  BY DEF StreamOK, Synchronized

\* A connection begins without data.
LEMMA StreamBegins ==
    ASSUME NEW i \in Sockets, NEW p \in Pcbs, connections'[i].pcb = p,
           connections'[i].pbuf = <<>>, next_read'[i] = 0,
           pcb'[p].next = 0, pcb'[p].wnd = 0, pcb'[p].refused = NULL
    PROVE  StreamOK(i)'
  <1>1. SUFFICES ASSUME NEW n \in Nat, Len(connections'[i].pbuf) = n
                 PROVE  Streaming(i, p, n)'
    BY DEF StreamOK
  <1>2. n = 0
    BY <1>1, EmptySeq
  <1>3. (0 + n) % SEQ_NUMBERS = 0
    BY <1>2, PoolsAssumption
  <1>. QED
    BY <1>2, <1>3 DEF Streaming

\* The client has read the first of n + 1 segments.
LEMMA StreamRead ==
    ASSUME ServerInv, NEW i \in Sockets, NEW p \in Pcbs, NEW n \in Nat,
           Streaming(i, p, n + 1),
           \A k \in 1 .. n : At(i, k)' = At(i, k + 1)
                             /\ buf'[At(i, k + 1)] = buf[At(i, k + 1)],
           next_read'[i] = (next_read[i] + 1) % SEQ_NUMBERS,
           pcb'[p].next = pcb[p].next, pcb'[p].wnd = tcp_recved(pcb[p].wnd),
           pcb'[p].refused = pcb[p].refused,
           pcb[p].refused # NULL => buf'[pcb[p].refused] = buf[pcb[p].refused]
    PROVE  Streaming(i, p, n)'
  <1>. DEFINE a == next_read[i]
              S == SEQ_NUMBERS
  <1>0. a \in Nat /\ S \in Nat \ {0}
    BY PoolsAssumption DEF ServerInv
  <1>1. \A b \in Nat : (((a + 1) % S) + b) % S = (a + (b + 1)) % S
    <2>1. ASSUME NEW b \in Nat PROVE (((a + 1) % S) + b) % S = (a + (b + 1)) % S
      <3>. HIDE DEF a, S
      <3>1. a + 1 \in Nat /\ (a + 1) + b = a + (b + 1)
        BY <1>0
      <3>2. \A m \in Nat : ((m % S) + b) % S = (m + b) % S
        BY <1>0, CountingOn
      <3>3. (((a + 1) % S) + b) % S = ((a + 1) + b) % S
        BY <3>1, <3>2
      <3>. QED
        BY <3>1, <3>3
    <2>. QED
      BY <2>1
  <1>2. next_read'[i] = (a + 1) % S
    OBVIOUS
  <1>3. Streaming(i, p, n + 1)
    OBVIOUS
  <1>4. /\ \A k \in 1 .. n + 1 : buf[At(i, k)] = [src |-> p, seq |-> (a + (k - 1)) % S]
        /\ pcb[p].refused = NULL =>
              pcb[p].next = (a + (n + 1)) % S /\ pcb[p].wnd = n + 1
        /\ pcb[p].refused # NULL =>
              /\ buf[pcb[p].refused] = [src |-> p, seq |-> (a + (n + 1)) % S]
              /\ pcb[p].next = (a + ((n + 1) + 1)) % S /\ pcb[p].wnd = (n + 1) + 1
    BY <1>3 DEF Streaming
  <1>5. tcp_recved(n + 1) = n /\ tcp_recved((n + 1) + 1) = n + 1
    BY DEF tcp_recved
  <1>. HIDE DEF a, S
  <1>6. ASSUME NEW k \in 1 .. n
        PROVE  buf'[At(i, k)'] = [src |-> p, seq |-> (next_read'[i] + (k - 1)) % S]
    <2>1. k + 1 \in 1 .. n + 1 /\ k - 1 \in Nat /\ (k - 1) + 1 = k /\ (k + 1) - 1 = k
      OBVIOUS
    <2>2. buf[At(i, k + 1)] = [src |-> p, seq |-> (a + k) % S]
      BY <1>4, <2>1
    <2>3. (next_read'[i] + (k - 1)) % S = (a + k) % S
      BY <1>1, <1>2, <2>1
    <2>. QED
      BY <2>2, <2>3
  <1>7. (next_read'[i] + n) % S = (a + (n + 1)) % S
        /\ (next_read'[i] + (n + 1)) % S = (a + ((n + 1) + 1)) % S
    BY <1>1, <1>2
  <1>. QED
    BY <1>4, <1>5, <1>6, <1>7 DEF Streaming, S

\* A segment has been linked behind the n there were: a new one, or the refused one.
LEMMA StreamLinked ==
    ASSUME ServerInv, NEW i \in Sockets, NEW p \in Pcbs, NEW n \in Nat,
           NEW m \in Nat, m = n + 1,
           Streaming(i, p, n),
           \A k \in 1 .. n : At(i, k)' = At(i, k) /\ buf'[At(i, k)] = buf[At(i, k)],
           next_read'[i] = next_read[i], pcb'[p].refused = NULL,
           \/ /\ pcb[p].refused = NULL
              /\ buf'[At(i, m)'] = [src |-> p, seq |-> pcb[p].next]
              /\ pcb'[p].next = (pcb[p].next + 1) % SEQ_NUMBERS
              /\ pcb'[p].wnd = pcb[p].wnd + 1
           \/ /\ pcb[p].refused # NULL
              /\ buf'[At(i, m)'] = buf[pcb[p].refused]
              /\ pcb'[p].next = pcb[p].next /\ pcb'[p].wnd = pcb[p].wnd
    PROVE  Streaming(i, p, m)'
  <1>. DEFINE a == next_read[i]
              S == SEQ_NUMBERS
  <1>0. a \in Nat /\ S \in Nat \ {0}
    BY PoolsAssumption DEF ServerInv
  <1>1. /\ \A k \in 1 .. n : buf[At(i, k)] = [src |-> p, seq |-> (a + (k - 1)) % S]
        /\ pcb[p].refused = NULL => pcb[p].next = (a + n) % S /\ pcb[p].wnd = n
        /\ pcb[p].refused # NULL =>
              /\ buf[pcb[p].refused] = [src |-> p, seq |-> (a + n) % S]
              /\ pcb[p].next = (a + (n + 1)) % S /\ pcb[p].wnd = n + 1
    BY DEF Streaming
  <1>2. next_read'[i] = a /\ SEQ_NUMBERS = S
    OBVIOUS
  <1>. HIDE DEF a, S
  <1>3. (((a + n) % S) + 1) % S = (a + m) % S
    BY <1>0, NextNumber
  <1>4. /\ buf'[At(i, m)'] = [src |-> p, seq |-> (a + n) % S]
        /\ pcb'[p].next = (a + m) % S /\ pcb'[p].wnd = m
    BY <1>1, <1>2, <1>3
  <1>5. ASSUME NEW k \in 1 .. m
        PROVE  buf'[At(i, k)'] = [src |-> p, seq |-> (next_read'[i] + (k - 1)) % S]
    <2>1. CASE k \in 1 .. n
      BY <1>1, <1>2, <2>1
    <2>2. CASE k = m
      <3>1. k - 1 = n
        BY <2>2
      <3>2. buf'[At(i, k)'] = [src |-> p, seq |-> (a + n) % S]
        BY <1>4, <2>2
      <3>. QED
        BY <1>2, <3>1, <3>2
    <2>. QED
      BY <2>1, <2>2
  <1>6. pcb'[p].next = (next_read'[i] + m) % S
    BY <1>2, <1>4
  <1>. QED
    BY <1>2, <1>4, <1>5, <1>6 DEF Streaming

\* The next segment of the stream has been refused.
LEMMA StreamRefused ==
    ASSUME ServerInv, NEW i \in Sockets, NEW p \in Pcbs, NEW n \in Nat,
           Streaming(i, p, n), pcb[p].refused = NULL,
           \A k \in 1 .. n : At(i, k)' = At(i, k) /\ buf'[At(i, k)] = buf[At(i, k)],
           next_read'[i] = next_read[i], pcb'[p].refused # NULL,
           buf'[pcb'[p].refused] = [src |-> p, seq |-> pcb[p].next],
           pcb'[p].next = (pcb[p].next + 1) % SEQ_NUMBERS,
           pcb'[p].wnd = pcb[p].wnd + 1
    PROVE  Streaming(i, p, n)'
  <1>. DEFINE a == next_read[i]
              S == SEQ_NUMBERS
  <1>0. a \in Nat /\ S \in Nat \ {0}
    BY PoolsAssumption DEF ServerInv
  <1>1. /\ \A k \in 1 .. n : buf[At(i, k)] = [src |-> p, seq |-> (a + (k - 1)) % S]
        /\ pcb[p].next = (a + n) % S /\ pcb[p].wnd = n
    BY DEF Streaming
  <1>2. next_read'[i] = a /\ SEQ_NUMBERS = S
    OBVIOUS
  <1>. HIDE DEF a, S
  <1>3. (((a + n) % S) + 1) % S = (a + (n + 1)) % S
    BY <1>0, NextNumber
  <1>4. /\ buf'[pcb'[p].refused] = [src |-> p, seq |-> (next_read'[i] + n) % S]
        /\ pcb'[p].next = (next_read'[i] + (n + 1)) % S /\ pcb'[p].wnd = n + 1
    BY <1>1, <1>2, <1>3
  <1>5. \A k \in 1 .. n :
           buf'[At(i, k)'] = [src |-> p, seq |-> (next_read'[i] + (k - 1)) % S]
    BY <1>1, <1>2
  <1>. QED
    BY <1>2, <1>4, <1>5 DEF Streaming

\* Streams of entries whose block, list and buffers a step leaves alone.
LEMMA StreamAside ==
    ASSUME ServerInv, NEW i \in Sockets, StreamOK(i),
           connections'[i] = connections[i], next_read'[i] = next_read[i],
           \A p \in Pcbs : connections[i].pcb = p =>
              \/ pcb'[p] = pcb[p]
              \/ /\ pcb'[p].state = pcb[p].state /\ pcb'[p].wnd = pcb[p].wnd
                 /\ pcb'[p].next = pcb[p].next /\ pcb'[p].refused = pcb[p].refused,
           \A k \in Places(i) : buf'[At(i, k)] = buf[At(i, k)],
           \A p \in Pcbs : connections[i].pcb = p /\ pcb[p].refused # NULL =>
              buf'[pcb[p].refused] = buf[pcb[p].refused]
    PROVE  StreamOK(i)'
  BY StreamKept

\* Reading keeps the streams: the client's goes on by one segment.
LEMMA StreamRecv ==
    ASSUME ServerInv, HeldInv, RxInv, StreamInv,
           NEW c \in Clients, NEW id, recv(c, id)
    PROVE  StreamInv'
  <1>. DEFINE t == get_tcp_pcb(connections, id)
              s == connections[id].pbuf
              h == Head(s)
  <1>1. /\ id \in Sockets /\ s # <<>> /\ OnlyEntry(id) /\ SameOwner(id)
        /\ connections'[id].pbuf = Tail(s)
        /\ h \in Pbufs /\ buf' = [buf EXCEPT ![h] = FreeBuf]
        /\ next_read' = IF t = NULL THEN next_read
                        ELSE [next_read EXCEPT
                                ![id] = (next_read[id] + 1) % SEQ_NUMBERS]
    BY RecvEffect
  <1>2. \A q \in Pcbs :
           /\ pcb'[q].state = pcb[q].state /\ pcb'[q].next = pcb[q].next
           /\ pcb'[q].refused = pcb[q].refused
           /\ pcb'[q].wnd = IF q = t THEN tcp_recved(pcb[q].wnd) ELSE pcb[q].wnd
    BY RecvEffect
  <1>3. \A j \in Sockets : j # id =>
           connections'[j] = connections[j] /\ next_read'[j] = next_read[j]
    BY <1>1 DEF OnlyEntry, ServerInv
  <1>4. \A d \in Pbufs : d # h => buf'[d] = buf[d]
    BY <1>1 DEF ServerInv
  <1>5. PICK n \in Nat :
           /\ n + 1 = Len(s) /\ Places(id) = 1 .. n + 1 /\ At(id, 1) = h
           /\ \A k \in 1 .. n : At(id, k)' = At(id, k + 1)
           /\ Places(id)' = 1 .. n
    BY <1>1, <1>3, TailPlaces
  <1>6. \A j \in Sockets : \A k \in Places(j) : At(j, k) = h => j = id /\ k = 1
    <2>1. 1 \in Places(id)
      BY <1>5
    <2>. QED
      BY <1>1, <1>5, <2>1 DEF RxInv, OnePlace
  <1>7. \A p \in Pcbs : pcb[p].refused # h
    <2>1. 1 \in Places(id)
      BY <1>5
    <2>. QED
      BY <1>1, <1>5, <2>1 DEF RxInv, OnePlace
  <1>8. \A p \in Pcbs : pcb[p].refused # NULL =>
           buf'[pcb[p].refused] = buf[pcb[p].refused]
    BY <1>4, <1>7 DEF ServerInv, Blocks
  <1>9. \A j \in Sockets : \A k \in Places(j) : At(j, k) \in Pbufs
    BY ListPlaces
  <1>10. /\ connections[id].pcb \in Pcbs /\ t # NULL => t = connections[id].pcb
         /\ connections[id].pcb \in Pcbs /\ t = NULL =>
               pcb[connections[id].pcb].state \notin Synchronized
    <2>1. connections[id] \in GoodEntries
      BY <1>1 DEF ServerInv
    <2>2. NULL \notin Pcbs
      BY PoolsAssumption DEF Pcbs
    <2>3. ASSUME NEW p \in UdpPcbs PROVE pcb[p].state \notin Synchronized
      BY <2>3 DEF ServerInv, GoodBlocks, Pcbs, Synchronized
    <2>4. connections[id].protocol \in {XTCP_PROTOCOL_NONE, XTCP_PROTOCOL_TCP,
                                        XTCP_PROTOCOL_UDP}
      BY <2>1, ProtocolsAssumption DEF GoodEntries, Entries
    <2>. QED
      BY <2>1, <2>2, <2>3, <2>4 DEF get_tcp_pcb, GoodEntries
  <1>11. ASSUME NEW j \in Sockets, j # id PROVE StreamOK(j)'
    <2>1. \A p \in Pcbs : connections[j].pcb = p => p # t
      <3>1. t # NULL => t = connections[id].pcb
        BY DEF get_tcp_pcb
      <3>2. NULL \notin Pcbs
        BY PoolsAssumption DEF Pcbs
      <3>. HIDE DEF t
      <3>. QED
        BY <1>1, <1>11, <3>1, <3>2 DEF HeldInv, HeldOnce
    <2>2. \A k \in Places(j) : buf'[At(j, k)] = buf[At(j, k)]
      BY <1>4, <1>6, <1>9, <1>11
    <2>. HIDE DEF t, s, h
    <2>. QED
      BY <1>2, <1>3, <1>8, <1>11, <2>1, <2>2, StreamAside DEF StreamInv
  <1>12. StreamOK(id)'
    <2>1. SUFFICES ASSUME NEW p \in Pcbs, NEW m \in Nat, connections'[id].pcb = p,
                          pcb'[p].state \in Synchronized,
                          Len(connections'[id].pbuf) = m
                   PROVE  Streaming(id, p, m)'
      BY DEF StreamOK
    <2>2. connections[id].pcb = p /\ pcb[p].state \in Synchronized
      BY <1>1, <1>2, <2>1 DEF SameOwner
    <2>3. p = t /\ t # NULL
      BY <1>10, <2>2, PoolsAssumption DEF Pcbs
    <2>4. m = n
      <3>1. Places(id)' = 1 .. m
        BY <2>1 DEF Places
      <3>. QED
        BY <1>5, <3>1
    <2>5. Streaming(id, p, n + 1)
      BY <1>1, <1>5, <2>2 DEF StreamInv, StreamOK
    <2>6. next_read'[id] = (next_read[id] + 1) % SEQ_NUMBERS
      BY <1>1, <2>3 DEF ServerInv
    <2>7. \A k \in 1 .. n : At(id, k)' = At(id, k + 1)
                            /\ buf'[At(id, k + 1)] = buf[At(id, k + 1)]
      <3>1. \A k \in 1 .. n : k + 1 \in Places(id) /\ k + 1 # 1
        BY <1>5
      <3>. QED
        BY <1>1, <1>4, <1>5, <1>6, <1>9, <3>1
    <2>. HIDE DEF t, s, h
    <2>8. Streaming(id, p, n)'
      BY <1>1, <1>2, <1>8, <2>3, <2>5, <2>6, <2>7, StreamRead
    <2>. QED
      BY <2>4, <2>8
  <1>. QED
    BY <1>11, <1>12 DEF StreamInv

\* No client opens a connection of its own.
NoneOpening == \A p \in Pcbs : pcb[p].state # "SYN_SENT"

\* Closing a socket ends its stream and frees no buffer of another.
LEMMA StreamClose ==
    ASSUME ServerInv, HeldInv, RxInv, StreamInv,
           NEW c \in Clients, NEW id, close(c, id)
    PROVE  StreamInv'
  <1>. DEFINE p == connections[id].pcb
  <1>1. /\ id \in Sockets /\ OnlyEntry(id) /\ Released(id, <<>>)
        /\ \A q \in Pcbs : q # p =>
              \/ pcb'[q] = pcb[q]
              \/ pcb[q].state = "SYN_RCVD" /\ pcb'[q] = FreePcb
    BY CloseEffect
  <1>2. \A b \in Pbufs :
           buf'[b] = IF b \in ToSet(connections[id].pbuf)
                          \/ (p # NULL /\ b = pcb[p].refused)
                     THEN FreeBuf ELSE buf[b]
    BY DEF close
  <1>3. \A b : b \in ToSet(connections[id].pbuf) <=> \E k \in Places(id) : At(id, k) = b
    BY <1>1, ListPlaces DEF ToSet, Places, At
  <1>4. \A j \in Sockets : j # id => next_read'[j] = next_read[j]
    BY <1>1 DEF close, Forget, ServerInv
  <1>5. NULL \notin Pcbs /\ NULL \notin Pbufs
    BY PoolsAssumption DEF Pcbs
  <1>6. p = NULL \/ p \in Pcbs
    BY <1>1 DEF ServerInv, GoodEntries, Entries
  <1>7. StreamOK(id)'
    BY <1>1, <1>5, NoStream DEF Released
  <1>8. ASSUME NEW j \in Sockets, j # id PROVE StreamOK(j)'
    <2>1. \A q \in Pcbs : connections[j].pcb = q => q # p /\ pcb[q].state # "SYN_RCVD"
      BY <1>1, <1>5, <1>8 DEF HeldInv, HeldOnce, HeldWell, Unheld
    <2>. HIDE DEF p
    <2>2. \A k \in Places(j) : buf'[At(j, k)] = buf[At(j, k)]
      <3>1. \A k \in Places(j) : At(j, k) \in Pbufs
        BY ListPlaces
      <3>2. \A k \in Places(j) : \A m \in Places(id) : At(id, m) # At(j, k)
        BY <1>1, <1>8 DEF RxInv, OnePlace
      <3>3. \A k \in Places(j) : p # NULL => At(j, k) # pcb[p].refused
        BY <1>6 DEF RxInv, OnePlace
      <3>. QED
        BY <1>2, <1>3, <3>1, <3>2, <3>3
    <2>3. ASSUME NEW q \in Pcbs, connections[j].pcb = q, pcb[q].refused # NULL
          PROVE  buf'[pcb[q].refused] = buf[pcb[q].refused]
      <3>1. pcb[q].refused \in Pbufs
        BY <2>3 DEF ServerInv, Blocks
      <3>2. \A m \in Places(id) : At(id, m) # pcb[q].refused
        BY <1>1 DEF RxInv, OnePlace
      <3>3. p # NULL => pcb[q].refused # pcb[p].refused
        BY <1>6, <2>1, <2>3 DEF RxInv, OnePlace
      <3>. QED
        BY <1>2, <1>3, <3>1, <3>2, <3>3
    <2>4. connections'[j] = connections[j] /\ StreamOK(j)
      BY <1>1, <1>8 DEF OnlyEntry, StreamInv
    <2>5. \A q \in Pcbs : connections[j].pcb = q => pcb'[q] = pcb[q]
      BY <1>1, <2>1
    <2>. QED
      BY <1>4, <1>8, <2>2, <2>3, <2>4, <2>5, StreamAside
  <1>. QED
    BY <1>7, <1>8 DEF StreamInv

\* Data and buffers stay; entry i has no stream afterwards, and the other entries'
\* blocks carry on.
LEMMA StreamElsewhere ==
    ASSUME ServerInv, StreamInv, NEW i, OnlyEntry(i), UNCHANGED <<buf, next_read>>,
           \A p \in Pcbs : i \in Sockets /\ connections'[i].pcb = p =>
              pcb'[p].state \notin Synchronized,
           \A j \in Sockets : j # i =>
              \A p \in Pcbs : connections[j].pcb = p => pcb'[p] = pcb[p]
    PROVE  StreamInv'
  <1>1. ASSUME NEW j \in Sockets, j # i PROVE StreamOK(j)'
    <2>1. connections'[j] = connections[j] /\ StreamOK(j)
      BY <1>1 DEF OnlyEntry, StreamInv
    <2>. QED
      BY <1>1, <2>1, StreamAside
  <1>2. i \in Sockets => StreamOK(i)'
    BY NoStream
  <1>. QED
    BY <1>1, <1>2 DEF StreamInv

\* Everything that makes a stream stays.
LEMMA StreamQuiet ==
    ASSUME ServerInv, StreamInv, UNCHANGED <<buf, next_read>>,
           \A j \in Sockets : /\ connections'[j].pbuf = connections[j].pbuf
                              /\ connections'[j].pcb = connections[j].pcb,
           \A p \in Pcbs : \/ pcb'[p].state \notin Synchronized
                           \/ /\ pcb[p].state \in Synchronized
                              /\ pcb'[p].wnd = pcb[p].wnd /\ pcb'[p].next = pcb[p].next
                              /\ pcb'[p].refused = pcb[p].refused
    PROVE  StreamInv'
  BY StreamKept DEF StreamInv

\* The calls of clients keep the streams.
LEMMA StreamClient ==
    ASSUME ServerInv, HeldInv, RxInv, StreamInv, NoneOpening,
           Env \subseteq {"linger"},
           NEW c \in Clients, ClientCall(c)
    PROVE  StreamInv' /\ NoneOpening'
  <1>0. /\ NULL \notin Pcbs /\ TcpPcbs \cup ListenPcbs \cup UdpPcbs = Pcbs
        /\ "SYN_SENT" \notin Synchronized
    BY PoolsAssumption DEF Pcbs, Synchronized
  <1>1. CASE get_event(c)
    BY <1>1, StreamQuiet DEF get_event, NoneOpening, Synchronized
  <1>2. ASSUME NEW id, close(c, id) PROVE StreamInv' /\ NoneOpening'
    <2>1. \A q \in Pcbs : pcb'[q] \in {pcb[q], FreePcb} \/ pcb'[q].state = "CLOSING"
      BY <1>2, CloseEffect
    <2>. QED
      BY <1>2, <2>1, StreamClose, NewBlock DEF NoneOpening
  <1>3. ASSUME NEW id \in Sockets, send_tcp(c, id) PROVE StreamInv' /\ NoneOpening'
    <2>. DEFINE p == connections[id].pcb
    <2>1. /\ UNCHANGED <<connections, buf, next_read>>
          /\ p \in Pcbs /\ OnlyBlock(p) /\ SameStream(p) /\ pcb'[p].state = pcb[p].state
      BY <1>3, SendEffect
    <2>. HIDE DEF p
    <2>. QED
      BY <2>1, StreamQuiet DEF OnlyBlock, SameStream, NoneOpening
  <1>4. ASSUME NEW protocol, NEW pool, NEW state,
           \/ protocol = XTCP_PROTOCOL_UDP /\ pool = UdpPcbs /\ state = "UDP"
           \/ protocol = XTCP_PROTOCOL_TCP /\ pool = TcpPcbs /\ state = "CLOSED"
           \/ protocol = XTCP_PROTOCOL_NONE /\ pool = {},
           NewSocket(c, protocol, pool, state)
        PROVE  StreamInv' /\ NoneOpening'
    <2>1. UNCHANGED <<buf, next_read>>
      BY <1>4, NewSocketEffect
    <2>2. PICK index \in Sockets :
             /\ OnlyEntry(index)
             /\ \/ \E p \in pool : /\ pcb[p].state = "FREE"
                                   /\ connections'[index].pcb = p
                                   /\ OnlyBlock(p) /\ pcb'[p] = NewPcb(state)
                \/ connections'[index].pcb = NULL /\ UNCHANGED pcb
      BY <1>4, NewSocketEffect
    <2>3. CASE connections'[index].pcb = NULL /\ UNCHANGED pcb
      BY <1>0, <2>1, <2>2, <2>3, StreamElsewhere DEF NoneOpening
    <2>4. ASSUME NEW p \in pool, pcb[p].state = "FREE", connections'[index].pcb = p,
                 OnlyBlock(p), pcb'[p] = NewPcb(state)
          PROVE  StreamInv' /\ NoneOpening'
      <3>1. p \in Pcbs /\ pcb'[p].state \in {"UDP", "CLOSED"}
        BY <1>0, <1>4, <2>4, NewBlock
      <3>2. \A j \in Sockets : connections[j].pcb # p
        BY <2>4, <3>1, NotHeld DEF Unheld
      <3>3. NoneOpening'
        BY <2>4, <3>1 DEF NoneOpening, OnlyBlock
      <3>4. pcb'[p].state \notin Synchronized
        BY <3>1 DEF Synchronized
      <3>. QED
        BY <2>1, <2>2, <2>4, <3>1, <3>2, <3>3, <3>4, StreamElsewhere DEF OnlyBlock
    <2>. QED
      BY <2>2, <2>3, <2>4
  <1>5. ~socket_tcp_kill(c)
    BY DEF socket_tcp_kill
  <1>6. ASSUME NEW id, listen_tcp(c, id) PROVE StreamInv' /\ NoneOpening'
    <2>. DEFINE p == connections[id].pcb
    <2>1. /\ p \in Pcbs /\ id \in Sockets /\ UNCHANGED <<buf, next_read>>
          /\ OnlyEntry(id)
      BY <1>6, ListenEffect DEF Pcbs
    <2>2. PICK l \in ListenPcbs :
             /\ pcb[l].state = "FREE" /\ connections'[id].pcb = l
             /\ \A q \in Pcbs : q \notin {p, l} => pcb'[q] = pcb[q]
             /\ pcb'[p] = FreePcb /\ pcb'[l].state = "LISTEN"
      BY <1>6, ListenEffect
    <2>3. l \in Pcbs
      BY DEF Pcbs
    <2>4. \A j \in Sockets : connections[j].pcb # l
      BY <2>2, <2>3, NotHeld DEF Unheld
    <2>5. \A j \in Sockets : j # id => connections[j].pcb # p
      BY <1>0, <2>1 DEF HeldInv, HeldOnce
    <2>6. pcb'[l].state \notin Synchronized
      BY <2>2 DEF Synchronized
    <2>. HIDE DEF p
    <2>7. NoneOpening'
      BY <2>2, NewBlock DEF NoneOpening
    <2>. QED
      BY <2>1, <2>2, <2>3, <2>4, <2>5, <2>6, <2>7, StreamElsewhere
  <1>7. ASSUME NEW id, listen_udp(c, id) \/ connect_udp(c, id)
        PROVE  StreamInv' /\ NoneOpening'
    <2>. DEFINE p == connections[id].pcb
    <2>1. /\ p \in Pcbs /\ OnlyBlock(p)
          /\ pcb'[p].state \in {"UDP_BOUND", "UDP_CONNECTED"}
          /\ UNCHANGED <<connections, buf, next_read>>
      BY <1>7, OpenUdpEffect DEF listen_udp, connect_udp, Pcbs
    <2>. HIDE DEF p
    <2>. QED
      BY <2>1, StreamQuiet DEF OnlyBlock, NoneOpening, Synchronized
  <1>8. ASSUME NEW id PROVE ~connect_tcp(c, id)
    BY DEF connect_tcp
  <1>9. ASSUME NEW id, recv(c, id) PROVE StreamInv' /\ NoneOpening'
    <2>1. \A q \in Pcbs : pcb'[q].state = pcb[q].state
      BY <1>9, RecvEffect
    <2>. QED
      BY <1>9, <2>1, StreamRecv DEF NoneOpening
  <1>10. ASSUME NEW id, NEW data \in ClientData,
                set_connection_client_data(c, id, data)
         PROVE  StreamInv' /\ NoneOpening'
    <2>1. /\ id \in Sockets /\ OnlyEntry(id) /\ SameOwner(id)
          /\ connections'[id].pbuf = connections[id].pbuf
          /\ UNCHANGED <<pcb, buf, next_read>>
      BY <1>10, ClientDataEffect
    <2>. QED
      BY <2>1, StreamQuiet DEF OnlyEntry, SameOwner, NoneOpening
  <1>. QED
    BY <1>1, <1>2, <1>3, <1>4, <1>5, <1>6, <1>7, <1>8, <1>9, <1>10
    DEF ClientCall, OtherCall, socket_udp, socket_none, socket_tcp, recvfrom

\* A segment arrives at entry i, whose block is p, and is linked or refused, or
\* a refused one is linked; d is its buffer.
LEMMA StreamArrives ==
    ASSUME ServerInv, ServerInv', HeldInv, StreamInv, NEW i \in Sockets, NEW p \in Pcbs,
           NEW d \in Pbufs, connections[i].pcb = p, connections'[i].pcb = p,
           pcb[p].state \in Synchronized,
           OnlyEntry(i), OnlyBlock(p), UNCHANGED next_read,
           \A b \in Pbufs : b # d => buf'[b] = buf[b],
           \A j \in Sockets : \A k \in Places(j) : At(j, k) # d,
           \A q \in Pcbs : q # p => pcb[q].refused # d,
           \/ /\ connections'[i].pbuf = Append(connections[i].pbuf, d)
              /\ pcb'[p].refused = NULL
              /\ \/ /\ pcb[p].refused = NULL
                    /\ buf'[d] = [src |-> p, seq |-> pcb[p].next]
                    /\ pcb'[p].next = (pcb[p].next + 1) % SEQ_NUMBERS
                    /\ pcb'[p].wnd = pcb[p].wnd + 1
                 \/ /\ pcb[p].refused = d /\ buf'[d] = buf[d]
                    /\ pcb'[p].next = pcb[p].next /\ pcb'[p].wnd = pcb[p].wnd
           \/ /\ connections'[i].pbuf = connections[i].pbuf
              /\ pcb[p].refused = NULL /\ pcb'[p].refused = d
              /\ buf'[d] = [src |-> p, seq |-> pcb[p].next]
              /\ pcb'[p].next = (pcb[p].next + 1) % SEQ_NUMBERS
              /\ pcb'[p].wnd = pcb[p].wnd + 1
    PROVE  StreamInv'
  <1>0. NULL \notin Pbufs /\ NULL \notin Pcbs
    BY PoolsAssumption DEF Pcbs
  <1>1. \A j \in Sockets : \A k \in Places(j) : buf'[At(j, k)] = buf[At(j, k)]
    BY ListPlaces
  <1>2. \A q \in Pcbs : q # p /\ pcb[q].refused # NULL =>
           buf'[pcb[q].refused] = buf[pcb[q].refused]
    BY DEF ServerInv, Blocks
  <1>3. ASSUME NEW j \in Sockets, j # i PROVE StreamOK(j)'
    <2>1. connections'[j] = connections[j] /\ StreamOK(j)
          /\ next_read'[j] = next_read[j]
      BY <1>3 DEF OnlyEntry, StreamInv
    <2>2. \A q \in Pcbs : connections[j].pcb = q => q # p /\ pcb'[q] = pcb[q]
      BY <1>0, <1>3 DEF HeldInv, HeldOnce, OnlyBlock
    <2>. QED
      BY <1>1, <1>2, <1>3, <2>1, <2>2, StreamAside
  <1>4. PICK n \in Nat : Len(connections[i].pbuf) = n /\ Places(i) = 1 .. n
    BY ListPlaces DEF Places
  <1>5. Streaming(i, p, n)
    BY <1>4 DEF StreamInv, StreamOK
  <1>6. CASE connections'[i].pbuf = Append(connections[i].pbuf, d)
               /\ pcb'[p].refused = NULL
    <2>1. PICK m \in Nat : m = n + 1
      OBVIOUS
    <2>2. /\ Places(i)' = 1 .. m /\ At(i, m)' = d
          /\ \A k \in 1 .. n : At(i, k)' = At(i, k)
      <3>1. \A j \in Sockets : j # i => connections'[j].pbuf = connections[j].pbuf
        BY DEF OnlyEntry
      <3>2. \E h \in Nat : /\ h = Len(connections[i].pbuf) /\ Places(i)' = 1 .. h + 1
                           /\ connections'[i].pbuf[h + 1] = d
                           /\ \A k \in 1 .. h : At(i, k)' = At(i, k)
        BY <1>6, <3>1, AppendedPlaces
      <3>3. connections'[i].pbuf[m] = d
        BY <1>4, <2>1, <3>2
      <3>. QED
        BY <1>4, <2>1, <3>2, <3>3 DEF At
    <2>3. \A k \in 1 .. n : At(i, k)' = At(i, k) /\ buf'[At(i, k)] = buf[At(i, k)]
      BY <1>1, <1>4, <2>2
    <2>4. Len(connections'[i].pbuf) = m
      <3>1. PICK h \in Nat : Len(connections'[i].pbuf) = h
        BY <1>4, <1>6, ListPlaces, AppendProperties
      <3>2. Places(i)' = 1 .. h
        BY <3>1 DEF Places
      <3>3. h = m
        BY <2>2, <3>2
      <3>. QED
        BY <3>1, <3>3
    <2>5. buf'[At(i, m)'] = buf'[d]
      BY <2>2
    <2>6. Streaming(i, p, m)'
      BY <1>0, <1>5, <1>6, <2>1, <2>3, <2>5, StreamLinked
    <2>. QED
      BY <1>3, <2>4, <2>6 DEF StreamInv, StreamOK
  <1>7. CASE connections'[i].pbuf = connections[i].pbuf
               /\ pcb[p].refused = NULL /\ pcb'[p].refused = d
    <2>1. \A k \in 1 .. n : At(i, k)' = At(i, k) /\ buf'[At(i, k)] = buf[At(i, k)]
      BY <1>1, <1>4, <1>7 DEF At
    <2>2. /\ pcb'[p].refused # NULL
          /\ buf'[pcb'[p].refused] = [src |-> p, seq |-> pcb[p].next]
          /\ pcb'[p].next = (pcb[p].next + 1) % SEQ_NUMBERS
          /\ pcb'[p].wnd = pcb[p].wnd + 1
      BY <1>0, <1>7
    <2>3. next_read'[i] = next_read[i]
      OBVIOUS
    <2>4. Streaming(i, p, n)'
      BY <1>5, <1>7, <2>1, <2>2, <2>3, StreamRefused
    <2>. QED
      BY <1>3, <1>4, <1>7, <2>4 DEF StreamInv, StreamOK
  <1>. QED
    BY <1>6, <1>7

\* So do the callbacks: a segment is linked, refused or offered again in its turn.
LEMMA StreamCallback ==
    ASSUME ServerInv, ServerInv', HeldInv, RoutedInv, RxInv, NoLeftoverData,
           StreamInv, NoneOpening, Env \subseteq {"linger"}, Callback
    PROVE  StreamInv' /\ NoneOpening'
  <1>0. /\ NULL \notin Pcbs /\ NULL \notin Pbufs /\ TcpPcbs \subseteq Pcbs
        /\ "connect" \notin Env /\ "errors" \notin Env /\ "overload" \notin Env
        /\ \A p \in Pcbs : pcb[p].refused \in Pbufs \cup {NULL}
    BY PoolsAssumption DEF Pcbs, ServerInv, Blocks
  <1>1. ASSUME NEW l \in ListenPcbs, Syn(l) PROVE StreamInv' /\ NoneOpening'
    <2>1. UNCHANGED <<connections, buf, next_read>>
      BY <1>1, SynEffect
    <2>2. PICK p \in TcpPcbs : OnlyBlock(p) /\ pcb'[p].state = "SYN_RCVD"
      BY <1>1, SynEffect
    <2>. QED
      BY <2>1, <2>2, StreamQuiet DEF OnlyBlock, NoneOpening, Synchronized
  <1>2. ASSUME NEW p \in TcpPcbs,
               HalfOpenLost(p) \/ Connected(p) \/ RecvFin(p) \/ CloseDone(p)
        PROVE  StreamInv' /\ NoneOpening'
    <2>1. /\ UNCHANGED <<connections, buf, next_read>> /\ OnlyBlock(p)
          /\ \/ pcb'[p] = FreePcb
             \/ /\ \/ pcb[p].state = "SYN_SENT"
                   \/ pcb[p].state = "ESTABLISHED" /\ pcb'[p].state = "CLOSE_WAIT"
                   \/ pcb'[p].state = "TIME_WAIT"
                /\ SameStream(p)
      BY <1>2, ProgressEffect
    <2>2. pcb[p].state # "SYN_SENT"
      BY <1>0 DEF NoneOpening
    <2>3. NoneOpening'
      BY <2>1, <2>2, NewBlock DEF NoneOpening, OnlyBlock
    <2>4. \/ pcb'[p].state \notin Synchronized
          \/ /\ pcb[p].state \in Synchronized
             /\ pcb'[p].wnd = pcb[p].wnd /\ pcb'[p].next = pcb[p].next
             /\ pcb'[p].refused = pcb[p].refused
      BY <2>1, <2>2, NewBlock DEF Synchronized, SameStream
    <2>. QED
      BY <2>1, <2>3, <2>4, StreamQuiet DEF OnlyBlock
  <1>3. ASSUME NEW p \in TcpPcbs, Accept(p) PROVE StreamInv' /\ NoneOpening'
    <2>1. /\ pcb[p].state = "SYN_RCVD" /\ UNCHANGED <<buf, next_read>> /\ OnlyBlock(p)
      BY <1>3, AcceptEffect
    <2>2. PICK index \in Sockets :
             /\ ~connections[index].is_active /\ OnlyEntry(index)
             /\ connections'[index].pbuf = connections[index].pbuf
             /\ \/ /\ connections'[index].pcb = p
                   /\ pcb'[p].state = "ESTABLISHED"
                   /\ pcb'[p].wnd = pcb[p].wnd /\ pcb'[p].next = pcb[p].next
                   /\ pcb'[p].refused = pcb[p].refused
                \/ connections'[index].pcb = NULL /\ pcb'[p] = FreePcb
      BY <1>3, AcceptEffect DEF AssignedTo, Released
    <2>3. \A j \in Sockets : connections[j].pcb # p
      BY <1>0, <2>1, NotHeld DEF Unheld
    <2>4. NoneOpening'
      BY <2>1, <2>2, NewBlock DEF NoneOpening, OnlyBlock
    <2>5. CASE connections'[index].pcb = NULL
      BY <1>0, <2>1, <2>2, <2>3, <2>4, <2>5, StreamElsewhere DEF OnlyBlock
    <2>6. CASE /\ connections'[index].pcb = p
               /\ pcb'[p].wnd = pcb[p].wnd /\ pcb'[p].next = pcb[p].next
               /\ pcb'[p].refused = pcb[p].refused
      <3>1. pcb[p].wnd = 0 /\ pcb[p].next = 0 /\ pcb[p].refused = NULL
        BY <1>0, <2>1 DEF ServerInv, GoodBlocks
      <3>2. connections'[index].pbuf = <<>> /\ next_read'[index] = 0
        BY <2>1, <2>2 DEF NoLeftoverData, ServerInv
      <3>3. StreamOK(index)'
        BY <1>0, <2>6, <3>1, <3>2, StreamBegins
      <3>4. ASSUME NEW j \in Sockets, j # index PROVE StreamOK(j)'
        <4>1. connections'[j] = connections[j] /\ StreamOK(j)
          BY <2>2, <3>4 DEF OnlyEntry, StreamInv
        <4>. QED
          BY <2>1, <2>3, <3>4, <4>1, StreamAside DEF OnlyBlock
      <3>. QED
        BY <2>4, <3>3, <3>4 DEF StreamInv
    <2>. QED
      BY <2>2, <2>5, <2>6
  <1>4. ASSUME NEW p \in TcpPcbs, NEW event PROVE ~Err(p, event) /\ ~AcceptFails(p)
    BY <1>0 DEF Err, AcceptFails
  <1>5. \A p \in TcpPcbs : pcb[p].state \in Synchronized => connections[pcb[p].arg].pcb = p
    BY <1>0 DEF RoutedInv, RoutedStates
  <1>6. ASSUME NEW p \in TcpPcbs, RecvData(p) PROVE StreamInv' /\ NoneOpening'
    <2>. DEFINE i == pcb[p].arg
    <2>1. /\ MemoryIntact /\ i \in Sockets /\ pcb[p].state = "ESTABLISHED"
          /\ pcb[p].refused = NULL /\ OnlyEntry(i) /\ SameOwner(i) /\ OnlyBlock(p)
          /\ pcb'[p].state = pcb[p].state /\ pcb'[p].wnd = pcb[p].wnd + 1
          /\ pcb'[p].next = (pcb[p].next + 1) % SEQ_NUMBERS /\ UNCHANGED next_read
      BY <1>6, RecvDataEffect
    <2>2. PICK d \in Pbufs :
             /\ buf[d] = FreeBuf
             /\ buf' = [buf EXCEPT ![d] = [src |-> p, seq |-> pcb[p].next]]
             /\ \/ /\ pcb'[p].refused = NULL
                   /\ connections'[i].pbuf = Append(connections[i].pbuf, d)
                \/ /\ pcb'[p].refused = d
                   /\ connections'[i].pbuf = connections[i].pbuf
      BY <1>6, RecvDataEffect
    <2>3. pcb[p].state \in Synchronized
      BY <2>1 DEF Synchronized
    <2>4. connections[i].pcb = p /\ connections'[i].pcb = p
      BY <1>5, <2>1, <2>3 DEF SameOwner
    <2>5. /\ buf'[d] = [src |-> p, seq |-> pcb[p].next]
          /\ \A b \in Pbufs : b # d => buf'[b] = buf[b]
      BY <2>2 DEF ServerInv
    <2>6. \A j \in Sockets : \A k \in Places(j) : At(j, k) # d
      BY <2>1, <2>2, IntactLists DEF ListsInUse
    <2>7. \A q \in Pcbs : pcb[q].refused # d
      BY <1>0, <2>2 DEF RxInv, RefusedInUse
    <2>8. NoneOpening'
      BY <2>1 DEF NoneOpening, OnlyBlock
    <2>. HIDE DEF i
    <2>9. StreamInv'
      BY <1>0, <2>1, <2>2, <2>3, <2>4, <2>5, <2>6, <2>7, StreamArrives
    <2>. QED
      BY <2>8, <2>9
  <1>7. ASSUME NEW p \in TcpPcbs, RetryRefused(p) PROVE StreamInv' /\ NoneOpening'
    <2>. DEFINE i == pcb[p].arg
                d == pcb[p].refused
    <2>1. /\ i \in Sockets /\ d \in Pbufs /\ pcb[p].state \in Synchronized
          /\ OnlyEntry(i) /\ SameOwner(i) /\ OnlyBlock(p)
          /\ connections'[i].pbuf = Append(connections[i].pbuf, d)
          /\ pcb'[p].state = pcb[p].state /\ pcb'[p].wnd = pcb[p].wnd
          /\ pcb'[p].next = pcb[p].next /\ pcb'[p].refused = NULL
          /\ UNCHANGED <<buf, next_read>>
      BY <1>7, RetryEffect
    <2>2. connections[i].pcb = p /\ connections'[i].pcb = p
      BY <1>5, <2>1 DEF SameOwner
    <2>3. \A j \in Sockets : \A k \in Places(j) : At(j, k) # d
      BY <1>0, <2>1 DEF RxInv, OnePlace
    <2>4. \A q \in Pcbs : q # p => pcb[q].refused # d
      BY <1>0, <2>1 DEF RxInv, OnePlace
    <2>5. NoneOpening'
      BY <2>1 DEF NoneOpening, OnlyBlock
    <2>6. pcb[p].refused = d
      OBVIOUS
    <2>. HIDE DEF i, d
    <2>7. StreamInv'
      BY <1>0, <2>1, <2>2, <2>3, <2>4, <2>6, StreamArrives
    <2>. QED
      BY <2>5, <2>7
  <1>8. ASSUME NEW p \in TcpPcbs, Sent(p) PROVE StreamInv' /\ NoneOpening'
    <2>1. /\ UNCHANGED <<connections, buf, next_read>>
          /\ p \in Pcbs /\ OnlyBlock(p) /\ SameStream(p) /\ pcb'[p].state = pcb[p].state
      BY <1>8, SendEffect
    <2>. QED
      BY <2>1, StreamQuiet DEF OnlyBlock, SameStream, NoneOpening
  <1>9. ASSUME NEW p \in UdpPcbs, xtcp_udp_recv(p) PROVE StreamInv' /\ NoneOpening'
    <2>. DEFINE i == pcb[p].arg
    <2>1. /\ MemoryIntact /\ i \in Sockets
          /\ pcb[p].state \in {"UDP_BOUND", "UDP_CONNECTED"}
          /\ OnlyEntry(i) /\ SameOwner(i) /\ UNCHANGED <<pcb, next_read>>
      BY <1>9, DatagramEffect
    <2>2. PICK d \in Pbufs :
             /\ buf[d] = FreeBuf
             /\ \A b \in Pbufs : b # d => buf'[b] = buf[b]
      <3>1. PICK d \in Pbufs :
               /\ buf[d] = FreeBuf
               /\ buf' = IF Accepts(connections[i].client_num)
                         THEN [buf EXCEPT ![d] = [src |-> p, seq |-> 0]] ELSE buf
        BY <1>9, DatagramEffect
      <3>2. \A b \in Pbufs : b # d => buf'[b] = buf[b]
        BY <3>1
      <3>. QED
        BY <3>1, <3>2
    <2>3. p \in Pcbs /\ connections[i].pcb = p
      BY <2>1 DEF RoutedInv, RoutedStates, Pcbs
    <2>4. StreamOK(i)'
      <3>1. connections'[i].pcb = p /\ pcb'[p].state \notin Synchronized
        BY <2>1, <2>3 DEF SameOwner, Synchronized
      <3>. QED
        BY <2>1, <3>1, NoStream
    <2>5. ASSUME NEW j \in Sockets, j # i PROVE StreamOK(j)'
      <3>1. connections'[j] = connections[j] /\ StreamOK(j)
            /\ next_read'[j] = next_read[j]
        BY <2>1, <2>5 DEF OnlyEntry, StreamInv
      <3>2. \A k \in Places(j) : buf'[At(j, k)] = buf[At(j, k)]
        BY <2>1, <2>2, IntactLists, ListPlaces DEF ListsInUse
      <3>3. \A q \in Pcbs : pcb[q].refused # NULL =>
               buf'[pcb[q].refused] = buf[pcb[q].refused]
        BY <1>0, <2>2 DEF RxInv, RefusedInUse
      <3>. QED
        BY <2>1, <2>5, <3>1, <3>2, <3>3, StreamAside
    <2>. QED
      BY <2>1, <2>4, <2>5 DEF StreamInv, NoneOpening
  <1>. QED
    BY <1>1, <1>2, <1>3, <1>4, <1>6, <1>7, <1>8, <1>9 DEF Callback, TcpCallback

\* A connection's stream reaches its client whole and in order, whatever the event
\* queue refuses and lwIP offers again, and the receive window counts what is
\* unread; in the absence of failing connections and of connections that clients
\* open themselves, and with UDP sockets beside the TCP ones.
THEOREM StreamsAreIntact ==
    ASSUME Env \subseteq {"linger"}
    PROVE  Spec => []StreamIntact
  <1>0. "connect" \notin Env /\ "errors" \notin Env /\ "overload" \notin Env
    OBVIOUS
  <1>1. Init => StreamInv /\ NoneOpening
    <2>. SUFFICES ASSUME Init PROVE StreamInv /\ NoneOpening
      OBVIOUS
    <2>1. /\ \A i \in Sockets : connections[i].pcb = NULL
          /\ \A p \in Pcbs : pcb[p].state = "FREE"
      BY NewBlock DEF Init, init_client_connections, InitEntry
    <2>2. NULL \notin Pcbs
      BY PoolsAssumption DEF Pcbs
    <2>. QED
      BY <2>1, <2>2 DEF StreamInv, StreamOK, NoneOpening
  <1>2. /\ ServerInv /\ HeldInv /\ RoutedInv /\ RxInv /\ NoLeftoverData
        /\ StreamInv /\ NoneOpening /\ [Next]_vars
        => StreamInv' /\ NoneOpening'
    <2>. SUFFICES ASSUME ServerInv, HeldInv, RoutedInv, RxInv, NoLeftoverData,
                         StreamInv, NoneOpening, [Next]_vars
                  PROVE  StreamInv' /\ NoneOpening'
      OBVIOUS
    <2>1. ServerInv'
      BY ServerInvNext
    <2>2. CASE Next
      BY <1>0, <2>1, <2>2, StreamClient, StreamCallback DEF Next
    <2>3. CASE UNCHANGED vars
      <3>1. /\ UNCHANGED <<buf, next_read>> /\ connections' = connections
            /\ pcb' = pcb
        BY <2>3 DEF vars
      <3>. QED
        BY <3>1, StreamQuiet DEF NoneOpening
    <2>. QED
      BY <2>2, <2>3
  <1>3. ErrorsHitOwners
    BY <1>0 DEF ErrorsHitOwners
  <1>4. Spec => []HeldInv
    BY <1>0, HeldAlways
  <1>5. Spec => []NoLeftoverData
    BY <1>0, NoDataLeftBehind
  <1>6. Spec => []RoutedInv
    BY <1>3, RoutedAlways
  <1>7. ServerInv /\ StreamInv => StreamIntact
    BY StreamMeaning
  <1>. QED
    BY <1>1, <1>2, <1>4, <1>5, <1>6, <1>7, ServerInvAlways, RxAlways, PTL DEF Spec

=============================================================================
