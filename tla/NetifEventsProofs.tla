------------------------- MODULE NetifEventsProofs -------------------------
(***************************************************************************)
(* Proofs about NetifEvents, for any number of clients, sockets and DNS    *)
(* requests, any queue size and any environment: what a client will        *)
(* believe of the link, and how many DNS results it will hear.  Both rest  *)
(* on what becomes of the events in a queue when others are added, taken   *)
(* and removed around them.                                                *)
(***************************************************************************)
EXTENDS NetifEvents, XtcpServerProofs, FiniteSetTheorems

-----------------------------------------------------------------------------
(* Counting DNS results.                                                   *)

\* Where the DNS results of a queue are, and those of one id among them.
DnsPlaces(q) == {k \in 1 .. Len(q) : IsDnsResult(q[k])}
DnsPlacesOf(q, id) == {k \in 1 .. Len(q) : IsDnsResult(q[k]) /\ q[k].id = id}

\* Sets that a function pairs off have the same size.
LEMMA SameSize ==
    ASSUME NEW S, NEW T, IsFiniteSet(S), NEW f \in [S -> T],
           \A x, y \in S : f[x] = f[y] => x = y,
           \A y \in T : \E x \in S : f[x] = y
    PROVE  IsFiniteSet(T) /\ Cardinality(T) = Cardinality(S)
  <1>1. f \in Bijection(S, T)
    BY DEF Bijection, Injection, IsInjective, Surjection
  <1>. QED
    BY <1>1, FS_Bijection DEF ExistsBijection

\* Places in a queue are finitely many.
LEMMA PlacesFinite ==
    ASSUME NEW n \in Nat, NEW P, P \subseteq 1 .. n
    PROVE  IsFiniteSet(P) /\ Cardinality(P) \in Nat
  <1>1. IsFiniteSet(1 .. n)
    BY FS_Interval
  <1>2. IsFiniteSet(P)
    BY <1>1, FS_Subset
  <1>. QED
    BY <1>2, FS_CardinalityType

\* An event more is one more place if it is a DNS result.
LEMMA DnsAppend ==
    ASSUME NEW S, NEW q \in Seq(S), NEW e \in S
    PROVE  Cardinality(DnsPlaces(Append(q, e))) =
              Cardinality(DnsPlaces(q)) + (IF IsDnsResult(e) THEN 1 ELSE 0)
  <1>. DEFINE n == Len(q)
              t == Append(q, e)
  <1>1. /\ n \in Nat /\ Len(t) = n + 1 /\ t[n + 1] = e
        /\ \A k \in 1 .. n : t[k] = q[k]
    BY AppendProperties, LenProperties
  <1>. HIDE DEF t
  <1>2. DnsPlaces(q) \subseteq 1 .. n
    BY DEF DnsPlaces
  <1>3. IsFiniteSet(DnsPlaces(q)) /\ Cardinality(DnsPlaces(q)) \in Nat
    BY <1>1, <1>2, PlacesFinite
  <1>4. CASE IsDnsResult(e)
    <2>1. DnsPlaces(t) = DnsPlaces(q) \cup {n + 1} /\ n + 1 \notin DnsPlaces(q)
      BY <1>1, <1>4 DEF DnsPlaces
    <2>. QED
      BY <1>3, <1>4, <2>1, FS_AddElement DEF t
  <1>5. CASE ~IsDnsResult(e)
    <2>1. DnsPlaces(t) = DnsPlaces(q)
      BY <1>1, <1>5 DEF DnsPlaces
    <2>. QED
      BY <1>3, <1>5, <2>1 DEF t
  <1>. QED
    BY <1>4, <1>5

\* The head gone is one place less if it was a DNS result.
LEMMA DnsTail ==
    ASSUME NEW S, NEW q \in Seq(S), q # <<>>
    PROVE  Cardinality(DnsPlaces(q)) =
              Cardinality(DnsPlaces(Tail(q))) + (IF IsDnsResult(Head(q)) THEN 1 ELSE 0)
  <1>. DEFINE n == Len(q)
              t == Tail(q)
              later == DnsPlaces(q) \ {1}
              f == [k \in later |-> k - 1]
  <1>1. /\ n \in Nat /\ n >= 1 /\ Len(t) = n - 1 /\ Head(q) = q[1]
        /\ \A k \in 1 .. n - 1 : t[k] = q[k + 1]
    BY HeadTailProperties, EmptySeq, LenProperties
  <1>. HIDE DEF t
  <1>2. DnsPlaces(q) \subseteq 1 .. n
    BY DEF DnsPlaces
  <1>3. IsFiniteSet(DnsPlaces(q)) /\ Cardinality(DnsPlaces(q)) \in Nat
    BY <1>1, <1>2, PlacesFinite
  <1>4. /\ IsFiniteSet(later)
        /\ Cardinality(later) = IF 1 \in DnsPlaces(q) THEN Cardinality(DnsPlaces(q)) - 1
                                ELSE Cardinality(DnsPlaces(q))
    BY <1>3, FS_RemoveElement
  <1>5. 1 \in DnsPlaces(q) <=> IsDnsResult(Head(q))
    BY <1>1 DEF DnsPlaces
  <1>6. f \in [later -> DnsPlaces(t)]
    BY <1>1 DEF DnsPlaces
  <1>7. \A x, y \in later : f[x] = f[y] => x = y
    BY <1>2
  <1>8. ASSUME NEW y \in DnsPlaces(t) PROVE \E x \in later : f[x] = y
    <2>1. y + 1 \in later
      BY <1>1, <1>8 DEF DnsPlaces
    <2>2. f[y + 1] = y
      BY <1>8, <2>1 DEF DnsPlaces
    <2>. QED
      BY <2>1, <2>2
  <1>. HIDE DEF f, later
  <1>9. Cardinality(DnsPlaces(t)) = Cardinality(later)
    BY <1>4, <1>6, <1>7, <1>8, SameSize
  <1>. QED
    BY <1>3, <1>4, <1>5, <1>9 DEF t

\* Removing a connection's events removes the DNS results under its id.
LEMMA DnsRemaining ==
    ASSUME NEW S, NEW q \in Seq(S), NEW id
    PROVE  Cardinality(DnsPlaces(Remaining(q, id))) =
              Cardinality(DnsPlaces(q)) - Cardinality(DnsPlacesOf(q, id))
  <1>. DEFINE n == Len(q)
              r == Remaining(q, id)
              m == Len(r)
              others == DnsPlaces(q) \ DnsPlacesOf(q, id)
  <1>1. n \in Nat /\ m \in Nat
    <2>1. r \in Seq(S)
      BY RemainingCorrect
    <2>. HIDE DEF r
    <2>. QED
      BY <2>1, LenProperties
  <1>2. PICK f \in [1 .. m -> 1 .. n] :
          /\ \A j, k \in 1 .. m : j < k => f[j] < f[k]
          /\ \A j \in 1 .. m : r[j] = q[f[j]] /\ q[f[j]].id # id
          /\ \A p \in 1 .. n : q[p].id # id => \E j \in 1 .. m : f[j] = p
    <2>1. IsRemaining(q, id, r)
      BY RemainingCorrect
    <2>. HIDE DEF r
    <2>. QED
      BY <2>1 DEF IsRemaining, RemainingUpTo
  <1>. HIDE DEF r
  <1>. DEFINE g == [j \in DnsPlaces(r) |-> f[j]]
  <1>3. \A j, k \in 1 .. m : f[j] = f[k] => j = k
    BY <1>1, <1>2
  <1>4. /\ DnsPlaces(r) \subseteq 1 .. m /\ DnsPlaces(q) \subseteq 1 .. n
        /\ DnsPlacesOf(q, id) \subseteq DnsPlaces(q)
    BY DEF DnsPlaces, DnsPlacesOf
  <1>5. /\ IsFiniteSet(DnsPlaces(r)) /\ IsFiniteSet(DnsPlaces(q))
        /\ IsFiniteSet(DnsPlacesOf(q, id)) /\ IsFiniteSet(others)
        /\ Cardinality(DnsPlacesOf(q, id)) \in Nat /\ Cardinality(others) \in Nat
    BY <1>1, <1>4, PlacesFinite
  <1>6. g \in [DnsPlaces(r) -> others]
    BY <1>2, <1>4 DEF DnsPlaces, DnsPlacesOf
  <1>7. \A x, y \in DnsPlaces(r) : g[x] = g[y] => x = y
    BY <1>3, <1>4
  <1>8. ASSUME NEW y \in others PROVE \E x \in DnsPlaces(r) : g[x] = y
    <2>1. y \in 1 .. n /\ IsDnsResult(q[y]) /\ q[y].id # id
      BY <1>8 DEF DnsPlaces, DnsPlacesOf
    <2>2. PICK j \in 1 .. m : f[j] = y
      BY <1>2, <2>1
    <2>3. j \in DnsPlaces(r)
      BY <1>2, <2>1, <2>2 DEF DnsPlaces
    <2>. QED
      BY <2>2, <2>3
  <1>. HIDE DEF g, others
  <1>9. Cardinality(others) = Cardinality(DnsPlaces(r))
    BY <1>5, <1>6, <1>7, <1>8, SameSize
  <1>10. /\ others \cup DnsPlacesOf(q, id) = DnsPlaces(q)
         /\ others \cap DnsPlacesOf(q, id) = {}
    BY <1>4 DEF others
  <1>11. Cardinality(DnsPlaces(q)) = Cardinality(others)
            + Cardinality(DnsPlacesOf(q, id)) - Cardinality({})
    BY <1>5, <1>10, FS_Union
  <1>. QED
    BY <1>5, <1>9, <1>11, FS_EmptySet DEF r

-----------------------------------------------------------------------------
(* The last link event.                                                    *)

\* Where the link events of a queue are, and those of one id among them.
LinkPlaces(q) == {k \in 1 .. Len(q) : IsLinkEvent(q[k])}
LinkPlacesOf(q, id) == {k \in 1 .. Len(q) : IsLinkEvent(q[k]) /\ q[k].id = id}

\* Whoever believes v and reads q ends up believing e.
Believes(q, v, e) ==
    \/ LinkPlaces(q) = {} /\ e = v
    \/ \E k \in LinkPlaces(q) : /\ \A j \in LinkPlaces(q) : j <= k
                                /\ e = q[k].xtcp_event

\* Numbers up to n that are not none have a greatest one, which is what Max takes.
LEMMA MaxOfPlaces ==
    ASSUME NEW n \in Nat, NEW P, P \subseteq 1 .. n, P # {}
    PROVE  Max(P) \in P /\ \A j \in P : j <= Max(P)
  <1>. DEFINE U == {u \in Nat : \A j \in P : j <= u}
  <1>1. U \subseteq Nat /\ n \in U
    OBVIOUS
  <1>2. PICK u \in U : \A w \in U : u <= w
    BY <1>1, LeastNatural
  <1>3. u \in P
    <2>1. SUFFICES ASSUME u \notin P PROVE FALSE
      OBVIOUS
    <2>2. \A j \in P : j \in Nat /\ j >= 1 /\ j <= u /\ j # u
      BY <1>2, <2>1
    <2>3. u - 1 \in Nat
      <3>1. PICK j : j \in P
        OBVIOUS
      <3>2. u \in Nat /\ j \in Nat /\ j >= 1 /\ j <= u /\ j # u
        BY <1>2, <2>2, <3>1
      <3>. QED
        BY <3>2
    <2>4. \A j \in P : j <= u - 1
      BY <1>2, <2>2, <2>3
    <2>5. u - 1 \in U
      BY <2>3, <2>4
    <2>. QED
      BY <1>2, <2>5
  <1>4. \E x \in P : \A y \in P : x >= y
    BY <1>2, <1>3
  <1>. QED
    BY <1>4 DEF Max

\* An event that is not about the link changes no belief.
LEMMA BelievesAppendOther ==
    ASSUME NEW S, NEW q \in Seq(S), NEW x \in S, ~IsLinkEvent(x), NEW v, NEW e,
           Believes(Append(q, x), v, e)
    PROVE  Believes(q, v, e)
  <1>. DEFINE n == Len(q)
              t == Append(q, x)
  <1>1. /\ n \in Nat /\ Len(t) = n + 1 /\ t[n + 1] = x
        /\ \A k \in 1 .. n : t[k] = q[k]
    BY AppendProperties, LenProperties
  <1>2. Believes(t, v, e)
    OBVIOUS
  <1>. HIDE DEF t
  <1>3. LinkPlaces(t) = LinkPlaces(q) /\ \A k \in LinkPlaces(q) : t[k] = q[k]
    BY <1>1 DEF LinkPlaces
  <1>. QED
    BY <1>2, <1>3 DEF Believes

\* A link event queued last is what will be believed.
LEMMA BelievesAppendLink ==
    ASSUME NEW S, NEW q \in Seq(S), NEW x \in S, IsLinkEvent(x), NEW v, NEW e,
           Believes(Append(q, x), v, e)
    PROVE  e = x.xtcp_event
  <1>. DEFINE n == Len(q)
              t == Append(q, x)
  <1>1. n \in Nat /\ Len(t) = n + 1 /\ t[n + 1] = x
    BY AppendProperties, LenProperties
  <1>2. Believes(t, v, e)
    OBVIOUS
  <1>. HIDE DEF t
  <1>3. n + 1 \in LinkPlaces(t) /\ LinkPlaces(t) \subseteq 1 .. n + 1
    BY <1>1 DEF LinkPlaces
  <1>4. PICK k \in LinkPlaces(t) : /\ \A j \in LinkPlaces(t) : j <= k
                                   /\ e = t[k].xtcp_event
    BY <1>2, <1>3 DEF Believes
  <1>5. k = n + 1
    BY <1>1, <1>3, <1>4
  <1>. QED
    BY <1>1, <1>4, <1>5

\* Taking the head, and believing it if it is about the link, changes nothing of
\* what will be believed in the end.
LEMMA BelievesTail ==
    ASSUME NEW S, NEW q \in Seq(S), q # <<>>, NEW v, NEW e,
           Believes(Tail(q), IF IsLinkEvent(Head(q)) THEN Head(q).xtcp_event ELSE v, e)
    PROVE  Believes(q, v, e)
  <1>. DEFINE n == Len(q)
              t == Tail(q)
              w == IF IsLinkEvent(Head(q)) THEN Head(q).xtcp_event ELSE v
  <1>1. /\ n \in Nat /\ n >= 1 /\ Len(t) = n - 1 /\ Head(q) = q[1]
        /\ \A k \in 1 .. n - 1 : t[k] = q[k + 1]
    BY HeadTailProperties, EmptySeq, LenProperties
  <1>2. Believes(t, w, e)
    OBVIOUS
  <1>. HIDE DEF t, w
  <1>3. /\ \A k \in LinkPlaces(t) : k + 1 \in LinkPlaces(q) /\ t[k] = q[k + 1]
        /\ \A k \in LinkPlaces(q) : k = 1 \/ k - 1 \in LinkPlaces(t)
        /\ LinkPlaces(t) \subseteq Nat \ {0} /\ LinkPlaces(q) \subseteq Nat \ {0}
    BY <1>1 DEF LinkPlaces
  <1>4. CASE LinkPlaces(t) = {}
    <2>1. e = w
      BY <1>2, <1>4 DEF Believes
    <2>2. CASE IsLinkEvent(Head(q))
      <3>1. 1 \in LinkPlaces(q) /\ e = q[1].xtcp_event
        BY <1>1, <2>1, <2>2 DEF LinkPlaces, w
      <3>2. \A j \in LinkPlaces(q) : j <= 1
        BY <1>3, <1>4
      <3>. QED
        BY <3>1, <3>2 DEF Believes
    <2>3. CASE ~IsLinkEvent(Head(q))
      <3>1. 1 \notin LinkPlaces(q) /\ e = v
        BY <1>1, <2>1, <2>3 DEF LinkPlaces, w
      <3>2. LinkPlaces(q) = {}
        BY <1>3, <1>4, <3>1
      <3>. QED
        BY <3>1, <3>2 DEF Believes
    <2>. QED
      BY <2>2, <2>3
  <1>5. CASE LinkPlaces(t) # {}
    <2>1. PICK k \in LinkPlaces(t) : /\ \A j \in LinkPlaces(t) : j <= k
                                     /\ e = t[k].xtcp_event
      BY <1>2, <1>5 DEF Believes
    <2>2. k + 1 \in LinkPlaces(q) /\ e = q[k + 1].xtcp_event
      BY <1>3, <2>1
    <2>3. ASSUME NEW j \in LinkPlaces(q) PROVE j <= k + 1
      <3>1. j \in Nat /\ k \in Nat \ {0}
        BY <1>3
      <3>2. j = 1 \/ j - 1 <= k
        BY <1>3, <2>1
      <3>. QED
        BY <3>1, <3>2
    <2>. QED
      BY <2>2, <2>3 DEF Believes
  <1>. QED
    BY <1>4, <1>5

\* Removing a connection's events changes no belief unless a link event goes too.
LEMMA BelievesRemaining ==
    ASSUME NEW S, NEW q \in Seq(S), NEW id, LinkPlacesOf(q, id) = {}, NEW v, NEW e,
           Believes(Remaining(q, id), v, e)
    PROVE  Believes(q, v, e)
  <1>. DEFINE n == Len(q)
              r == Remaining(q, id)
              m == Len(r)
  <1>1. n \in Nat /\ m \in Nat
    <2>1. r \in Seq(S)
      BY RemainingCorrect
    <2>. HIDE DEF r
    <2>. QED
      BY <2>1, LenProperties
  <1>2. PICK f \in [1 .. m -> 1 .. n] :
          /\ \A j, k \in 1 .. m : j < k => f[j] < f[k]
          /\ \A j \in 1 .. m : r[j] = q[f[j]] /\ q[f[j]].id # id
          /\ \A p \in 1 .. n : q[p].id # id => \E j \in 1 .. m : f[j] = p
    BY RemainingCorrect DEF IsRemaining, RemainingUpTo
  <1>3. Believes(r, v, e)
    OBVIOUS
  <1>. HIDE DEF r
  <1>4. /\ LinkPlaces(r) \subseteq 1 .. m
        /\ \A k \in LinkPlaces(r) : f[k] \in LinkPlaces(q) /\ r[k] = q[f[k]]
    BY <1>2 DEF LinkPlaces
  <1>5. ASSUME NEW p \in LinkPlaces(q) PROVE \E j \in LinkPlaces(r) : f[j] = p
    <2>1. p \in 1 .. n /\ IsLinkEvent(q[p]) /\ q[p].id # id
      BY <1>5 DEF LinkPlaces, LinkPlacesOf
    <2>2. PICK j \in 1 .. m : f[j] = p
      BY <1>2, <2>1
    <2>3. j \in LinkPlaces(r)
      BY <1>2, <2>1, <2>2 DEF LinkPlaces
    <2>. QED
      BY <2>2, <2>3
  <1>6. CASE LinkPlaces(r) = {}
    BY <1>3, <1>5, <1>6 DEF Believes
  <1>7. CASE LinkPlaces(r) # {}
    <2>1. PICK k \in LinkPlaces(r) : /\ \A j \in LinkPlaces(r) : j <= k
                                     /\ e = r[k].xtcp_event
      BY <1>3, <1>7 DEF Believes
    <2>2. f[k] \in LinkPlaces(q) /\ e = q[f[k]].xtcp_event
      BY <1>4, <2>1
    <2>3. ASSUME NEW p \in LinkPlaces(q) PROVE p <= f[k]
      <3>1. PICK j \in LinkPlaces(r) : f[j] = p
        BY <1>5
      <3>2. j \in 1 .. m /\ k \in 1 .. m /\ (j < k \/ j = k)
        BY <1>1, <1>4, <2>1
      <3>3. f[j] \in 1 .. n /\ f[k] \in 1 .. n /\ (f[j] < f[k] \/ f[j] = f[k])
        BY <1>2, <3>2
      <3>. QED
        BY <1>1, <3>1, <3>3
    <2>. QED
      BY <2>2, <2>3 DEF Believes
  <1>. QED
    BY <1>6, <1>7

-----------------------------------------------------------------------------
(* What a step does to the queues.                                         *)

\* Client d's queue keeps its events, with at most a connection's event more.
Quiet(d) ==
    \/ queue'[d] = queue[d]
    \/ \E x \in Event : /\ ~IsDnsResult(x) /\ ~IsLinkEvent(x)
                        /\ queue'[d] = Append(queue[d], x)

\* A connection's event is neither a link event nor a DNS result.
LEMMA PostQuiet ==
    ASSUME ServerInv, NEW c, NEW id \in Sockets, NEW event \in ServerEvents,
           Post(c, id, event)
    PROVE  \A d \in Clients : Quiet(d)
  <1>. DEFINE x == [xtcp_event |-> event, id |-> id]
  <1>1. x \in Event
    BY ServerIds, ServerEventsAssumption DEF Event
  <1>2. ~IsDnsResult(x) /\ ~IsLinkEvent(x)
    BY DEF IsDnsResult, IsLinkEvent, LinkEvents, ServerEvents
  <1>3. CASE Accepts(c)
    <2>1. queue' = [queue EXCEPT ![c] = Append(queue[c], x)]
      BY <1>3 DEF Post
    <2>. HIDE DEF x
    <2>. QED
      BY <1>1, <1>2, <2>1 DEF Quiet, ServerInv
  <1>4. CASE ~Accepts(c)
    BY <1>4 DEF Post, Quiet
  <1>. QED
    BY <1>3, <1>4

\* The steps of the server other than get_event and close are quiet.
LEMMA OtherQuiet ==
    ASSUME ServerInv,
           \/ \E c \in Clients : OtherCall(c)
           \/ \E c \in Clients, id \in Sockets : send_tcp(c, id)
           \/ Callback
    PROVE  \A d \in Clients : Quiet(d)
  <1>. DEFINE Kept == \A d \in Clients : Quiet(d)
  <1>1. ASSUME UNCHANGED queue PROVE Kept
    BY <1>1 DEF Quiet
  <1>2. \A p \in Pcbs : pcb[p].arg \in Sockets
    BY DEF ServerInv, Blocks
  <1>3. ASSUME NEW c \in Clients, OtherCall(c) PROVE Kept
    <2>1. CASE socket_tcp_kill(c)
      <3>1. PICK v \in Victims : \/ UNCHANGED queue
                                 \/ \E d : Post(d, pcb[v].arg, "XTCP_ABORTED")
        BY <2>1 DEF socket_tcp_kill
      <3>2. v \in Pcbs /\ "XTCP_ABORTED" \in ServerEvents
        BY DEF Victims, Pcbs, ServerEvents
      <3>. QED
        BY <1>1, <1>2, <3>1, <3>2, PostQuiet
    <2>2. ASSUME ~socket_tcp_kill(c) PROVE UNCHANGED queue
      <3>1. CASE socket_udp(c) \/ socket_none(c) \/ socket_tcp(c)
        BY <3>1 DEF socket_udp, socket_none, socket_tcp, NewSocket
      <3>2. CASE \E id \in Sockets : listen_tcp(c, id) \/ connect_tcp(c, id)
        BY <3>2 DEF listen_tcp, connect_tcp
      <3>3. CASE \E id \in Sockets : listen_udp(c, id) \/ connect_udp(c, id)
        BY <3>3 DEF listen_udp, connect_udp, open_udp
      <3>4. CASE \E id \in Sockets : recv(c, id) \/ recvfrom(c, id)
        BY <3>4 DEF recv, recvfrom
      <3>5. CASE \E id \in Sockets, data \in ClientData :
                    set_connection_client_data(c, id, data)
        BY <3>5 DEF set_connection_client_data
      <3>. QED
        BY <1>3, <2>2, <3>1, <3>2, <3>3, <3>4, <3>5 DEF OtherCall
    <2>. QED
      BY <1>1, <2>1, <2>2, Zenon
  <1>4. ASSUME NEW c \in Clients, NEW id \in Sockets, send_tcp(c, id) PROVE Kept
    BY <1>1, <1>4 DEF send_tcp
  <1>5. ASSUME NEW l \in ListenPcbs, Syn(l) PROVE Kept
    BY <1>1, <1>5 DEF Syn
  <1>6. ASSUME NEW p \in UdpPcbs, xtcp_udp_recv(p) PROVE Kept
    <2>1. PICK event \in {"XTCP_RECV_DATA", "XTCP_RECV_FROM_DATA"} :
             Post(connections[pcb[p].arg].client_num, pcb[p].arg, event)
      BY <1>6, DatagramEffect
    <2>2. p \in Pcbs /\ event \in ServerEvents
      BY DEF Pcbs, ServerEvents
    <2>. QED
      BY <1>2, <2>1, <2>2, PostQuiet
  <1>7. ASSUME NEW p \in TcpPcbs, TcpCallback(p) PROVE Kept
    <2>1. p \in Pcbs
      BY DEF Pcbs
    <2>2. ASSUME NEW d, NEW i \in Sockets, NEW event \in ServerEvents,
                 Post(d, i, event)
          PROVE  Kept
      BY <2>2, PostQuiet
    <2>3. CASE HalfOpenLost(p) \/ CloseDone(p)
      BY <1>1, <2>3 DEF HalfOpenLost, CloseDone
    <2>4. CASE Accept(p)
      BY <2>2, <2>4, AcceptEffect DEF ServerEvents
    <2>5. CASE Connected(p) \/ RecvFin(p) \/ Sent(p) \/ AcceptFails(p)
      BY <1>2, <2>1, <2>2, <2>5
         DEF Connected, RecvFin, Sent, AcceptFails, ServerEvents
    <2>6. CASE RecvData(p) \/ RetryRefused(p)
      BY <1>2, <2>1, <2>2, <2>6 DEF RecvData, RetryRefused, Deliver, ServerEvents
    <2>7. ASSUME NEW event \in {"XTCP_ABORTED", "XTCP_TIMED_OUT"}, Err(p, event)
          PROVE  Kept
      BY <1>2, <2>1, <2>2, <2>7 DEF Err, ServerEvents
    <2>. QED
      BY <1>7, <2>3, <2>4, <2>5, <2>6, <2>7 DEF TcpCallback
  <1>. HIDE DEF Kept
  <1>8. Kept
    BY <1>3, <1>4, <1>5, <1>6, <1>7 DEF Callback
  <1>. QED
    BY <1>8 DEF Kept

\* Adding an event to a queue that has room keeps the queue's type and bound.
LEMMA RoomForOne ==
    ASSUME NEW q \in Seq(Event), HasRoom(q), NEW x \in Event
    PROVE  Append(q, x) \in Seq(Event) /\ Len(Append(q, x)) <= CLIENT_QUEUE_SIZE
  <1>1. Append(q, x) \in Seq(Event) /\ Len(Append(q, x)) = Len(q) + 1 /\ Len(q) \in Nat
    BY AppendProperties, LenProperties
  <1>. QED
    BY <1>1, SizesAssumption DEF HasRoom

\* A link event under id 0, and a DNS result under its error code, are events.
LEMMA NetifEvent ==
    /\ \A event \in LinkEvents :
          LET x == [xtcp_event |-> event, id |-> 0]
          IN  x \in Event /\ IsLinkEvent(x) /\ ~IsDnsResult(x)
    /\ \A id \in {XTCP_SUCCESS, XTCP_ENOMEM} :
          LET x == [xtcp_event |-> "XTCP_DNS_RESULT", id |-> id]
          IN  x \in Event /\ IsDnsResult(x) /\ ~IsLinkEvent(x)
  <1>1. 0 \in Ids /\ {XTCP_SUCCESS, XTCP_ENOMEM} \subseteq Ids
    BY NetifIds DEF XTCP_SUCCESS
  <1>2. LinkEvents \subseteq EventTypes /\ "XTCP_DNS_RESULT" \in EventTypes
    BY NetifEventTypes
  <1>3. "XTCP_DNS_RESULT" \notin LinkEvents
    BY DEF LinkEvents
  <1>. QED
    BY <1>1, <1>2, <1>3 DEF Event, IsLinkEvent, IsDnsResult

\* What a link event does to client d's queue.
LEMMA PostAllEffect ==
    ASSUME ServerInv, NEW event \in LinkEvents, PostAll(event)
    PROVE  /\ ServerInv'
           /\ missed' = [c \in Clients |-> ~HasRoom(queue[c])]
           /\ \A d \in Clients :
                 IF HasRoom(queue[d])
                 THEN queue'[d] = Append(queue[d], [xtcp_event |-> event, id |-> 0])
                 ELSE queue'[d] = queue[d]
           /\ UNCHANGED <<view, dns_vars>>
  <1>. DEFINE x == [xtcp_event |-> event, id |-> 0]
  <1>1. queue' = [c \in Clients |-> IF HasRoom(queue[c]) THEN Append(queue[c], x)
                                    ELSE queue[c]]
    BY DEF PostAll
  <1>2. x \in Event
    BY NetifEvent
  <1>. HIDE DEF x
  <1>3. \A d \in Clients : /\ queue'[d] \in Seq(Event)
                           /\ Len(queue'[d]) <= CLIENT_QUEUE_SIZE
    BY <1>1, <1>2, RoomForOne DEF ServerInv
  <1>4. queue' \in [Clients -> Seq(Event)]
    BY <1>1, <1>3
  <1>5. ServerInv'
    BY <1>3, <1>4 DEF PostAll, ServerInv
  <1>6. missed' = [c \in Clients |-> ~HasRoom(queue[c])] /\ UNCHANGED <<view, dns_vars>>
    BY DEF PostAll
  <1>. QED
    BY <1>1, <1>5, <1>6 DEF x

\* What an answer of the resolver does to the queues.
LEMMA DnsFoundEffect ==
    ASSUME ServerInv, NEW r \in DnsRequests, NEW found \in BOOLEAN,
           lookup[r] \in Clients \cup {NULL}, xtcp_dns_found(r, found)
    PROVE  LET c == lookup[r]
           IN  /\ ServerInv'
               /\ c \in Clients
               /\ lookup' = [lookup EXCEPT ![r] = NULL]
               /\ \A d \in Clients : d # c => queue'[d] = queue[d]
               /\ \/ /\ \E x \in Event : /\ IsDnsResult(x) /\ ~IsLinkEvent(x)
                                         /\ queue'[c] = Append(queue[c], x)
                     /\ lost' = lost
                  \/ /\ queue'[c] = queue[c]
                     /\ lost' = [lost EXCEPT ![c] = @ + 1]
               /\ UNCHANGED <<netif_vars, unheard>>
  <1>. DEFINE c == lookup[r]
              id == IF found THEN XTCP_SUCCESS ELSE XTCP_ENOMEM
              x == [xtcp_event |-> "XTCP_DNS_RESULT", id |-> id]
  <1>1. /\ c # NULL /\ lookup' = [lookup EXCEPT ![r] = NULL]
        /\ Post(c, id, "XTCP_DNS_RESULT")
        /\ lost' = IF Accepts(c) THEN lost ELSE [lost EXCEPT ![c] = @ + 1]
        /\ UNCHANGED <<connections, last_guid, pcb, buf, next_read, netif_vars,
                       unheard>>
    BY DEF xtcp_dns_found
  <1>2. c \in Clients /\ queue[c] \in Seq(Event)
    BY <1>1 DEF ServerInv
  <1>3. x \in Event /\ IsDnsResult(x) /\ ~IsLinkEvent(x)
    BY NetifEvent
  <1>4. CASE Accepts(c)
    <2>1. queue' = [queue EXCEPT ![c] = Append(queue[c], x)] /\ HasRoom(queue[c])
      BY <1>1, <1>4 DEF Post, Accepts
    <2>. HIDE DEF x, c
    <2>2. Append(queue[c], x) \in Seq(Event)
          /\ Len(Append(queue[c], x)) <= CLIENT_QUEUE_SIZE
      BY <1>2, <1>3, <2>1, RoomForOne
    <2>3. queue' \in [Clients -> Seq(Event)] /\ queue'[c] = Append(queue[c], x)
          /\ \A d \in Clients : d # c => queue'[d] = queue[d]
      BY <1>2, <2>1, <2>2 DEF ServerInv
    <2>4. \A d \in Clients : Len(queue'[d]) <= CLIENT_QUEUE_SIZE
      BY <2>2, <2>3 DEF ServerInv
    <2>5. ServerInv'
      BY <1>1, <2>3, <2>4 DEF ServerInv
    <2>. QED
      BY <1>1, <1>2, <1>3, <1>4, <2>3, <2>5 DEF c
  <1>5. CASE ~Accepts(c)
    <2>1. queue' = queue
      BY <1>1, <1>5 DEF Post
    <2>2. ServerInv'
      BY <1>1, <2>1 DEF ServerInv
    <2>. QED
      BY <1>1, <1>2, <1>5, <2>1, <2>2
  <1>. QED
    BY <1>4, <1>5

\* The server's invariant survives the events of the interface and the resolver.
LEMMA NetifKeepsServerInv ==
    ASSUME ServerInv, lookup \in [DnsRequests -> Clients \cup {NULL}],
           [NetifNext]_all_vars
    PROVE  ServerInv'
  <1>1. ASSUME UNCHANGED vars PROVE ServerInv'
    BY <1>1, ServerInvNext
  <1>2. ASSUME Next PROVE ServerInv'
    BY <1>2, ServerInvNext
  <1>3. CASE LinkUp \/ (\E config \in {"none", "address", "gateway"} : Configure(config))
             \/ \E c \in Clients : request_host_by_name(c)
    BY <1>1, <1>3 DEF LinkUp, Configure, request_host_by_name
  <1>4. CASE LinkDown \/ NotifyUp
    <2>1. \E event \in LinkEvents : PostAll(event)
      BY <1>4 DEF LinkDown, NotifyUp, LinkEvents
    <2>. QED
      BY <2>1, PostAllEffect
  <1>5. CASE \E r \in DnsRequests, found \in BOOLEAN : xtcp_dns_found(r, found)
    BY <1>5, DnsFoundEffect
  <1>6. CASE \E c \in Clients : TakeEvent(c)
    BY <1>2, <1>6 DEF TakeEvent, Next, ClientCall
  <1>7. CASE \E c \in Clients, id \in Sockets : CloseSocket(c, id)
    BY <1>2, <1>7 DEF CloseSocket, Next, ClientCall
  <1>8. CASE OtherStep
    BY <1>2, <1>8 DEF OtherStep, Next, ClientCall
  <1>9. CASE UNCHANGED all_vars
    BY <1>1, <1>9 DEF all_vars
  <1>. QED
    BY <1>3, <1>4, <1>5, <1>6, <1>7, <1>8, <1>9 DEF NetifNext

-----------------------------------------------------------------------------
(* The link.                                                               *)

\* Client c, unless it has missed something, will believe what was announced.
ViewCurrent(c) ==
    ~missed[c] => \A e : Believes(queue[c], view[c], e) =>
                            (e = "XTCP_IFUP" <=> netif_notify_state = 1)

\* LinkViewCurrent in terms of every belief the queue leads to, with the types it
\* needs.
LinkInv ==
    /\ view \in [Clients -> LinkEvents]
    /\ missed \in [Clients -> BOOLEAN]
    /\ \A c \in Clients : ViewCurrent(c)
    /\ netif_notify_state = 1 => link

\* What LinkView computes is what the client will believe.
LEMMA LinkViewBelieved ==
    ASSUME ServerInv, NEW c \in Clients
    PROVE  Believes(queue[c], view[c], LinkView(c))
  <1>. DEFINE q == queue[c]
              P == LinkPlaces(q)
  <1>1. q \in Seq(Event)
    BY DEF ServerInv
  <1>2. Len(q) \in Nat /\ DOMAIN q = 1 .. Len(q)
    <2>. HIDE DEF q
    <2>. QED
      BY <1>1, LenProperties
  <1>3. {k \in DOMAIN q : IsLinkEvent(q[k])} = P /\ P \subseteq 1 .. Len(q)
    BY <1>2 DEF LinkPlaces
  <1>4. LinkView(c) = IF P = {} THEN view[c] ELSE q[Max(P)].xtcp_event
    BY <1>3 DEF LinkView
  <1>5. CASE P = {}
    BY <1>4, <1>5 DEF Believes
  <1>6. CASE P # {}
    <2>1. Max(P) \in P /\ \A j \in P : j <= Max(P)
      BY <1>2, <1>3, <1>6, MaxOfPlaces
    <2>. QED
      BY <1>4, <1>6, <2>1 DEF Believes
  <1>. QED
    BY <1>5, <1>6

\* Nobody believes, or is told, anything at the start.
LEMMA LinkInvInit == NetifInit => LinkInv
  <1>. SUFFICES ASSUME NetifInit PROVE LinkInv
    OBVIOUS
  <1>1. /\ view = [c \in Clients |-> "XTCP_IFDOWN"]
        /\ missed = [c \in Clients |-> FALSE] /\ netif_notify_state = 0
        /\ queue = [c \in Clients |-> <<>>]
    BY DEF NetifInit, Init
  <1>2. LinkPlaces(<<>>) = {}
    BY EmptySeq DEF LinkPlaces
  <1>3. \A c \in Clients : ViewCurrent(c)
    BY <1>1, <1>2 DEF ViewCurrent, Believes
  <1>. QED
    BY <1>1, <1>3 DEF LinkInv, LinkEvents

\* A client whose queue and view a step leaves to connections stays informed.
LEMMA QuietView ==
    ASSUME ServerInv, NEW d \in Clients, Quiet(d), ViewCurrent(d),
           view'[d] = view[d], missed'[d] = missed[d],
           netif_notify_state' = netif_notify_state
    PROVE  ViewCurrent(d)'
  <1>. SUFFICES ASSUME ~missed'[d], NEW e, Believes(queue'[d], view[d], e)
                PROVE  e = "XTCP_IFUP" <=> netif_notify_state = 1
    BY DEF ViewCurrent
  <1>1. queue[d] \in Seq(Event)
    BY DEF ServerInv
  <1>2. Believes(queue[d], view[d], e)
    BY <1>1, BelievesAppendOther DEF Quiet
  <1>. QED
    BY <1>2 DEF ViewCurrent

\* A link event reaches every client whose queue has room.
LEMMA LinkInvPostAll ==
    ASSUME ServerInv, LinkInv, NEW event \in LinkEvents, PostAll(event),
           event = "XTCP_IFUP" <=> netif_notify_state' = 1,
           netif_notify_state' = 1 => link'
    PROVE  LinkInv'
  <1>. DEFINE x == [xtcp_event |-> event, id |-> 0]
  <1>1. /\ missed' = [c \in Clients |-> ~HasRoom(queue[c])] /\ view' = view
        /\ \A d \in Clients : HasRoom(queue[d]) => queue'[d] = Append(queue[d], x)
    BY PostAllEffect
  <1>2. x \in Event /\ IsLinkEvent(x) /\ x.xtcp_event = event
    BY NetifEvent
  <1>. HIDE DEF x
  <1>3. ASSUME NEW d \in Clients PROVE ViewCurrent(d)'
    <2>. SUFFICES ASSUME ~missed'[d], NEW e, Believes(queue'[d], view'[d], e)
                  PROVE  e = "XTCP_IFUP" <=> netif_notify_state' = 1
      BY DEF ViewCurrent
    <2>1. queue[d] \in Seq(Event) /\ queue'[d] = Append(queue[d], x)
      BY <1>1 DEF ServerInv
    <2>2. e = event
      BY <1>2, <2>1, BelievesAppendLink
    <2>. QED
      BY <2>2
  <1>4. missed' \in [Clients -> BOOLEAN]
    BY <1>1
  <1>. QED
    BY <1>1, <1>3, <1>4 DEF LinkInv

\* get_event: what the client takes, it believes.
LEMMA LinkInvTake ==
    ASSUME ServerInv, LinkInv, NEW c \in Clients, TakeEvent(c)
    PROVE  LinkInv'
  <1>. DEFINE q == queue[c]
              w == IF IsLinkEvent(Head(q)) THEN Head(q).xtcp_event ELSE view[c]
  <1>1. /\ q # <<>> /\ queue' = [queue EXCEPT ![c] = Tail(q)]
        /\ view' = IF IsLinkEvent(Head(q))
                   THEN [view EXCEPT ![c] = Head(q).xtcp_event] ELSE view
        /\ UNCHANGED <<link, netif_notify_state, missed>>
    BY DEF TakeEvent, get_event
  <1>2. q \in Seq(Event) /\ queue'[c] = Tail(q)
        /\ \A d \in Clients : d # c => queue'[d] = queue[d]
    BY <1>1 DEF ServerInv
  <1>3. w \in LinkEvents
    BY DEF IsLinkEvent, LinkInv
  <1>4. view' \in [Clients -> LinkEvents] /\ view'[c] = w
        /\ \A d \in Clients : d # c => view'[d] = view[d]
    BY <1>1, <1>3 DEF LinkInv, IsLinkEvent
  <1>5. ViewCurrent(c)'
    <2>. SUFFICES ASSUME ~missed'[c], NEW e, Believes(queue'[c], view'[c], e)
                  PROVE  e = "XTCP_IFUP" <=> netif_notify_state' = 1
      BY DEF ViewCurrent
    <2>1. Believes(Tail(q), w, e)
      BY <1>2, <1>4
    <2>. HIDE DEF q
    <2>2. Believes(q, view[c], e)
      BY <1>1, <1>2, <2>1, BelievesTail
    <2>. QED
      BY <1>1, <2>2 DEF LinkInv, ViewCurrent, q
  <1>6. ASSUME NEW d \in Clients, d # c PROVE ViewCurrent(d)'
    BY <1>1, <1>2, <1>4, <1>6, QuietView DEF LinkInv, Quiet
  <1>. QED
    BY <1>1, <1>4, <1>5, <1>6 DEF LinkInv

\* close: a link event that goes with connection 0 is missed.
LEMMA LinkInvClose ==
    ASSUME ServerInv, LinkInv, NEW c \in Clients, NEW id \in Sockets,
           CloseSocket(c, id)
    PROVE  LinkInv'
  <1>. DEFINE q == queue[c]
              P == LinkPlacesOf(q, id)
  <1>1. /\ queue' = [queue EXCEPT ![c] = Remaining(q, id)]
        /\ UNCHANGED <<link, netif_notify_state, view>>
    BY CloseEffect DEF CloseSocket
  <1>2. q \in Seq(Event) /\ queue'[c] = Remaining(q, id)
        /\ \A d \in Clients : d # c => queue'[d] = queue[d]
    BY <1>1 DEF ServerInv
  <1>3. Len(q) \in Nat /\ DOMAIN q = 1 .. Len(q)
    <2>. HIDE DEF q
    <2>. QED
      BY <1>2, LenProperties
  <1>4. missed' = [missed EXCEPT ![c] = @ \/ Cardinality(P) > 0]
    <2>1. {k \in DOMAIN q : IsLinkEvent(q[k]) /\ q[k].id = id} = P
      BY <1>3 DEF LinkPlacesOf
    <2>. QED
      BY <2>1 DEF CloseSocket, CountEvents
  <1>5. missed' \in [Clients -> BOOLEAN]
        /\ (~missed'[c] => ~missed[c] /\ ~(Cardinality(P) > 0))
        /\ \A d \in Clients : d # c => missed'[d] = missed[d]
    BY <1>4 DEF LinkInv
  <1>6. ViewCurrent(c)'
    <2>. SUFFICES ASSUME ~missed'[c], NEW e, Believes(queue'[c], view'[c], e)
                  PROVE  e = "XTCP_IFUP" <=> netif_notify_state' = 1
      BY DEF ViewCurrent
    <2>1. IsFiniteSet(P) /\ Cardinality(P) \in Nat
      BY <1>3, PlacesFinite DEF LinkPlacesOf
    <2>2. P = {}
      BY <1>5, <2>1, FS_EmptySet
    <2>. HIDE DEF q
    <2>3. Believes(q, view[c], e)
      BY <1>1, <1>2, <2>2, BelievesRemaining
    <2>. QED
      BY <1>1, <1>5, <2>3 DEF LinkInv, ViewCurrent, q
  <1>7. ASSUME NEW d \in Clients, d # c PROVE ViewCurrent(d)'
    BY <1>1, <1>2, <1>5, <1>7, QuietView DEF LinkInv, Quiet
  <1>. QED
    BY <1>1, <1>5, <1>6, <1>7 DEF LinkInv

\* Every step keeps LinkInv.
LEMMA LinkInvNext ==
    ASSUME ServerInv, LinkInv, lookup \in [DnsRequests -> Clients \cup {NULL}],
           [NetifNext]_all_vars
    PROVE  LinkInv'
  <1>1. ASSUME \A d \in Clients : Quiet(d),
               UNCHANGED <<view, missed, netif_notify_state, link>>
        PROVE  LinkInv'
    <2>1. \A d \in Clients : ViewCurrent(d)'
      BY <1>1, QuietView DEF LinkInv
    <2>. QED
      BY <1>1, <2>1 DEF LinkInv
  <1>2. CASE LinkUp
    <2>1. link' = TRUE /\ UNCHANGED <<queue, view, missed, netif_notify_state>>
      BY <1>2 DEF LinkUp, vars
    <2>2. \A d \in Clients : ViewCurrent(d)'
      BY <2>1, QuietView DEF LinkInv, Quiet
    <2>. QED
      BY <2>1, <2>2 DEF LinkInv
  <1>3. CASE LinkDown
    <2>1. "XTCP_IFDOWN" \in LinkEvents /\ PostAll("XTCP_IFDOWN")
          /\ netif_notify_state' = 0
      BY <1>3 DEF LinkDown, LinkEvents
    <2>. QED
      BY <2>1, LinkInvPostAll
  <1>4. CASE NotifyUp
    <2>1. "XTCP_IFUP" \in LinkEvents /\ PostAll("XTCP_IFUP")
          /\ netif_notify_state' = 1 /\ link'
      BY <1>4 DEF NotifyUp, LinkEvents
    <2>. QED
      BY <2>1, LinkInvPostAll
  <1>5. CASE UNCHANGED all_vars \/ (\E c \in Clients : request_host_by_name(c))
             \/ \E config \in {"none", "address", "gateway"} : Configure(config)
    <2>1. UNCHANGED <<queue, view, missed, netif_notify_state, link>>
      BY <1>5 DEF all_vars, vars, netif_vars, request_host_by_name, Configure
    <2>. QED
      BY <1>1, <2>1 DEF Quiet
  <1>6. ASSUME NEW r \in DnsRequests, NEW found \in BOOLEAN, xtcp_dns_found(r, found)
        PROVE  LinkInv'
    <2>1. UNCHANGED <<view, missed, netif_notify_state, link>>
      BY <1>6 DEF xtcp_dns_found, netif_vars
    <2>2. \A d \in Clients :
             \/ queue'[d] = queue[d]
             \/ \E x \in Event : ~IsLinkEvent(x) /\ queue'[d] = Append(queue[d], x)
      BY <1>6, DnsFoundEffect
    <2>3. ASSUME NEW d \in Clients PROVE ViewCurrent(d)'
      <3>. SUFFICES ASSUME ~missed'[d], NEW e, Believes(queue'[d], view'[d], e)
                    PROVE  e = "XTCP_IFUP" <=> netif_notify_state' = 1
        BY DEF ViewCurrent
      <3>1. queue[d] \in Seq(Event)
        BY DEF ServerInv
      <3>2. Believes(queue[d], view[d], e)
        BY <2>1, <2>2, <3>1, BelievesAppendOther
      <3>. QED
        BY <2>1, <3>2 DEF LinkInv, ViewCurrent
    <2>. QED
      BY <2>1, <2>3 DEF LinkInv
  <1>7. CASE OtherStep
    <2>1. UNCHANGED <<view, missed, netif_notify_state, link>>
      BY <1>7 DEF OtherStep, netif_vars
    <2>2. \A d \in Clients : Quiet(d)
      BY <1>7, OtherQuiet DEF OtherStep
    <2>. QED
      BY <1>1, <2>1, <2>2
  <1>. QED
    BY <1>2, <1>3, <1>4, <1>5, <1>6, <1>7, LinkInvTake, LinkInvClose DEF NetifNext

-----------------------------------------------------------------------------
(* DNS results.                                                            *)

\* The requests of client c that are under way.
Asked(c) == {r \in DnsRequests : lookup[r] = c}

DnsBalance(c) ==
    unheard[c] = Cardinality(Asked(c)) + Cardinality(DnsPlaces(queue[c])) + lost[c]

\* DnsResultsAccounted, with the types it needs.
DnsInv ==
    /\ lookup \in [DnsRequests -> Clients \cup {NULL}]
    /\ unheard \in [Clients -> Int]
    /\ lost \in [Clients -> Int]
    /\ \A c \in Clients : DnsBalance(c)

\* Everything that is counted is finite.
LEMMA DnsCounts ==
    ASSUME ServerInv, NEW c \in Clients
    PROVE  /\ queue[c] \in Seq(Event)
           /\ IsFiniteSet(Asked(c)) /\ Cardinality(Asked(c)) \in Nat
           /\ Cardinality(DnsPlaces(queue[c])) \in Nat
           /\ CountEvents(c, IsDnsResult) = Cardinality(DnsPlaces(queue[c]))
           /\ \A id : CountEvents(c, LAMBDA e : IsDnsResult(e) /\ e.id = id) =
                         Cardinality(DnsPlacesOf(queue[c], id))
  <1>. DEFINE q == queue[c]
  <1>1. q \in Seq(Event)
    BY DEF ServerInv
  <1>2. Len(q) \in Nat /\ DOMAIN q = 1 .. Len(q)
    <2>. HIDE DEF q
    <2>. QED
      BY <1>1, LenProperties
  <1>3. Asked(c) \subseteq DnsRequests
    BY DEF Asked
  <1>4. IsFiniteSet(Asked(c)) /\ Cardinality(Asked(c)) \in Nat
    BY <1>3, DnsAssumption, FS_Subset, FS_CardinalityType
  <1>5. Cardinality(DnsPlaces(q)) \in Nat
    BY <1>2, PlacesFinite DEF DnsPlaces
  <1>6. CountEvents(c, IsDnsResult) = Cardinality(DnsPlaces(q))
    BY <1>2 DEF CountEvents, DnsPlaces
  <1>7. \A id : CountEvents(c, LAMBDA e : IsDnsResult(e) /\ e.id = id) =
                   Cardinality(DnsPlacesOf(q, id))
    BY <1>2 DEF CountEvents, DnsPlacesOf
  <1>. QED
    BY <1>1, <1>4, <1>5, <1>6, <1>7

\* A step that leaves the requests and the counts to themselves and is quiet
\* keeps a client's balance.
LEMMA QuietBalance ==
    ASSUME ServerInv, NEW d \in Clients, Quiet(d), DnsBalance(d),
           Asked(d)' = Asked(d), unheard'[d] = unheard[d], lost'[d] = lost[d]
    PROVE  DnsBalance(d)'
  <1>1. queue[d] \in Seq(Event) /\ Cardinality(DnsPlaces(queue[d])) \in Nat
    BY DnsCounts
  <1>2. Cardinality(DnsPlaces(queue'[d])) = Cardinality(DnsPlaces(queue[d]))
    <2>1. ASSUME NEW x \in Event, ~IsDnsResult(x), queue'[d] = Append(queue[d], x)
          PROVE  Cardinality(DnsPlaces(queue'[d])) = Cardinality(DnsPlaces(queue[d]))
      <3>1. Cardinality(DnsPlaces(Append(queue[d], x))) =
               Cardinality(DnsPlaces(queue[d])) + 0
        BY <1>1, <2>1, DnsAppend
      <3>. QED
        BY <1>1, <2>1, <3>1
    <2>. QED
      BY <2>1 DEF Quiet
  <1>. QED
    BY <1>2 DEF DnsBalance

\* Nothing is asked at the start.
LEMMA DnsInvInit == NetifInit => DnsInv
  <1>. SUFFICES ASSUME NetifInit PROVE DnsInv
    OBVIOUS
  <1>1. /\ lookup = [r \in DnsRequests |-> NULL] /\ unheard = [c \in Clients |-> 0]
        /\ lost = [c \in Clients |-> 0]
        /\ queue = [c \in Clients |-> <<>>]
    BY DEF NetifInit, Init
  <1>2. \A c \in Clients : Asked(c) = {} /\ DnsPlaces(queue[c]) = {}
    BY <1>1, DnsAssumption, EmptySeq DEF Asked, DnsPlaces
  <1>3. ASSUME NEW c \in Clients PROVE DnsBalance(c)
    <2>1. Cardinality(Asked(c)) = 0 /\ Cardinality(DnsPlaces(queue[c])) = 0
      BY <1>2, FS_EmptySet
    <2>2. unheard[c] = 0 /\ lost[c] = 0
      BY <1>1
    <2>. QED
      BY <2>1, <2>2 DEF DnsBalance
  <1>. QED
    BY <1>1, <1>3 DEF DnsInv

\* A request under way is one more result to hear.
LEMMA DnsInvRequest ==
    ASSUME ServerInv, DnsInv, NEW c \in Clients, request_host_by_name(c)
    PROVE  DnsInv'
  <1>1. PICK r \in DnsRequests : lookup[r] = NULL
                                 /\ lookup' = [lookup EXCEPT ![r] = c]
    BY DEF request_host_by_name, shim_request_host_by_name
  <1>2. unheard' = [unheard EXCEPT ![c] = @ + 1] /\ UNCHANGED <<queue, lost>>
    BY DEF request_host_by_name, vars
  <1>3. /\ lookup' \in [DnsRequests -> Clients \cup {NULL}]
        /\ unheard' \in [Clients -> Int] /\ unheard'[c] = unheard[c] + 1
        /\ \A d \in Clients : d # c => unheard'[d] = unheard[d]
    BY <1>1, <1>2 DEF DnsInv
  <1>4. Asked(c)' = Asked(c) \cup {r} /\ r \notin Asked(c)
    BY <1>1, DnsAssumption DEF Asked, DnsInv
  <1>5. \A d \in Clients : d # c => Asked(d)' = Asked(d)
    BY <1>1, DnsAssumption DEF Asked, DnsInv
  <1>6. DnsBalance(c)'
    <2>1. Cardinality(Asked(c)') = Cardinality(Asked(c)) + 1
      BY <1>4, DnsCounts, FS_AddElement
    <2>2. Cardinality(Asked(c)) \in Nat /\ Cardinality(DnsPlaces(queue[c])) \in Nat
      BY DnsCounts
    <2>. QED
      BY <1>2, <1>3, <2>1, <2>2 DEF DnsBalance, DnsInv
  <1>7. ASSUME NEW d \in Clients, d # c PROVE DnsBalance(d)'
    BY <1>2, <1>3, <1>5, <1>7, QuietBalance DEF DnsInv, Quiet
  <1>. QED
    BY <1>2, <1>3, <1>6, <1>7 DEF DnsInv

\* An answer turns a request into an event, or into a lost one.
LEMMA DnsInvFound ==
    ASSUME ServerInv, DnsInv, NEW r \in DnsRequests, NEW found \in BOOLEAN,
           xtcp_dns_found(r, found)
    PROVE  DnsInv'
  <1>0. lookup[r] \in Clients \cup {NULL}
    BY DEF DnsInv
  <1>1. PICK c \in Clients :
        /\ c = lookup[r] /\ lookup' = [lookup EXCEPT ![r] = NULL]
        /\ \A d \in Clients : d # c => queue'[d] = queue[d]
        /\ \/ /\ \E x \in Event : IsDnsResult(x) /\ queue'[c] = Append(queue[c], x)
              /\ lost' = lost
           \/ /\ queue'[c] = queue[c]
              /\ lost' = [lost EXCEPT ![c] = @ + 1]
        /\ unheard' = unheard
    BY <1>0, DnsFoundEffect
  <1>2. Asked(c)' = Asked(c) \ {r} /\ r \in Asked(c)
    BY <1>1, DnsAssumption DEF Asked, DnsInv
  <1>3. \A d \in Clients : d # c => Asked(d)' = Asked(d)
    BY <1>1, DnsAssumption DEF Asked, DnsInv
  <1>4. Cardinality(Asked(c)') = Cardinality(Asked(c)) - 1
    BY <1>1, <1>2, DnsCounts, FS_RemoveElement
  <1>5. Cardinality(Asked(c)) \in Nat /\ Cardinality(DnsPlaces(queue[c])) \in Nat
        /\ queue[c] \in Seq(Event)
    BY <1>1, DnsCounts
  <1>6. /\ lookup' \in [DnsRequests -> Clients \cup {NULL}]
        /\ unheard' \in [Clients -> Int] /\ lost' \in [Clients -> Int]
        /\ \A d \in Clients : d # c => unheard'[d] = unheard[d] /\ lost'[d] = lost[d]
    BY <1>1 DEF DnsInv
  <1>7. DnsBalance(c)'
    <2>. DEFINE n == Cardinality(Asked(c))
                m == Cardinality(DnsPlaces(queue[c]))
    <2>1. unheard'[c] = n + m + lost[c] /\ lost[c] \in Int
      BY <1>1 DEF DnsBalance, DnsInv
    <2>2. ASSUME NEW x \in Event, IsDnsResult(x), queue'[c] = Append(queue[c], x),
                 lost' = lost
          PROVE  DnsBalance(c)'
      <3>1. Cardinality(DnsPlaces(Append(queue[c], x))) = m + 1
        BY <1>5, <2>2, DnsAppend
      <3>2. unheard'[c] = (n - 1) + (m + 1) + lost[c]
        BY <1>5, <2>1
      <3>3. unheard'[c] = Cardinality(Asked(c)') + Cardinality(DnsPlaces(queue'[c]))
                             + lost'[c]
        BY <1>4, <2>2, <3>1, <3>2
      <3>. QED
        BY <3>3 DEF DnsBalance
    <2>3. CASE queue'[c] = queue[c] /\ lost' = [lost EXCEPT ![c] = @ + 1]
      <3>1. lost'[c] = lost[c] + 1
        BY <2>3 DEF DnsInv
      <3>2. unheard'[c] = (n - 1) + m + (lost[c] + 1)
        BY <1>5, <2>1
      <3>3. unheard'[c] = Cardinality(Asked(c)') + Cardinality(DnsPlaces(queue'[c]))
                             + lost'[c]
        BY <1>4, <2>3, <3>1, <3>2
      <3>. QED
        BY <3>3 DEF DnsBalance
    <2>. QED
      BY <1>1, <2>2, <2>3
  <1>8. ASSUME NEW d \in Clients, d # c PROVE DnsBalance(d)'
    BY <1>1, <1>3, <1>6, <1>8, QuietBalance DEF DnsInv, Quiet
  <1>. QED
    BY <1>6, <1>7, <1>8 DEF DnsInv

\* get_event: a result taken is a result heard.
LEMMA DnsInvTake ==
    ASSUME ServerInv, DnsInv, NEW c \in Clients, TakeEvent(c)
    PROVE  DnsInv'
  <1>. DEFINE q == queue[c]
              one == IF IsDnsResult(Head(q)) THEN 1 ELSE 0
  <1>1. /\ q # <<>> /\ queue' = [queue EXCEPT ![c] = Tail(q)] /\ UNCHANGED lookup
        /\ unheard' = IF IsDnsResult(Head(q))
                      THEN [unheard EXCEPT ![c] = @ - 1] ELSE unheard
        /\ UNCHANGED lost
    BY DEF TakeEvent, get_event
  <1>2. q \in Seq(Event) /\ queue'[c] = Tail(q)
        /\ \A d \in Clients : d # c => queue'[d] = queue[d]
    BY <1>1 DEF ServerInv
  <1>3. /\ unheard' \in [Clients -> Int] /\ unheard'[c] = unheard[c] - one
        /\ \A d \in Clients : d # c => unheard'[d] = unheard[d]
    BY <1>1 DEF DnsInv
  <1>4. \A d \in Clients : Asked(d)' = Asked(d)
    BY <1>1 DEF Asked
  <1>5. one \in Int
    OBVIOUS
  <1>6. Cardinality(Asked(c)) \in Nat /\ Cardinality(DnsPlaces(q)) \in Nat
    BY DnsCounts
  <1>7. Cardinality(DnsPlaces(q)) = Cardinality(DnsPlaces(Tail(q))) + one
    <2>. HIDE DEF q
    <2>. QED
      BY <1>1, <1>2, DnsTail
  <1>8. Cardinality(DnsPlaces(Tail(q))) \in Nat
    <2>1. Tail(q) \in Seq(Event)
      BY <1>1, <1>2, HeadTailProperties
    <2>2. Len(Tail(q)) \in Nat
      <3>. DEFINE t == Tail(q)
      <3>1. t \in Seq(Event)
        BY <2>1
      <3>. HIDE DEF t
      <3>2. Len(t) \in Nat
        BY <3>1, LenProperties
      <3>. QED
        BY <3>2 DEF t
    <2>. QED
      BY <2>2, PlacesFinite DEF DnsPlaces
  <1>. HIDE DEF one
  <1>9. DnsBalance(c)'
    BY <1>1, <1>2, <1>3, <1>4, <1>5, <1>6, <1>7, <1>8 DEF DnsBalance, DnsInv
  <1>10. ASSUME NEW d \in Clients, d # c PROVE DnsBalance(d)'
    BY <1>1, <1>2, <1>3, <1>4, <1>10, QuietBalance DEF DnsInv, Quiet
  <1>. QED
    BY <1>1, <1>3, <1>9, <1>10 DEF DnsInv

\* close: the results under the connection's id are lost.
LEMMA DnsInvClose ==
    ASSUME ServerInv, DnsInv, NEW c \in Clients, NEW id \in Sockets,
           CloseSocket(c, id)
    PROVE  DnsInv'
  <1>. DEFINE q == queue[c]
              gone == Cardinality(DnsPlacesOf(q, id))
  <1>1. /\ queue' = [queue EXCEPT ![c] = Remaining(q, id)] /\ UNCHANGED lookup
        /\ lost' = [lost EXCEPT ![c] =
              @ + CountEvents(c, LAMBDA e : IsDnsResult(e) /\ e.id = id)]
        /\ UNCHANGED unheard
    BY CloseEffect DEF CloseSocket
  <1>2. q \in Seq(Event) /\ queue'[c] = Remaining(q, id)
        /\ \A d \in Clients : d # c => queue'[d] = queue[d]
    BY <1>1 DEF ServerInv
  <1>3. lost' = [lost EXCEPT ![c] = @ + gone]
    BY <1>1, DnsCounts
  <1>4. gone \in Nat
    <2>1. Len(q) \in Nat
      <3>. HIDE DEF q
      <3>. QED
        BY <1>2, LenProperties
    <2>. QED
      BY <2>1, PlacesFinite DEF DnsPlacesOf
  <1>5. /\ lost' \in [Clients -> Int] /\ lost'[c] = lost[c] + gone
        /\ \A d \in Clients : d # c => lost'[d] = lost[d]
    BY <1>3, <1>4 DEF DnsInv
  <1>6. \A d \in Clients : Asked(d)' = Asked(d)
    BY <1>1 DEF Asked
  <1>7. Cardinality(Asked(c)) \in Nat /\ Cardinality(DnsPlaces(q)) \in Nat
    BY DnsCounts
  <1>8. Cardinality(DnsPlaces(Remaining(q, id))) = Cardinality(DnsPlaces(q)) - gone
    <2>. HIDE DEF q
    <2>. QED
      BY <1>2, DnsRemaining
  <1>. HIDE DEF gone
  <1>9. DnsBalance(c)'
    BY <1>1, <1>2, <1>4, <1>5, <1>6, <1>7, <1>8 DEF DnsBalance, DnsInv
  <1>10. ASSUME NEW d \in Clients, d # c PROVE DnsBalance(d)'
    BY <1>1, <1>2, <1>5, <1>6, <1>10, QuietBalance DEF DnsInv, Quiet
  <1>. QED
    BY <1>1, <1>5, <1>9, <1>10 DEF DnsInv

\* Every step keeps DnsInv.
LEMMA DnsInvNext ==
    ASSUME ServerInv, DnsInv, [NetifNext]_all_vars
    PROVE  DnsInv'
  <1>1. ASSUME \A d \in Clients : Quiet(d), UNCHANGED <<lookup, unheard, lost>>
        PROVE  DnsInv'
    <2>1. \A d \in Clients : Asked(d)' = Asked(d)
      BY <1>1 DEF Asked
    <2>2. \A d \in Clients : DnsBalance(d)'
      BY <1>1, <2>1, QuietBalance DEF DnsInv
    <2>. QED
      BY <1>1, <2>2 DEF DnsInv
  <1>2. CASE UNCHANGED all_vars \/ LinkUp
             \/ \E config \in {"none", "address", "gateway"} : Configure(config)
    <2>1. UNCHANGED <<queue, lookup, unheard, lost>>
      BY <1>2 DEF all_vars, vars, dns_vars, LinkUp, Configure
    <2>. QED
      BY <1>1, <2>1 DEF Quiet
  <1>3. CASE LinkDown \/ NotifyUp
    <2>1. PICK event \in LinkEvents : PostAll(event)
      BY <1>3 DEF LinkDown, NotifyUp, LinkEvents
    <2>. DEFINE x == [xtcp_event |-> event, id |-> 0]
    <2>2. UNCHANGED <<lookup, unheard, lost>>
          /\ \A d \in Clients : queue'[d] = queue[d] \/ queue'[d] = Append(queue[d], x)
      BY <2>1, PostAllEffect DEF dns_vars
    <2>3. x \in Event /\ ~IsDnsResult(x)
      BY NetifEvent
    <2>. HIDE DEF x
    <2>4. ASSUME NEW d \in Clients PROVE DnsBalance(d)'
      <3>1. queue[d] \in Seq(Event) /\ Cardinality(DnsPlaces(queue[d])) \in Nat
        BY DnsCounts
      <3>2. Cardinality(DnsPlaces(Append(queue[d], x))) =
               Cardinality(DnsPlaces(queue[d])) + 0
        BY <2>3, <3>1, DnsAppend
      <3>. DEFINE n == Cardinality(DnsPlaces(queue[d]))
      <3>3. Cardinality(DnsPlaces(queue'[d])) = n
        <4>1. CASE queue'[d] = queue[d]
          BY <4>1
        <4>2. CASE queue'[d] = Append(queue[d], x)
          <5>1. n + 0 = n
            BY <3>1
          <5>. QED
            BY <3>2, <4>2, <5>1
        <4>. QED
          BY <2>2, <4>1, <4>2
      <3>4. Asked(d)' = Asked(d)
        BY <2>2 DEF Asked
      <3>. QED
        BY <2>2, <3>3, <3>4 DEF DnsBalance, DnsInv
    <2>. QED
      BY <2>2, <2>4 DEF DnsInv
  <1>4. CASE OtherStep
    <2>1. UNCHANGED <<lookup, unheard, lost>>
      BY <1>4 DEF OtherStep, dns_vars
    <2>2. \A d \in Clients : Quiet(d)
      BY <1>4, OtherQuiet DEF OtherStep
    <2>. QED
      BY <1>1, <2>1, <2>2
  <1>. QED
    BY <1>2, <1>3, <1>4, DnsInvRequest, DnsInvFound, DnsInvTake, DnsInvClose
       DEF NetifNext

-----------------------------------------------------------------------------
(* Theorems.                                                               *)

NetifInv == ServerInv /\ LinkInv /\ DnsInv

\* The three invariants hold together: the server's bounds the queues, the
\* resolver's gives the type of lookup that the server's needs.
LEMMA NetifInvAlways == NetifSpec => []NetifInv
  <1>1. NetifInit => NetifInv
    BY ServerInvInit, LinkInvInit, DnsInvInit DEF NetifInit, NetifInv
  <1>2. NetifInv /\ [NetifNext]_all_vars => NetifInv'
    <2>. SUFFICES ASSUME NetifInv, [NetifNext]_all_vars PROVE NetifInv'
      OBVIOUS
    <2>1. ServerInv /\ LinkInv /\ DnsInv /\ lookup \in [DnsRequests -> Clients \cup {NULL}]
      BY DEF NetifInv, DnsInv
    <2>2. ServerInv'
      BY <2>1, NetifKeepsServerInv
    <2>3. LinkInv'
      BY <2>1, LinkInvNext
    <2>4. DnsInv'
      BY <2>1, DnsInvNext
    <2>. QED
      BY <2>2, <2>3, <2>4 DEF NetifInv
  <1>. QED
    BY <1>1, <1>2, PTL DEF NetifSpec

\* A client that reads its queue knows the state of the link, unless its latest
\* link event met a full queue or was removed with connection 0; whatever the
\* connections on the same queue do.
THEOREM LinkViewsAreCurrent == NetifSpec => []LinkViewCurrent
  <1>1. NetifInv => LinkViewCurrent
    <2>. SUFFICES ASSUME ServerInv, LinkInv PROVE LinkViewCurrent
      BY DEF NetifInv
    <2>1. \A c \in Clients : Believes(queue[c], view[c], LinkView(c))
      BY LinkViewBelieved
    <2>. QED
      BY <2>1 DEF LinkInv, ViewCurrent, LinkViewCurrent
  <1>. QED
    BY <1>1, NetifInvAlways, PTL

\* However many clients and requests there are, each request's one result is still
\* to come, in the queue of the client that made it, taken by it, or lost; none is
\* repeated and none reaches another client.
THEOREM DnsResultsAreAccounted == NetifSpec => []DnsResultsAccounted
  <1>1. NetifInv => DnsResultsAccounted
    <2>. SUFFICES ASSUME ServerInv, DnsInv PROVE DnsResultsAccounted
      BY DEF NetifInv
    <2>1. \A c \in Clients : Waiting(c) = Cardinality(DnsPlaces(queue[c]))
      BY DnsCounts DEF Waiting
    <2>. QED
      BY <2>1 DEF DnsInv, DnsBalance, Asked, UnderWay, DnsResultsAccounted
  <1>. QED
    BY <1>1, NetifInvAlways, PTL

=============================================================================
