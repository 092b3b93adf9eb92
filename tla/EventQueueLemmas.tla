-------------------------- MODULE EventQueueLemmas --------------------------
(***************************************************************************)
(* Facts about the queue's operators that the proofs share: induction on   *)
(* the natural numbers in a first-order form, and what remains of a queue  *)
(* when the events of one connection leave it.                             *)
(***************************************************************************)
EXTENDS EventQueueOps, SequenceTheorems, WellFoundedInduction, TLAPS

-----------------------------------------------------------------------------
(* Induction.                                                              *)

\* A set of natural numbers has a least element.  An induction takes the least
\* number for which the claim fails, and shows that it fails for a smaller one.
LEMMA LeastNatural ==
    ASSUME NEW S, S \subseteq Nat, S # {}
    PROVE  \E x \in S : \A y \in S : x <= y
  <1>. DEFINE R == OpToRel(<, Nat)
  <1>1. IsWellFoundedOn(R, Nat)
    BY NatLessThanWellFounded, Zenon
  <1>2. PICK x \in S : \A y \in S : ~(<<y, x>> \in R)
    <2>. HIDE DEF R
    <2>. QED
      BY <1>1, WFMin
  <1>3. \A y \in S : ~(y < x)
    BY <1>2 DEF OpToRel
  <1>. QED
    BY <1>3

-----------------------------------------------------------------------------
(* What remains of a queue.                                                *)

\* Nothing remains of nothing.
LEMMA RemainingNone ==
    ASSUME NEW q, NEW id, NEW r, Len(r) = 0
    PROVE  RemainingUpTo(q, 0, id, r)
  <1>. DEFINE f == [j \in 1 .. 0 |-> j]
  <1>1. f \in [1 .. Len(r) -> 1 .. 0]
    OBVIOUS
  <1>. SUFFICES
         \E h \in [1 .. Len(r) -> 1 .. 0] :
            /\ \A j, k \in 1 .. Len(r) : j < k => h[j] < h[k]
            /\ \A j \in 1 .. Len(r) : r[j] = q[h[j]] /\ q[h[j]].id # id
            /\ \A p \in 1 .. 0 : q[p].id # id =>
                  \E j \in 1 .. Len(r) : h[j] = p
    BY DEF RemainingUpTo
  <1>. WITNESS f \in [1 .. Len(r) -> 1 .. 0]
  <1>. QED
    BY <1>1

\* An event of the connection leaves what remains as it is.
LEMMA RemainingSkip ==
    ASSUME NEW q, NEW n \in Nat, NEW id, NEW r, Len(r) \in Nat,
           RemainingUpTo(q, n, id, r), q[n + 1].id = id
    PROVE  RemainingUpTo(q, n + 1, id, r)
  <1>1. PICK f \in [1 .. Len(r) -> 1 .. n] :
            /\ \A j, k \in 1 .. Len(r) : j < k => f[j] < f[k]
            /\ \A j \in 1 .. Len(r) : r[j] = q[f[j]] /\ q[f[j]].id # id
            /\ \A p \in 1 .. n : q[p].id # id => \E j \in 1 .. Len(r) : f[j] = p
    BY DEF RemainingUpTo
  <1>2. f \in [1 .. Len(r) -> 1 .. n + 1]
    BY <1>1
  <1>3. \A p \in 1 .. n + 1 : q[p].id # id => \E j \in 1 .. Len(r) : f[j] = p
    <2>1. SUFFICES ASSUME NEW p \in 1 .. n + 1, q[p].id # id
                   PROVE  \E j \in 1 .. Len(r) : f[j] = p
      OBVIOUS
    <2>2. p \in 1 .. n
      BY <2>1
    <2>. QED
      BY <1>1, <2>1, <2>2
  <1>. SUFFICES
         \E h \in [1 .. Len(r) -> 1 .. n + 1] :
            /\ \A j, k \in 1 .. Len(r) : j < k => h[j] < h[k]
            /\ \A j \in 1 .. Len(r) : r[j] = q[h[j]] /\ q[h[j]].id # id
            /\ \A p \in 1 .. n + 1 : q[p].id # id =>
                  \E j \in 1 .. Len(r) : h[j] = p
    BY DEF RemainingUpTo
  <1>. WITNESS f \in [1 .. Len(r) -> 1 .. n + 1]
  <1>. QED
    BY <1>1, <1>2, <1>3

\* Any other event comes last.
LEMMA RemainingKeep ==
    ASSUME NEW q, NEW n \in Nat, NEW id, NEW r, NEW s, Len(r) \in Nat,
           RemainingUpTo(q, n, id, r), q[n + 1].id # id,
           Len(s) = Len(r) + 1, s[Len(r) + 1] = q[n + 1],
           \A j \in 1 .. Len(r) : s[j] = r[j]
    PROVE  RemainingUpTo(q, n + 1, id, s)
  <1>1. PICK f \in [1 .. Len(r) -> 1 .. n] :
            /\ \A j, k \in 1 .. Len(r) : j < k => f[j] < f[k]
            /\ \A j \in 1 .. Len(r) : r[j] = q[f[j]] /\ q[f[j]].id # id
            /\ \A p \in 1 .. n : q[p].id # id => \E j \in 1 .. Len(r) : f[j] = p
    BY DEF RemainingUpTo
  <1>. DEFINE m == Len(r) + 1
              g == [j \in 1 .. m |-> IF j = m THEN n + 1 ELSE f[j]]
  <1>2. \A j \in 1 .. m : \/ j = m /\ g[j] = n + 1
                          \/ j \in 1 .. Len(r) /\ g[j] = f[j] /\ f[j] \in 1 .. n
    BY <1>1
  <1>3. g \in [1 .. m -> 1 .. n + 1]
    BY <1>2
  <1>4. \A j, k \in 1 .. m : j < k => g[j] < g[k]
    BY <1>1, <1>2
  <1>5. \A j \in 1 .. m : s[j] = q[g[j]] /\ q[g[j]].id # id
    BY <1>1, <1>2
  <1>6. \A p \in 1 .. n + 1 : q[p].id # id => \E j \in 1 .. m : g[j] = p
    <2>1. SUFFICES ASSUME NEW p \in 1 .. n + 1, q[p].id # id
                   PROVE  \E j \in 1 .. m : g[j] = p
      OBVIOUS
    <2>2. CASE p = n + 1
      BY <1>2, <2>2
    <2>3. CASE p # n + 1
      <3>1. PICK j \in 1 .. Len(r) : f[j] = p
        BY <1>1, <2>1, <2>3, SMTT(30)
      <3>. QED
        BY <1>2, <3>1
    <2>. QED
      BY <2>2, <2>3
  <1>. SUFFICES
         \E h \in [1 .. Len(s) -> 1 .. n + 1] :
            /\ \A j, k \in 1 .. Len(s) : j < k => h[j] < h[k]
            /\ \A j \in 1 .. Len(s) : s[j] = q[h[j]] /\ q[h[j]].id # id
            /\ \A p \in 1 .. n + 1 : q[p].id # id =>
                  \E j \in 1 .. Len(s) : h[j] = p
    BY DEF RemainingUpTo
  <1>. WITNESS g \in [1 .. Len(s) -> 1 .. n + 1]
  <1>. QED
    BY <1>3, <1>4, <1>5, <1>6

\* f is the function Remaining computes, on the first N events.
Keeps(f, q, id, N) == f = [n \in 0 .. N |-> KeepStep(f, q, id, n)]

\* The recursion of Remaining has a solution.
LEMMA KeepsExists ==
    ASSUME NEW q, NEW id, NEW N \in Nat
    PROVE  \E f : Keeps(f, q, id, N)
  <1>. DEFINE Bad == {n \in Nat : ~\E f : Keeps(f, q, id, n)}
  <1>1. SUFFICES ASSUME Bad # {} PROVE FALSE
    OBVIOUS
  <1>2. PICK n \in Bad : \A m \in Bad : n <= m
    BY <1>1, LeastNatural
  <1>3. CASE n = 0
    <2>. DEFINE f == [m \in 0 .. 0 |-> <<>>]
    <2>1. Keeps(f, q, id, 0)
      BY DEF Keeps, KeepStep
    <2>. QED
      BY <1>3, <2>1
  <1>4. CASE n # 0
    <2>1. n - 1 \in Nat /\ n - 1 \notin Bad
      BY <1>2, <1>4
    <2>2. PICK f : Keeps(f, q, id, n - 1)
      BY <2>1
    <2>3. \A m \in 0 .. n - 1 : f[m] = KeepStep(f, q, id, m)
      BY <2>2 DEF Keeps
    <2>. DEFINE g == [m \in 0 .. n |->
                        IF m < n THEN f[m] ELSE KeepStep(f, q, id, n)]
    <2>4. \A m \in 0 .. n : g[m] = KeepStep(g, q, id, m)
      <3>1. SUFFICES ASSUME NEW m \in 0 .. n
                     PROVE  g[m] = KeepStep(g, q, id, m)
        OBVIOUS
      <3>2. m # 0 => g[m - 1] = f[m - 1]
        BY <1>2
      <3>3. KeepStep(g, q, id, m) = KeepStep(f, q, id, m)
        BY <3>2 DEF KeepStep
      <3>4. m < n => f[m] = KeepStep(f, q, id, m)
        BY <1>2, <2>3
      <3>5. g[m] = KeepStep(f, q, id, m)
        BY <1>2, <3>4
      <3>. QED
        BY <3>3, <3>5
    <2>5. Keeps(g, q, id, n)
      <3>1. g = [m \in 0 .. n |-> g[m]]
        OBVIOUS
      <3>. HIDE DEF g
      <3>. QED
        BY <2>4, <3>1 DEF Keeps
    <2>. QED
      BY <2>5
  <1>. QED
    BY <1>3, <1>4

\* Remaining, unfolded.
LEMMA RemainingUnfolds ==
    ASSUME NEW q, NEW id, Len(q) \in Nat
    PROVE  \E f : Keeps(f, q, id, Len(q)) /\ Remaining(q, id) = f[Len(q)]
  <1>1. \E f : Keeps(f, q, id, Len(q))
    BY KeepsExists
  <1>. DEFINE kept == CHOOSE f : f = [n \in 0 .. Len(q) |-> KeepStep(f, q, id, n)]
  <1>2. Keeps(kept, q, id, Len(q))
    BY <1>1, Zenon DEF Keeps
  <1>3. Remaining(q, id) = kept[Len(q)]
    BY Zenon DEF Remaining
  <1>. QED
    BY <1>2, <1>3

\* The function and the relation agree: Remaining keeps, in order, exactly the
\* events of the other connections.
LEMMA RemainingCorrect ==
    ASSUME NEW S, NEW q \in Seq(S), NEW id
    PROVE  /\ Remaining(q, id) \in Seq(S)
           /\ Len(Remaining(q, id)) <= Len(q)
           /\ IsRemaining(q, id, Remaining(q, id))
  <1>. DEFINE N == Len(q)
  <1>0. N \in Nat
    BY LenProperties
  <1>1. PICK f : Keeps(f, q, id, N) /\ Remaining(q, id) = f[N]
    BY <1>0, RemainingUnfolds
  <1>2. \A n \in 0 .. N : f[n] = KeepStep(f, q, id, n)
    BY <1>1 DEF Keeps
  <1>. DEFINE Good(n) == /\ f[n] \in Seq(S)
                         /\ Len(f[n]) <= n
                         /\ RemainingUpTo(q, n, id, f[n])
              Bad == {n \in 0 .. N : ~Good(n)}
  <1>3. SUFFICES Bad = {}
    <2>1. Good(N)
      BY <1>0, <1>3
    <2>. QED
      BY <1>1, <2>1 DEF IsRemaining
  <1>4. SUFFICES ASSUME Bad # {} PROVE FALSE
    OBVIOUS
  <1>5. PICK n \in Bad : \A m \in Bad : n <= m
    <2>1. Bad \subseteq Nat
      BY <1>0
    <2>. HIDE DEF Bad
    <2>. QED
      BY <1>4, <2>1, LeastNatural
  <1>6. CASE n = 0
    <2>1. f[0] = <<>>
      BY <1>0, <1>2 DEF KeepStep
    <2>2. RemainingUpTo(q, 0, id, f[0])
      BY <2>1, RemainingNone
    <2>3. Good(0)
      BY <2>1, <2>2
    <2>. QED
      BY <1>5, <1>6, <2>3
  <1>7. CASE n # 0
    <2>1. n - 1 \in 0 .. N /\ n - 1 \in Nat /\ n - 1 + 1 = n /\ n \in 1 .. N
      BY <1>0, <1>5, <1>7
    <2>2. Good(n - 1)
      BY <1>5, <2>1
    <2>3. Len(f[n - 1]) \in Nat
      BY <2>2, LenProperties
    <2>4. CASE q[n].id = id
      <3>1. f[n] = f[n - 1]
        BY <1>2, <1>7, <2>1, <2>4 DEF KeepStep
      <3>2. RemainingUpTo(q, n - 1 + 1, id, f[n - 1])
        BY <2>1, <2>2, <2>3, <2>4, RemainingSkip
      <3>3. Good(n)
        BY <2>1, <2>2, <2>3, <3>1, <3>2
      <3>. QED
        BY <1>5, <3>3
    <2>5. CASE q[n].id # id
      <3>1. f[n] = Append(f[n - 1], q[n])
        BY <1>2, <1>7, <2>1, <2>5 DEF KeepStep
      <3>2. q[n] \in S
        BY <2>1, ElementOfSeq
      <3>3. /\ f[n] \in Seq(S)
            /\ Len(f[n]) = Len(f[n - 1]) + 1
            /\ f[n][Len(f[n - 1]) + 1] = q[n]
            /\ \A j \in 1 .. Len(f[n - 1]) : f[n][j] = f[n - 1][j]
        BY <2>2, <2>3, <3>1, <3>2, AppendProperties
      <3>4. RemainingUpTo(q, n - 1 + 1, id, f[n])
        BY <2>1, <2>2, <2>3, <2>5, <3>3, RemainingKeep
      <3>5. Good(n)
        BY <2>1, <2>2, <2>3, <3>3, <3>4
      <3>. QED
        BY <1>5, <3>5
    <2>. QED
      BY <2>4, <2>5
  <1>. QED
    BY <1>6, <1>7

=============================================================================
