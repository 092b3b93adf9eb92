-------------------------- MODULE ClientQueueProofs --------------------------
(***************************************************************************)
(* Proofs about ClientQueue, for any number of clients, any queue size and *)
(* any events: the types hold, no wake-up is lost, the compaction loop of  *)
(* free_notifications_on_queue is right, and the whole implements the      *)
(* bounded FIFO queues of EventQueue.                                      *)
(***************************************************************************)
EXTENDS ClientQueue, EventQueueLemmas

-----------------------------------------------------------------------------
(* The slots of a ring.                                                    *)

\* The wrapped sum client_queue.c indexes with is always a slot.
LEMMA SlotAfterType ==
    ASSUME NEW h \in Slots, NEW k \in Nat
    PROVE  SlotAfter(h, k) \in Slots
  BY SizesAssumption DEF SlotAfter, Slots

\* It is a sum with at most one wrap.
LEMMA SlotAfterWraps ==
    ASSUME NEW h \in Slots, NEW k \in 0 .. CLIENT_QUEUE_SIZE
    PROVE  SlotAfter(h, k) = IF h + k < CLIENT_QUEUE_SIZE
                             THEN h + k ELSE h + k - CLIENT_QUEUE_SIZE
  <1>. DEFINE n == CLIENT_QUEUE_SIZE
  <1>1. n \in Nat \ {0} /\ h \in 0 .. n - 1 /\ h + k \in 0 .. 2 * n - 1
    BY SizesAssumption DEF Slots
  <1>2. CASE h + k < n
    BY <1>1, <1>2 DEF SlotAfter
  <1>3. CASE h + k >= n
    BY <1>1, <1>3 DEF SlotAfter
  <1>. QED
    BY <1>1, <1>2, <1>3

\* Slots less than a full turn apart are different slots.
LEMMA SlotAfterInjective ==
    ASSUME NEW h \in Slots, NEW j \in 0 .. CLIENT_QUEUE_SIZE - 1,
           NEW k \in 0 .. CLIENT_QUEUE_SIZE - 1, j # k
    PROVE  SlotAfter(h, j) # SlotAfter(h, k)
  BY SlotAfterWraps, SizesAssumption DEF Slots

\* The explicit wrap of the loop's indices agrees with the modulo elsewhere.
LEMMA AdvanceIsNext ==
    ASSUME NEW h \in Slots, NEW k \in 0 .. CLIENT_QUEUE_SIZE - 1
    PROVE  Advance(SlotAfter(h, k)) = SlotAfter(h, k + 1)
  BY SlotAfterWraps, SizesAssumption DEF Slots, Advance

\* An index moved on stays in the array.
LEMMA AdvanceType ==
    ASSUME NEW index \in Slots
    PROVE  Advance(index) \in Slots
  BY SizesAssumption DEF Slots, Advance

\* The first n slots of a ring form a sequence of n slot values.
LEMMA PrefixIsSeq ==
    ASSUME TypeOK, NEW c \in Clients, NEW n \in Nat
    PROVE  /\ Prefix(c, n) \in Seq(SlotValue)
           /\ Len(Prefix(c, n)) = n
  <1>1. \A k \in 1 .. n :
            client_queue[c][SlotAfter(client_heads[c], k - 1)] \in SlotValue
    BY SlotAfterType DEF TypeOK
  <1>2. Prefix(c, n) \in [1 .. n -> SlotValue]
    BY <1>1 DEF Prefix
  <1>3. Prefix(c, n) \in Seq(SlotValue)
    BY <1>2, SeqDef
  <1>. QED
    BY <1>2, <1>3, LenProperties

-----------------------------------------------------------------------------
(* Types.  Counts stay in range inside the loop only because no iteration  *)
(* removes more events than it has read; LoopCounts says so.               *)

TypeInv == TypeOK /\ LoopCounts

\* The zeroed queues have the right type.
LEMMA InitType == Init => TypeInv
  <1>. SUFFICES ASSUME Init PROVE TypeInv
    OBVIOUS
  <1>1. 0 \in Slots /\ 0 \in Clients /\ 0 \in 0 .. CLIENT_QUEUE_SIZE
    BY SizesAssumption DEF Slots, Clients
  <1>2. NoLoop \in LoopLocals
    BY <1>1, EmptySeq DEF NoLoop, LoopLocals
  <1>3. reply \in [event : SlotValue \cup {EmptyEvent}, code : Int]
    BY DEF Init, Code, XTCP_SUCCESS
  <1>. QED
    BY <1>1, <1>2, <1>3 DEF Init, TypeInv, TypeOK, LoopCounts, SlotValue

\* A reply is an event or an int.
LEMMA ReplyType ==
    /\ \A n \in Int : Code(n) \in [event : SlotValue \cup {EmptyEvent}, code : Int]
    /\ \A e \in SlotValue \cup {EmptyEvent} :
          Handed(e) \in [event : SlotValue \cup {EmptyEvent}, code : Int]
  BY DEF Code, Handed

\* Outside the loop LoopCounts says nothing.
LEMMA EnqueueType ==
    ASSUME TypeInv, NEW c \in ClientNums, NEW id \in Ids, NEW event \in EventTypes,
           enqueue_event_and_notify(c, id, event)
    PROVE  TypeInv'
  <1>1. LoopCounts' /\ pc' \in {"idle", "scan"} /\ loop' \in LoopLocals
        /\ client_heads' \in [Clients -> Slots]
    BY DEF enqueue_event_and_notify, LoopCounts, TypeInv, TypeOK
  <1>2. reply' \in [event : SlotValue \cup {EmptyEvent}, code : Int]
    BY ReplyType DEF enqueue_event_and_notify, XTCP_SUCCESS, XTCP_ENOMEM, XTCP_EINVAL
  <1>3. CASE c \in Clients /\ client_num_events[c] < CLIENT_QUEUE_SIZE
    <2>. DEFINE e == [xtcp_event |-> event, id |-> id]
                position == SlotAfter(client_heads[c], client_num_events[c])
    <2>1. e \in SlotValue
      BY DEF SlotValue, Event
    <2>2. position \in Slots
      BY <1>3, SlotAfterType DEF TypeInv, TypeOK
    <2>3. client_queue' = [client_queue EXCEPT ![c][position] = e]
      BY <1>3, SizesAssumption DEF enqueue_event_and_notify, TypeInv, TypeOK
    <2>4. client_queue' \in [Clients -> [Slots -> SlotValue]]
      BY <2>1, <2>2, <2>3, <1>3 DEF TypeInv, TypeOK
    <2>5. client_num_events' \in [Clients -> 0 .. CLIENT_QUEUE_SIZE]
      BY <1>3, SizesAssumption DEF enqueue_event_and_notify, TypeInv, TypeOK
    <2>6. notified' \in [Clients -> BOOLEAN]
      BY <1>3, SizesAssumption
      DEF enqueue_event_and_notify, client_intf_notify, TypeInv, TypeOK
    <2>. QED
      BY <1>1, <1>2, <2>4, <2>5, <2>6 DEF TypeInv, TypeOK
  <1>4. CASE ~(c \in Clients /\ client_num_events[c] < CLIENT_QUEUE_SIZE)
    BY <1>1, <1>2, <1>4 DEF enqueue_event_and_notify, TypeInv, TypeOK
  <1>. QED
    BY <1>3, <1>4

\* get_event keeps the head in the ring and never counts below zero.
LEMMA GetEventType ==
    ASSUME TypeInv, NEW c \in Clients, get_event(c)
    PROVE  TypeInv'
  <1>1. LoopCounts' /\ pc' \in {"idle", "scan"} /\ loop' \in LoopLocals
        /\ client_queue' \in [Clients -> [Slots -> SlotValue]]
    BY DEF get_event, LoopCounts, TypeInv, TypeOK
  <1>2. /\ client_num_events' \in [Clients -> 0 .. CLIENT_QUEUE_SIZE]
        /\ client_heads' \in [Clients -> Slots]
    <2>1. SlotAfter(client_heads[c], 1) \in Slots
      BY SlotAfterType DEF TypeInv, TypeOK
    <2>2. CASE client_num_events[c] > 0
      <3>1. client_heads' = [client_heads EXCEPT ![c] = SlotAfter(client_heads[c], 1)]
        BY <2>2 DEF get_event, dequeue_event
      <3>2. client_num_events' =
               [client_num_events EXCEPT ![c] = client_num_events[c] - 1]
        BY <2>2 DEF get_event, dequeue_event
      <3>3. client_num_events[c] - 1 \in 0 .. CLIENT_QUEUE_SIZE
        BY <2>2, SizesAssumption DEF TypeInv, TypeOK
      <3>. QED
        BY <2>1, <3>1, <3>2, <3>3 DEF TypeInv, TypeOK
    <2>3. CASE ~(client_num_events[c] > 0)
      BY <2>3 DEF get_event, dequeue_event, TypeInv, TypeOK
    <2>. QED
      BY <2>2, <2>3
  <1>3. reply' \in [event : SlotValue \cup {EmptyEvent}, code : Int]
    BY ReplyType DEF get_event, dequeue_event, TypeInv, TypeOK
  <1>4. notified' \in [Clients -> BOOLEAN]
    BY DEF get_event, renotify, TypeInv, TypeOK
  <1>. QED
    BY <1>1, <1>2, <1>3, <1>4 DEF TypeInv, TypeOK

\* Entering the loop establishes its counters.
LEMMA FreeEntryType ==
    ASSUME TypeInv, NEW c \in Clients, NEW id \in Ids,
           free_notifications_on_queue(c, id)
    PROVE  TypeInv'
  <1>1. pc' = "scan"
        /\ loop' = [client_num |-> c, id |-> id, i |-> 0,
                    count |-> client_num_events[c],
                    read_index |-> client_heads[c],
                    write_index |-> client_heads[c],
                    result |-> 0, before |-> Contents(c)]
        /\ UNCHANGED <<client_queue, client_heads, client_num_events, notified,
                       reply>>
    BY DEF free_notifications_on_queue
  <1>2. Contents(c) \in Seq(SlotValue) /\ Len(Contents(c)) = client_num_events[c]
    BY PrefixIsSeq DEF Contents, TypeInv, TypeOK
  <1>3. /\ client_heads[c] \in Slots
        /\ client_num_events[c] \in 0 .. CLIENT_QUEUE_SIZE
        /\ 0 \in 0 .. CLIENT_QUEUE_SIZE
    BY SizesAssumption DEF TypeInv, TypeOK
  <1>4. loop' \in LoopLocals
    BY <1>1, <1>2, <1>3 DEF LoopLocals
  <1>5. SlotAfter(client_heads[c], 0) = client_heads[c]
    BY <1>3, SlotAfterWraps, SizesAssumption DEF Slots
  <1>6. LoopCounts'
    BY <1>1, <1>2, <1>3, <1>5 DEF LoopCounts
  <1>. QED
    BY <1>1, <1>4, <1>6 DEF TypeInv, TypeOK

\* What the loop's steps share: the values of its locals, by name.
LEMMA LoopFacts ==
    ASSUME TypeInv, pc = "scan"
    PROVE  /\ loop.client_num \in Clients
           /\ client_heads[loop.client_num] \in Slots
           /\ loop.i \in 0 .. CLIENT_QUEUE_SIZE
           /\ loop.count \in 0 .. CLIENT_QUEUE_SIZE
           /\ loop.result \in 0 .. CLIENT_QUEUE_SIZE
           /\ loop.read_index \in Slots /\ loop.write_index \in Slots
           /\ loop.before \in Seq(SlotValue)
           /\ loop.count = Len(loop.before)
           /\ loop.i <= loop.count /\ loop.result <= loop.i
           /\ client_num_events[loop.client_num] = loop.count - loop.result
           /\ loop.read_index = SlotAfter(client_heads[loop.client_num], loop.i)
           /\ loop.write_index =
                 SlotAfter(client_heads[loop.client_num], loop.i - loop.result)
  BY DEF TypeInv, TypeOK, LoopLocals, LoopCounts

\* An iteration is within the array, and so are the indices it moves on to.
LEMMA IterationFacts ==
    ASSUME TypeInv, pc = "scan", loop.i < loop.count
    PROVE  /\ loop.i \in 0 .. CLIENT_QUEUE_SIZE - 1
           /\ loop.i + 1 \in 0 .. CLIENT_QUEUE_SIZE
           /\ loop.i - loop.result \in 0 .. CLIENT_QUEUE_SIZE - 1
           /\ loop.i + 1 - loop.result = loop.i - loop.result + 1
           /\ loop.result + 1 \in 0 .. CLIENT_QUEUE_SIZE
           /\ loop.result < loop.count
           /\ Advance(loop.read_index) =
                 SlotAfter(client_heads[loop.client_num], loop.i + 1)
           /\ Advance(loop.write_index) =
                 SlotAfter(client_heads[loop.client_num], loop.i + 1 - loop.result)
           /\ Advance(loop.read_index) \in Slots
           /\ Advance(loop.write_index) \in Slots
  <1>. DEFINE h == client_heads[loop.client_num]
              i == loop.i
              r == loop.result
  <1>1. /\ h \in Slots /\ i \in 0 .. CLIENT_QUEUE_SIZE
        /\ r \in 0 .. CLIENT_QUEUE_SIZE
        /\ loop.count \in 0 .. CLIENT_QUEUE_SIZE /\ r <= i
        /\ loop.read_index \in Slots /\ loop.write_index \in Slots
        /\ loop.read_index = SlotAfter(h, i)
        /\ loop.write_index = SlotAfter(h, i - r)
    BY LoopFacts
  <1>2. /\ i \in 0 .. CLIENT_QUEUE_SIZE - 1
        /\ i - r \in 0 .. CLIENT_QUEUE_SIZE - 1
        /\ i + 1 - r = i - r + 1
        /\ i + 1 \in 0 .. CLIENT_QUEUE_SIZE /\ r + 1 \in 0 .. CLIENT_QUEUE_SIZE
        /\ r < loop.count
    BY <1>1, SizesAssumption
  <1>3. Advance(SlotAfter(h, i)) = SlotAfter(h, i + 1)
    BY <1>1, <1>2, AdvanceIsNext
  <1>4. Advance(SlotAfter(h, i - r)) = SlotAfter(h, i - r + 1)
    BY <1>1, <1>2, AdvanceIsNext
  <1>5. Advance(loop.read_index) \in Slots /\ Advance(loop.write_index) \in Slots
    BY <1>1, AdvanceType
  <1>. QED
    BY <1>1, <1>2, <1>3, <1>4, <1>5

\* An iteration that drops an event.
LEMMA RemoveMatchType ==
    ASSUME TypeInv, RemoveMatch
    PROVE  TypeInv'
  <1>. DEFINE c == loop.client_num
  <1>1. pc = "scan" /\ loop.i < loop.count
    BY DEF RemoveMatch
  <1>2. /\ loop' = [loop EXCEPT !.i = loop.i + 1, !.result = loop.result + 1,
                                !.read_index = Advance(loop.read_index)]
        /\ client_num_events' = [client_num_events EXCEPT
                                   ![c] = client_num_events[c] - 1]
        /\ UNCHANGED <<client_queue, client_heads, notified, reply, pc>>
    BY DEF RemoveMatch, TypeInv, TypeOK, LoopLocals
  <1>3. /\ loop.i + 1 \in 0 .. CLIENT_QUEUE_SIZE
        /\ loop.result + 1 \in 0 .. CLIENT_QUEUE_SIZE
        /\ loop.i + 1 - (loop.result + 1) = loop.i - loop.result
        /\ loop.i + 1 <= loop.count /\ loop.result + 1 <= loop.i + 1
        /\ Advance(loop.read_index) \in Slots
        /\ Advance(loop.read_index) = SlotAfter(client_heads[c], loop.i + 1)
        /\ client_num_events[c] - 1 = loop.count - (loop.result + 1)
        /\ client_num_events[c] - 1 \in 0 .. CLIENT_QUEUE_SIZE
    <2>1. loop.i \in Int /\ loop.count \in 0 .. CLIENT_QUEUE_SIZE
          /\ loop.result \in 0 .. CLIENT_QUEUE_SIZE /\ loop.result <= loop.i
          /\ client_num_events[c] = loop.count - loop.result
      BY <1>1, LoopFacts
    <2>2. /\ loop.i + 1 \in 0 .. CLIENT_QUEUE_SIZE
          /\ loop.result + 1 \in 0 .. CLIENT_QUEUE_SIZE
          /\ Advance(loop.read_index) \in Slots
          /\ Advance(loop.read_index) = SlotAfter(client_heads[c], loop.i + 1)
      BY <1>1, IterationFacts
    <2>. QED
      BY <1>1, <2>1, <2>2, SizesAssumption
  <1>4. loop \in LoopLocals
    BY DEF TypeInv, TypeOK
  <1>5. loop' \in LoopLocals
    BY <1>2, <1>3, <1>4 DEF LoopLocals
  <1>6. client_num_events' \in [Clients -> 0 .. CLIENT_QUEUE_SIZE]
    BY <1>2, <1>3 DEF TypeInv, TypeOK
  <1>7. /\ loop'.client_num = c /\ loop'.i = loop.i + 1
        /\ loop'.count = loop.count /\ loop'.result = loop.result + 1
        /\ loop'.read_index = Advance(loop.read_index)
        /\ loop'.write_index = loop.write_index /\ loop'.before = loop.before
    BY <1>2, <1>4 DEF LoopLocals
  <1>8. client_num_events'[c] = client_num_events[c] - 1
    BY <1>2, <1>4 DEF TypeInv, TypeOK, LoopLocals
  <1>9. LoopCounts'
    <2>1. loop.count = Len(loop.before)
          /\ loop.write_index = SlotAfter(client_heads[c], loop.i - loop.result)
      BY <1>1, LoopFacts
    <2>2. client_heads' = client_heads
      BY <1>2
    <2>3. /\ loop'.count = Len(loop'.before)
          /\ loop'.i <= loop'.count
          /\ loop'.result <= loop'.i
          /\ client_num_events'[loop'.client_num] = loop'.count - loop'.result
      BY <1>3, <1>7, <1>8, <2>1
    <2>4. /\ loop'.read_index = SlotAfter(client_heads'[loop'.client_num], loop'.i)
          /\ loop'.write_index = SlotAfter(client_heads'[loop'.client_num],
                                           loop'.i - loop'.result)
      <3>1. loop.i \in Int /\ loop.result \in Int
        BY <1>4 DEF LoopLocals
      <3>. QED
        BY <3>1, <1>3, <1>7, <2>1, <2>2 DEF SlotAfter
    <2>. QED
      BY <2>3, <2>4 DEF LoopCounts, SlotAfter
  <1>. QED
    BY <1>2, <1>5, <1>6, <1>9 DEF TypeInv, TypeOK

\* An iteration that keeps an event.
LEMMA KeepOtherType ==
    ASSUME TypeInv, KeepOther
    PROVE  TypeInv'
  <1>. DEFINE c == loop.client_num
  <1>1. pc = "scan" /\ loop.i < loop.count
    BY DEF KeepOther
  <1>2. /\ loop' = [loop EXCEPT !.i = loop.i + 1,
                                !.write_index = Advance(loop.write_index),
                                !.read_index = Advance(loop.read_index)]
        /\ client_queue' = [client_queue EXCEPT ![c][loop.write_index] =
                                client_queue[c][loop.read_index]]
        /\ UNCHANGED <<client_heads, client_num_events, notified, reply, pc>>
    BY DEF KeepOther, TypeInv, TypeOK, LoopLocals
  <1>3. /\ loop.i + 1 \in 0 .. CLIENT_QUEUE_SIZE
        /\ Advance(loop.read_index) \in Slots
        /\ Advance(loop.write_index) \in Slots
        /\ Advance(loop.read_index) = SlotAfter(client_heads[c], loop.i + 1)
        /\ Advance(loop.write_index) =
              SlotAfter(client_heads[c], loop.i + 1 - loop.result)
    BY <1>1, IterationFacts
  <1>4. loop \in LoopLocals
    BY DEF TypeInv, TypeOK
  <1>5. loop' \in LoopLocals
    BY <1>2, <1>3, <1>4 DEF LoopLocals
  <1>6. client_queue' \in [Clients -> [Slots -> SlotValue]]
    BY <1>2, <1>4 DEF TypeInv, TypeOK, LoopLocals
  <1>7. /\ loop'.client_num = c /\ loop'.i = loop.i + 1
        /\ loop'.count = loop.count /\ loop'.result = loop.result
        /\ loop'.read_index = Advance(loop.read_index)
        /\ loop'.write_index = Advance(loop.write_index)
        /\ loop'.before = loop.before
    BY <1>2, <1>4 DEF LoopLocals
  <1>8. LoopCounts'
    <2>1. /\ loop.count = Len(loop.before) /\ loop.i + 1 <= loop.count
          /\ loop.result <= loop.i + 1
          /\ client_num_events[c] = loop.count - loop.result
      BY <1>1, LoopFacts
    <2>2. client_heads' = client_heads /\ client_num_events' = client_num_events
      BY <1>2
    <2>3. /\ loop'.count = Len(loop'.before)
          /\ loop'.i <= loop'.count
          /\ loop'.result <= loop'.i
          /\ client_num_events'[loop'.client_num] = loop'.count - loop'.result
      BY <1>7, <2>1, <2>2
    <2>4. /\ loop'.read_index = SlotAfter(client_heads'[loop'.client_num], loop'.i)
          /\ loop'.write_index = SlotAfter(client_heads'[loop'.client_num],
                                           loop'.i - loop'.result)
      <3>1. loop.i \in Int /\ loop.result \in Int
        BY <1>4 DEF LoopLocals
      <3>. QED
        BY <3>1, <1>3, <1>7, <2>2 DEF SlotAfter
    <2>. QED
      BY <2>3, <2>4 DEF LoopCounts, SlotAfter
  <1>. QED
    BY <1>2, <1>5, <1>6, <1>8 DEF TypeInv, TypeOK

\* Leaving the loop.
LEMMA FreeReturnType ==
    ASSUME TypeInv, FreeReturn
    PROVE  TypeInv'
  <1>1. NoLoop \in LoopLocals
    BY SizesAssumption, EmptySeq DEF NoLoop, LoopLocals, Slots, Clients
  <1>2. loop.result \in Int
    BY DEF TypeInv, TypeOK, LoopLocals
  <1>. QED
    BY <1>1, <1>2, ReplyType DEF FreeReturn, TypeInv, TypeOK, LoopCounts

\* Every step keeps the types.
LEMMA NextType == TypeInv /\ [Next]_vars => TypeInv'
  <1>. SUFFICES ASSUME TypeInv, [Next]_vars PROVE TypeInv'
    OBVIOUS
  <1>1. CASE UNCHANGED vars
    BY <1>1 DEF vars, TypeInv, TypeOK, LoopCounts
  <1>2. CASE Next
    BY <1>2, EnqueueType, GetEventType, FreeEntryType, RemoveMatchType,
       KeepOtherType, FreeReturnType DEF Next
  <1>. QED
    BY <1>1, <1>2

\* The arrays of client_queue.c are never indexed out of range and the counts
\* never leave 0 .. CLIENT_QUEUE_SIZE, whatever the clients and lwIP do.
THEOREM TypeCorrect == Spec => []TypeOK
  <1>1. TypeInv => TypeOK
    BY DEF TypeInv
  <1>. QED
    BY InitType, NextType, <1>1, PTL DEF Spec

-----------------------------------------------------------------------------
(* Wake-ups.                                                               *)

\* Every step keeps event_ready raised for the clients with events.  In the
\* loop the count only goes down, so the notification that was up for the old
\* count is up for the new one.
LEMMA NextWakeup == TypeInv /\ NoLostWakeup /\ [Next]_vars => NoLostWakeup'
  <1>. SUFFICES ASSUME TypeInv, NoLostWakeup, [Next]_vars PROVE NoLostWakeup'
    OBVIOUS
  <1>. SUFFICES ASSUME NEW d \in Clients, client_num_events'[d] > 0
                PROVE  notified'[d]
    BY DEF NoLostWakeup
  <1>0. client_num_events[d] > 0 => notified[d]
    BY DEF NoLostWakeup
  <1>1. ASSUME NEW c \in ClientNums, NEW id \in Ids, NEW event \in EventTypes,
               enqueue_event_and_notify(c, id, event)
        PROVE  notified'[d]
    <2>1. CASE c \in Clients /\ client_num_events[c] < CLIENT_QUEUE_SIZE
      <3>1. /\ notified' = [notified EXCEPT ![c] = TRUE]
            /\ client_num_events' = [client_num_events EXCEPT
                                       ![c] = client_num_events[c] + 1]
        BY <1>1, <2>1, SizesAssumption
        DEF enqueue_event_and_notify, client_intf_notify, TypeInv, TypeOK
      <3>2. CASE d = c
        BY <3>1, <3>2 DEF TypeInv, TypeOK
      <3>3. CASE d # c
        BY <1>0, <3>1, <3>3 DEF TypeInv, TypeOK
      <3>. QED
        BY <3>2, <3>3
    <2>2. CASE ~(c \in Clients /\ client_num_events[c] < CLIENT_QUEUE_SIZE)
      BY <1>0, <1>1, <2>2 DEF enqueue_event_and_notify
    <2>. QED
      BY <2>1, <2>2
  <1>2. ASSUME NEW c \in Clients, get_event(c)
        PROVE  notified'[d]
    <2>1. notified' = [notified EXCEPT ![c] = client_num_events'[c] > 0]
      BY <1>2 DEF get_event, renotify
    <2>2. CASE d = c
      BY <2>1, <2>2 DEF TypeInv, TypeOK
    <2>3. CASE d # c
      <3>1. client_num_events'[d] = client_num_events[d]
        BY <1>2, <2>3 DEF get_event, dequeue_event, TypeInv, TypeOK
      <3>. QED
        BY <1>0, <2>1, <2>3, <3>1 DEF TypeInv, TypeOK
    <2>. QED
      BY <2>2, <2>3
  <1>3. ASSUME NEW c \in Clients, NEW id \in Ids,
               free_notifications_on_queue(c, id)
        PROVE  notified'[d]
    BY <1>0, <1>3 DEF free_notifications_on_queue
  <1>4. CASE RemoveMatch
    <2>1. client_num_events' = [client_num_events EXCEPT
             ![loop.client_num] = client_num_events[loop.client_num] - 1]
      BY <1>4 DEF RemoveMatch
    <2>2. client_num_events[d] > 0
      BY <2>1 DEF TypeInv, TypeOK
    <2>. QED
      BY <1>0, <1>4, <2>2 DEF RemoveMatch
  <1>5. CASE KeepOther
    BY <1>0, <1>5 DEF KeepOther
  <1>6. CASE FreeReturn
    BY <1>0, <1>6 DEF FreeReturn
  <1>7. CASE UNCHANGED vars
    BY <1>0, <1>7 DEF vars
  <1>. QED
    BY <1>1, <1>2, <1>3, <1>4, <1>5, <1>6, <1>7 DEF Next

\* A client with an event in its queue is always being told so: renotify
\* raises again what get_event cleared, and nothing else clears it.
THEOREM WakeupsKept == Spec => []NoLostWakeup
  <1>1. Init => NoLostWakeup
    BY DEF Init, NoLostWakeup
  <1>. QED
    BY <1>1, InitType, NextType, NextWakeup, PTL DEF Spec

-----------------------------------------------------------------------------
(* Compaction.                                                             *)

\* Entering the loop: nothing is written, everything is still to be read.
LEMMA FreeEntryCompaction ==
    ASSUME TypeInv, NEW c \in Clients, NEW id \in Ids,
           free_notifications_on_queue(c, id)
    PROVE  UnreadIntact' /\ SurvivorsInOrder'
  <1>1. /\ loop' = [client_num |-> c, id |-> id, i |-> 0,
                    count |-> client_num_events[c],
                    read_index |-> client_heads[c],
                    write_index |-> client_heads[c],
                    result |-> 0, before |-> Contents(c)]
        /\ client_queue' = client_queue /\ client_heads' = client_heads
    BY DEF free_notifications_on_queue
  <1>2. /\ loop'.client_num = c /\ loop'.i = 0 /\ loop'.result = 0
        /\ loop'.count = client_num_events[c] /\ loop'.before = Contents(c)
    BY <1>1
  <1>3. UnreadIntact'
    <2>1. client_num_events[c] \in Nat
      BY DEF TypeInv, TypeOK
    <2>. QED
      BY <1>1, <1>2, <2>1 DEF UnreadIntact, Contents, Prefix, SlotAfter
  <1>4. SurvivorsInOrder'
    <2>. DEFINE r == [k \in 1 .. 0 |->
                        client_queue'[c][SlotAfter(client_heads'[c], k - 1)]]
    <2>1. Len(r) = 0
      BY DEF SlotAfter
    <2>2. RemainingUpTo(loop'.before, 0, loop'.id, r)
      BY <2>1, RemainingNone
    <2>3. Prefix(loop.client_num, loop.i - loop.result)' = r
      BY <1>2 DEF Prefix, SlotAfter
    <2>. QED
      BY <1>2, <2>2, <2>3 DEF SurvivorsInOrder
  <1>. QED
    BY <1>3, <1>4

\* In an iteration the slot read is the event before[i + 1].
LEMMA ReadSlot ==
    ASSUME TypeInv, UnreadIntact, pc = "scan", loop.i < loop.count
    PROVE  client_queue[loop.client_num][loop.read_index] = loop.before[loop.i + 1]
  <1>1. /\ loop.i \in Nat /\ loop.count \in Nat
        /\ loop.read_index = SlotAfter(client_heads[loop.client_num], loop.i)
    BY LoopFacts
  <1>2. loop.i + 1 \in loop.i + 1 .. loop.count /\ loop.i + 1 - 1 = loop.i
    BY <1>1
  <1>3. client_queue[loop.client_num]
          [SlotAfter(client_heads[loop.client_num], loop.i + 1 - 1)]
            = loop.before[loop.i + 1]
    BY <1>1, <1>2 DEF UnreadIntact, SlotAfter
  <1>. QED
    BY <1>1, <1>2, <1>3

\* An iteration that drops an event moves nothing.
LEMMA RemoveMatchCompaction ==
    ASSUME TypeInv, UnreadIntact, SurvivorsInOrder, RemoveMatch
    PROVE  UnreadIntact' /\ SurvivorsInOrder'
  <1>. DEFINE c == loop.client_num
              r == Prefix(c, loop.i - loop.result)
  <1>1. pc = "scan" /\ loop.i < loop.count /\ c \in Clients
        /\ client_queue[c][loop.read_index].id = loop.id
    BY LoopFacts DEF RemoveMatch
  <1>2. /\ loop.i \in Nat /\ loop.count \in Nat /\ loop.result \in Nat
        /\ loop.i - loop.result \in Nat
    BY <1>1, LoopFacts
  <1>3. /\ loop'.client_num = c /\ loop'.id = loop.id /\ loop'.i = loop.i + 1
        /\ loop'.count = loop.count /\ loop'.result = loop.result + 1
        /\ loop'.before = loop.before
    BY DEF RemoveMatch, TypeInv, TypeOK, LoopLocals
  <1>4. client_queue' = client_queue /\ client_heads' = client_heads
    BY DEF RemoveMatch
  <1>5. UnreadIntact'
    <2>1. \A k \in loop.i + 1 + 1 .. loop.count :
            client_queue[c][SlotAfter(client_heads[c], k - 1)] = loop.before[k]
      BY <1>1, <1>2 DEF UnreadIntact
    <2>. QED
      BY <1>3, <1>4, <2>1 DEF UnreadIntact, SlotAfter
  <1>6. SurvivorsInOrder'
    <2>1. loop.before[loop.i + 1].id = loop.id
      BY <1>1, ReadSlot
    <2>2. Len(r) \in Nat
      BY <1>1, <1>2, PrefixIsSeq DEF TypeInv
    <2>3. RemainingUpTo(loop.before, loop.i, loop.id, r)
      BY <1>1 DEF SurvivorsInOrder
    <2>4. RemainingUpTo(loop.before, loop.i + 1, loop.id, r)
      BY <1>2, <2>1, <2>2, <2>3, RemainingSkip
    <2>5. loop'.i - loop'.result = loop.i - loop.result
      BY <1>2, <1>3
    <2>6. Prefix(loop.client_num, loop.i - loop.result)' = r
      BY <1>3, <1>4, <2>5 DEF Prefix, SlotAfter
    <2>. QED
      BY <1>3, <2>4, <2>6 DEF SurvivorsInOrder
  <1>. QED
    BY <1>5, <1>6

\* An iteration that keeps an event writes one slot, one that holds nothing
\* still to be read, right after the survivors so far.
LEMMA KeepOtherCompaction ==
    ASSUME TypeInv, UnreadIntact, SurvivorsInOrder, KeepOther
    PROVE  UnreadIntact' /\ SurvivorsInOrder'
  <1>. DEFINE c == loop.client_num
              h == client_heads[c]
              m == loop.i - loop.result
              r == Prefix(c, m)
              s == Prefix(loop.client_num, loop.i - loop.result)'
  <1>1. pc = "scan" /\ loop.i < loop.count /\ c \in Clients
        /\ client_queue[c][loop.read_index].id # loop.id
    BY LoopFacts DEF KeepOther
  <1>2. /\ loop.i \in 0 .. CLIENT_QUEUE_SIZE - 1
        /\ loop.count \in 0 .. CLIENT_QUEUE_SIZE
        /\ loop.result \in Nat
        /\ m \in 0 .. CLIENT_QUEUE_SIZE - 1 /\ m <= loop.i
        /\ h \in Slots /\ loop.write_index = SlotAfter(h, m)
        /\ loop.write_index \in Slots
    <2>1. loop.result \in Nat /\ h \in Slots /\ loop.write_index = SlotAfter(h, m)
          /\ loop.count \in 0 .. CLIENT_QUEUE_SIZE /\ loop.write_index \in Slots
      BY <1>1, LoopFacts
    <2>2. loop.i \in 0 .. CLIENT_QUEUE_SIZE - 1 /\ m \in 0 .. CLIENT_QUEUE_SIZE - 1
      BY <1>1, IterationFacts
    <2>. QED
      BY <2>1, <2>2
  <1>3. /\ loop'.client_num = c /\ loop'.id = loop.id /\ loop'.i = loop.i + 1
        /\ loop'.count = loop.count /\ loop'.result = loop.result
        /\ loop'.before = loop.before
    BY DEF KeepOther, TypeInv, TypeOK, LoopLocals
  <1>4. client_heads' = client_heads
        /\ client_queue' = [client_queue EXCEPT ![c][loop.write_index] =
                                client_queue[c][loop.read_index]]
    BY DEF KeepOther
  <1>5. client_queue[c][loop.read_index] = loop.before[loop.i + 1]
    BY <1>1, ReadSlot
  <1>6. /\ client_queue'[c][loop.write_index] = loop.before[loop.i + 1]
        /\ \A x \in Slots : x # loop.write_index =>
              client_queue'[c][x] = client_queue[c][x]
    BY <1>1, <1>2, <1>4, <1>5 DEF TypeInv, TypeOK
  <1>7. \A k \in 0 .. CLIENT_QUEUE_SIZE - 1 : k # m =>
            client_queue'[c][SlotAfter(h, k)] = client_queue[c][SlotAfter(h, k)]
    <2>1. SUFFICES ASSUME NEW k \in 0 .. CLIENT_QUEUE_SIZE - 1, k # m
                   PROVE  client_queue'[c][SlotAfter(h, k)]
                             = client_queue[c][SlotAfter(h, k)]
      OBVIOUS
    <2>2. SlotAfter(h, k) \in Slots /\ SlotAfter(h, k) # SlotAfter(h, m)
      BY <1>2, <2>1, SlotAfterType, SlotAfterInjective
    <2>. QED
      BY <1>2, <1>6, <2>2
  <1>8. UnreadIntact'
    <2>1. SUFFICES ASSUME NEW k \in loop.i + 1 + 1 .. loop.count
                   PROVE  client_queue'[c][SlotAfter(h, k - 1)] = loop.before[k]
      BY <1>3, <1>4 DEF UnreadIntact, SlotAfter
    <2>2. /\ k - 1 \in 0 .. CLIENT_QUEUE_SIZE - 1 /\ k - 1 # m
          /\ k \in loop.i + 1 .. loop.count
      BY <1>2, SizesAssumption
    <2>3. client_queue[c][SlotAfter(h, k - 1)] = loop.before[k]
      BY <1>1, <2>2 DEF UnreadIntact
    <2>. QED
      BY <1>7, <2>2, <2>3
  <1>9. SurvivorsInOrder'
    <2>1. Len(r) = m
      BY <1>1, <1>2, PrefixIsSeq DEF TypeInv
    <2>2. loop'.i - loop'.result = m + 1
      BY <1>2, <1>3
    <2>3. s = [k \in 1 .. m + 1 |-> client_queue'[c][SlotAfter(h, k - 1)]]
      BY <1>3, <1>4, <2>2 DEF Prefix, SlotAfter
    <2>4. Len(s) = m + 1
      BY <1>2, <2>3
    <2>5. s[m + 1] = loop.before[loop.i + 1]
      BY <1>2, <1>6, <2>3
    <2>6. \A j \in 1 .. m : s[j] = r[j]
      <3>1. SUFFICES ASSUME NEW j \in 1 .. m PROVE s[j] = r[j]
        OBVIOUS
      <3>2. j \in 1 .. m + 1 /\ j - 1 \in 0 .. CLIENT_QUEUE_SIZE - 1 /\ j - 1 # m
        BY <1>2, SizesAssumption
      <3>3. s[j] = client_queue'[c][SlotAfter(h, j - 1)]
        BY <2>3, <3>2
      <3>4. r[j] = client_queue[c][SlotAfter(h, j - 1)]
        BY DEF Prefix
      <3>. QED
        BY <1>7, <3>2, <3>3, <3>4
    <2>7. RemainingUpTo(loop.before, loop.i, loop.id, r)
      BY <1>1 DEF SurvivorsInOrder
    <2>8. loop.before[loop.i + 1].id # loop.id /\ loop.i \in Nat
      BY <1>1, <1>2, <1>5
    <2>9. RemainingUpTo(loop.before, loop.i + 1, loop.id, s)
      <3>. HIDE DEF r, s
      <3>. QED
        BY <1>2, <2>1, <2>4, <2>5, <2>6, <2>7, <2>8, RemainingKeep, SMTT(30)
    <2>. QED
      BY <1>3, <2>9 DEF SurvivorsInOrder
  <1>. QED
    BY <1>8, <1>9

\* Every step keeps the loop's invariant.
LEMMA NextCompaction ==
    TypeInv /\ UnreadIntact /\ SurvivorsInOrder /\ [Next]_vars
        => UnreadIntact' /\ SurvivorsInOrder'
  <1>. SUFFICES ASSUME TypeInv, UnreadIntact, SurvivorsInOrder, [Next]_vars
                PROVE  UnreadIntact' /\ SurvivorsInOrder'
    OBVIOUS
  <1>1. ASSUME NEW c \in ClientNums, NEW id \in Ids, NEW event \in EventTypes,
               enqueue_event_and_notify(c, id, event)
        PROVE  UnreadIntact' /\ SurvivorsInOrder'
    BY <1>1 DEF enqueue_event_and_notify, UnreadIntact, SurvivorsInOrder
  <1>2. ASSUME NEW c \in Clients, get_event(c)
        PROVE  UnreadIntact' /\ SurvivorsInOrder'
    BY <1>2 DEF get_event, UnreadIntact, SurvivorsInOrder
  <1>3. CASE FreeReturn
    BY <1>3 DEF FreeReturn, UnreadIntact, SurvivorsInOrder
  <1>4. CASE UNCHANGED vars
    BY <1>4 DEF vars, UnreadIntact, SurvivorsInOrder, Prefix, SlotAfter
  <1>. QED
    BY <1>1, <1>2, <1>3, <1>4, FreeEntryCompaction, RemoveMatchCompaction,
       KeepOtherCompaction DEF Next

\* The compaction loop works in place for every queue size, however the ring
\* wraps: the survivors stay in order and no unread event is overwritten.
THEOREM CompactionCorrect == Spec => []CompactionInPlace
  <1>1. Init => UnreadIntact /\ SurvivorsInOrder
    BY DEF Init, UnreadIntact, SurvivorsInOrder
  <1>2. TypeInv /\ UnreadIntact /\ SurvivorsInOrder => CompactionInPlace
    BY DEF TypeInv, CompactionInPlace
  <1>. QED
    BY <1>1, <1>2, InitType, NextType, NextCompaction, PTL DEF Spec

-----------------------------------------------------------------------------
(* client_queue.c implements the bounded FIFO queues of EventQueue: under  *)
(* the refinement mapping AbstractQueue an enqueue appends, get_event      *)
(* takes the head, the loop's iterations stutter, and the loop's return is *)
(* the abstract Free, by the loop invariant proved above.                  *)

\* The operators both specifications take from EventQueueOps mean the same.
LEMMA SameOperators ==
    /\ Abstract!Clients = Clients /\ Abstract!ClientNums = ClientNums
    /\ \A n : Abstract!Code(n) = Code(n)
    /\ \A e : Abstract!Handed(e) = Handed(e)
    /\ Abstract!EmptyEvent = EmptyEvent
    /\ Abstract!XTCP_SUCCESS = XTCP_SUCCESS
    /\ Abstract!XTCP_EINVAL = XTCP_EINVAL
    /\ Abstract!XTCP_ENOMEM = XTCP_ENOMEM
  BY DEF Abstract!Clients, Clients, Abstract!ClientNums, ClientNums, Abstract!Code,
     Code, Abstract!Handed, Handed, Abstract!EmptyEvent, EmptyEvent,
     Abstract!XTCP_EVENT_NONE, XTCP_EVENT_NONE, Abstract!XTCP_SUCCESS, XTCP_SUCCESS,
     Abstract!XTCP_EINVAL, XTCP_EINVAL, Abstract!XTCP_ENOMEM, XTCP_ENOMEM

\* The zeroed rings are empty queues.
LEMMA InitRefines == Init => Abstract!Init
  <1>. SUFFICES ASSUME Init PROVE Abstract!Init
    OBVIOUS
  <1>1. \A c \in Clients : Contents(c) = <<>>
    BY DEF Init, Contents, Prefix
  <1>2. AbstractQueue = [c \in Clients |-> <<>>]
    BY <1>1 DEF Init, AbstractQueue
  <1>. QED
    BY <1>2, SameOperators DEF Init, Abstract!Init

\* One slot on from one slot on.
LEMMA SlotAfterStep ==
    ASSUME NEW h \in Slots, NEW k \in 0 .. CLIENT_QUEUE_SIZE - 1
    PROVE  SlotAfter(SlotAfter(h, 1), k) = SlotAfter(h, k + 1)
  <1>1. 1 \in 0 .. CLIENT_QUEUE_SIZE /\ k + 1 \in 0 .. CLIENT_QUEUE_SIZE
        /\ k \in 0 .. CLIENT_QUEUE_SIZE
    BY SizesAssumption
  <1>2. SlotAfter(h, 1) \in Slots
    BY SlotAfterType
  <1>. QED
    BY <1>1, <1>2, SlotAfterWraps, SizesAssumption, SMTT(30) DEF Slots

\* Entering the loop changes nothing yet.
LEMMA FreeEntryRefines ==
    ASSUME TypeInv, NEW c \in Clients, NEW id \in Ids,
           free_notifications_on_queue(c, id)
    PROVE  UNCHANGED Abstract!vars
  <1>1. /\ pc = "idle" /\ pc' = "scan"
        /\ loop'.client_num = c /\ loop'.before = Contents(c)
        /\ UNCHANGED <<client_queue, client_heads, client_num_events, notified,
                       reply>>
    BY DEF free_notifications_on_queue
  <1>2. \A d \in Clients : Contents(d)' = Contents(d)
    BY <1>1 DEF Contents, Prefix, SlotAfter
  <1>3. AbstractQueue' = AbstractQueue
    BY <1>1, <1>2 DEF AbstractQueue
  <1>. QED
    BY <1>1, <1>3 DEF Abstract!vars

\* While the loop works on one client's ring the abstract queues stand still.
LEMMA LoopStutters ==
    ASSUME TypeInv, RemoveMatch \/ KeepOther
    PROVE  UNCHANGED Abstract!vars
  <1>1. /\ pc = "scan" /\ loop'.client_num = loop.client_num
        /\ loop'.before = loop.before
        /\ UNCHANGED <<client_heads, notified, reply, pc>>
    BY DEF RemoveMatch, KeepOther, TypeInv, TypeOK, LoopLocals
  <1>2. ASSUME NEW d \in Clients, d # loop.client_num
        PROVE  Contents(d)' = Contents(d)
    <2>1. client_queue'[d] = client_queue[d]
          /\ client_num_events'[d] = client_num_events[d]
      BY <1>2 DEF RemoveMatch, KeepOther, TypeInv, TypeOK
    <2>. QED
      BY <1>1, <2>1 DEF Contents, Prefix, SlotAfter
  <1>3. AbstractQueue' = AbstractQueue
    BY <1>1, <1>2 DEF AbstractQueue
  <1>. QED
    BY <1>1, <1>3 DEF Abstract!vars

\* A written event is the new last event of its client's queue.
LEMMA EnqueueAppends ==
    ASSUME TypeInv, NEW c \in Clients, client_num_events[c] < CLIENT_QUEUE_SIZE,
           NEW id \in Ids, NEW event \in EventTypes,
           enqueue_event_and_notify(c, id, event)
    PROVE  AbstractQueue' = [AbstractQueue EXCEPT
              ![c] = Append(AbstractQueue[c], [xtcp_event |-> event, id |-> id])]
  <1>. DEFINE e == [xtcp_event |-> event, id |-> id]
              h == client_heads[c]
              n == client_num_events[c]
  <1>1. /\ n \in 0 .. CLIENT_QUEUE_SIZE - 1 /\ n + 1 \in Nat /\ h \in Slots
        /\ SlotAfter(h, n) \in Slots
    BY SlotAfterType, SizesAssumption DEF TypeInv, TypeOK
  <1>2. /\ pc = "idle" /\ pc' = "idle" /\ client_heads' = client_heads
        /\ client_queue' = [client_queue EXCEPT ![c][SlotAfter(h, n)] = e]
        /\ client_num_events' = [client_num_events EXCEPT ![c] = n + 1]
    BY <1>1, SizesAssumption DEF enqueue_event_and_notify
  <1>3. AbstractQueue = [d \in Clients |-> Contents(d)]
        /\ AbstractQueue' = [d \in Clients |-> Contents(d)']
    BY <1>2 DEF AbstractQueue
  <1>4. ASSUME NEW d \in Clients, d # c
        PROVE  Contents(d)' = Contents(d)
    <2>1. client_queue'[d] = client_queue[d]
          /\ client_num_events'[d] = client_num_events[d]
      BY <1>2, <1>4 DEF TypeInv, TypeOK
    <2>. QED
      BY <1>2, <2>1 DEF Contents, Prefix, SlotAfter
  <1>5. Contents(c)' = Append(Contents(c), e)
    <2>1. client_num_events'[c] = n + 1
      BY <1>2 DEF TypeInv, TypeOK
    <2>2. Contents(c)' = [k \in 1 .. n + 1 |-> client_queue'[c][SlotAfter(h, k - 1)]]
      BY <1>2, <2>1 DEF Contents, Prefix, SlotAfter
    <2>3. Contents(c) = [k \in 1 .. n |-> client_queue[c][SlotAfter(h, k - 1)]]
      BY DEF Contents, Prefix
    <2>4. Contents(c) \in Seq(SlotValue) /\ Len(Contents(c)) = n
      BY <1>1, PrefixIsSeq DEF Contents, TypeInv
    <2>5. \A k \in 1 .. n : client_queue'[c][SlotAfter(h, k - 1)]
                              = client_queue[c][SlotAfter(h, k - 1)]
      <3>1. SUFFICES ASSUME NEW k \in 1 .. n
                     PROVE  client_queue'[c][SlotAfter(h, k - 1)]
                              = client_queue[c][SlotAfter(h, k - 1)]
        OBVIOUS
      <3>2. k - 1 \in 0 .. CLIENT_QUEUE_SIZE - 1 /\ k - 1 # n /\ k - 1 \in Nat
        BY <1>1, SizesAssumption
      <3>3. SlotAfter(h, k - 1) # SlotAfter(h, n) /\ SlotAfter(h, k - 1) \in Slots
        BY <1>1, <3>2, SlotAfterInjective, SlotAfterType
      <3>. QED
        BY <1>1, <1>2, <3>3 DEF TypeInv, TypeOK
    <2>6. client_queue'[c][SlotAfter(h, n)] = e
      BY <1>1, <1>2 DEF TypeInv, TypeOK
    <2>7. Append(Contents(c), e) =
            [k \in 1 .. n + 1 |-> IF k = n + 1 THEN e ELSE Contents(c)[k]]
      BY <1>1, <2>4
    <2>8. \A k \in 1 .. n + 1 : client_queue'[c][SlotAfter(h, k - 1)]
                                  = IF k = n + 1 THEN e ELSE Contents(c)[k]
      BY <1>1, <2>3, <2>5, <2>6
    <2>. QED
      BY <2>2, <2>7, <2>8
  <1>. QED
    BY <1>3, <1>4, <1>5

\* The length of an abstract queue is the ring's count.
LEMMA AbstractLength ==
    ASSUME TypeInv, pc = "idle", NEW c \in Clients
    PROVE  /\ AbstractQueue[c] = Contents(c)
           /\ Contents(c) \in Seq(SlotValue)
           /\ Len(Contents(c)) = client_num_events[c]
  BY PrefixIsSeq DEF AbstractQueue, Contents, TypeInv, TypeOK

\* enqueue_event_and_notify is Enqueue, with each of its three outcomes.
LEMMA EnqueueRefines ==
    ASSUME TypeInv, NEW c \in ClientNums, NEW id \in Ids, NEW event \in EventTypes,
           enqueue_event_and_notify(c, id, event)
    PROVE  Abstract!Next
  <1>1. SUFFICES Abstract!Enqueue(c, id, event)
    BY SameOperators DEF Abstract!Next
  <1>2. pc = "idle" /\ pc' = pc /\ client_heads' = client_heads
    BY DEF enqueue_event_and_notify
  <1>3. CASE c \in Clients /\ client_num_events[c] < CLIENT_QUEUE_SIZE
    <2>1. Abstract!HasRoom(AbstractQueue[c])
      BY <1>2, <1>3, AbstractLength DEF Abstract!HasRoom
    <2>2. notified' = [notified EXCEPT ![c] = TRUE] /\ reply' = Code(XTCP_SUCCESS)
      BY <1>3, SizesAssumption
      DEF enqueue_event_and_notify, client_intf_notify, TypeInv, TypeOK
    <2>3. AbstractQueue' = [AbstractQueue EXCEPT
             ![c] = Append(AbstractQueue[c], [xtcp_event |-> event, id |-> id])]
      BY <1>3, EnqueueAppends
    <2>. QED
      BY <1>3, <2>1, <2>2, <2>3, SameOperators DEF Abstract!Enqueue
  <1>4. CASE ~(c \in Clients /\ client_num_events[c] < CLIENT_QUEUE_SIZE)
    <2>1. UNCHANGED <<client_queue, client_num_events, notified, loop>>
      BY <1>4 DEF enqueue_event_and_notify
    <2>2. \A d \in Clients : Contents(d)' = Contents(d)
      BY <1>2, <2>1 DEF Contents, Prefix, SlotAfter
    <2>3. AbstractQueue' = AbstractQueue
      BY <1>2, <2>1, <2>2 DEF AbstractQueue
    <2>4. CASE c \in Clients
      <3>1. ~Abstract!HasRoom(AbstractQueue[c])
        BY <1>2, <1>4, <2>4, AbstractLength DEF Abstract!HasRoom
      <3>2. reply' = Code(XTCP_ENOMEM)
        BY <1>4, <2>4 DEF enqueue_event_and_notify
      <3>. QED
        BY <2>1, <2>3, <2>4, <3>1, <3>2, SameOperators DEF Abstract!Enqueue
    <2>5. CASE c \notin Clients
      <3>1. reply' = Code(XTCP_EINVAL)
        BY <2>5 DEF enqueue_event_and_notify
      <3>. QED
        BY <2>1, <2>3, <2>5, <3>1, SameOperators DEF Abstract!Enqueue
    <2>. QED
      BY <2>4, <2>5
  <1>. QED
    BY <1>3, <1>4

\* A handed over event was the first of its client's queue.
LEMMA GetEventRefines ==
    ASSUME TypeInv, NEW c \in Clients, get_event(c)
    PROVE  Abstract!Next
  <1>. DEFINE h == client_heads[c]
              n == client_num_events[c]
  <1>1. SUFFICES Abstract!GetEvent(c)
    BY SameOperators DEF Abstract!Next
  <1>2. /\ pc = "idle" /\ pc' = "idle" /\ client_queue' = client_queue
        /\ notified' = [notified EXCEPT ![c] = client_num_events'[c] > 0]
    BY DEF get_event, renotify
  <1>3. n \in 0 .. CLIENT_QUEUE_SIZE /\ h \in Slots
    BY DEF TypeInv, TypeOK
  <1>4. AbstractQueue = [d \in Clients |-> Contents(d)]
        /\ AbstractQueue' = [d \in Clients |-> Contents(d)']
    BY <1>2 DEF AbstractQueue
  <1>5. Contents(c) \in Seq(SlotValue) /\ Len(Contents(c)) = n
    BY <1>2, AbstractLength
  <1>6. CASE n > 0
    <2>1. /\ client_num_events' = [client_num_events EXCEPT ![c] = n - 1]
          /\ client_heads' = [client_heads EXCEPT ![c] = SlotAfter(h, 1)]
          /\ reply' = Handed(client_queue[c][h])
      BY <1>6 DEF get_event, dequeue_event
    <2>2. client_num_events'[c] = n - 1 /\ client_heads'[c] = SlotAfter(h, 1)
      BY <2>1 DEF TypeInv, TypeOK
    <2>3. Contents(c)' =
             [k \in 1 .. n - 1 |-> client_queue[c][SlotAfter(SlotAfter(h, 1), k - 1)]]
      BY <1>2, <2>2 DEF Contents, Prefix, SlotAfter
    <2>4. \A k \in 1 .. n : Contents(c)[k] = client_queue[c][SlotAfter(h, k - 1)]
      BY DEF Contents, Prefix
    <2>5. \A k \in 1 .. n - 1 :
             client_queue[c][SlotAfter(SlotAfter(h, 1), k - 1)] = Contents(c)[k + 1]
      <3>1. SUFFICES ASSUME NEW k \in 1 .. n - 1
                     PROVE  client_queue[c][SlotAfter(SlotAfter(h, 1), k - 1)]
                              = Contents(c)[k + 1]
        OBVIOUS
      <3>2. /\ k - 1 \in 0 .. CLIENT_QUEUE_SIZE - 1 /\ k - 1 + 1 = k
            /\ k + 1 \in 1 .. n /\ k + 1 - 1 = k
        BY <1>3, SizesAssumption
      <3>3. SlotAfter(SlotAfter(h, 1), k - 1) = SlotAfter(h, k)
        BY <1>3, <3>2, SlotAfterStep
      <3>. QED
        BY <2>4, <3>2, <3>3
    <2>6. /\ Tail(Contents(c)) \in Seq(SlotValue) /\ Len(Tail(Contents(c))) = n - 1
          /\ \A k \in 1 .. n - 1 : Tail(Contents(c))[k] = Contents(c)[k + 1]
      BY <1>3, <1>5, <1>6, HeadTailProperties, EmptySeq
    <2>7. Contents(c)' = Tail(Contents(c))
      <3>1. Tail(Contents(c)) = [k \in 1 .. n - 1 |-> Tail(Contents(c))[k]]
        BY <1>3, <2>6, LenProperties
      <3>. QED
        BY <2>3, <2>5, <2>6, <3>1
    <2>8. Head(Contents(c)) = client_queue[c][h]
      <3>1. SlotAfter(h, 0) = h
        BY <1>3, SlotAfterWraps, SizesAssumption DEF Slots
      <3>2. 1 \in 1 .. n /\ 1 - 1 = 0
        BY <1>3, <1>6
      <3>. QED
        BY <1>5, <1>6, <2>4, <3>1, <3>2
    <2>9. ASSUME NEW d \in Clients, d # c
          PROVE  Contents(d)' = Contents(d)
      <3>1. client_heads'[d] = client_heads[d]
            /\ client_num_events'[d] = client_num_events[d]
        BY <2>1, <2>9 DEF TypeInv, TypeOK
      <3>. QED
        BY <1>2, <3>1 DEF Contents, Prefix, SlotAfter
    <2>10. AbstractQueue' = [AbstractQueue EXCEPT ![c] = Tail(AbstractQueue[c])]
      BY <1>4, <2>7, <2>9
    <2>11. AbstractQueue[c] # <<>> /\ reply' = Handed(Head(AbstractQueue[c]))
      BY <1>4, <1>5, <1>6, <2>1, <2>8
    <2>12. client_num_events'[c] > 0 <=> AbstractQueue'[c] # <<>>
      BY <1>3, <1>4, <2>2, <2>6, <2>7
    <2>13. notified' = [notified EXCEPT ![c] = AbstractQueue'[c] # <<>>]
      <3>1. (client_num_events'[c] > 0) = (AbstractQueue'[c] # <<>>)
        BY <2>12
      <3>. QED
        BY <1>2, <3>1, Zenon
    <2>. QED
      BY <2>10, <2>11, <2>13, SameOperators DEF Abstract!GetEvent
  <1>7. CASE ~(n > 0)
    <2>1. /\ UNCHANGED <<client_num_events, client_heads>>
          /\ reply' = Handed(EmptyEvent)
      BY <1>7 DEF get_event, dequeue_event
    <2>2. \A d \in Clients : Contents(d)' = Contents(d)
      BY <1>2, <2>1 DEF Contents, Prefix, SlotAfter
    <2>3. AbstractQueue' = AbstractQueue /\ AbstractQueue[c] = <<>>
      BY <1>3, <1>4, <1>5, <1>7, <2>2
    <2>4. ~(client_num_events'[c] > 0)
      BY <1>7, <2>1
    <2>5. client_num_events'[c] > 0 <=> AbstractQueue'[c] # <<>>
      BY <2>3, <2>4
    <2>6. notified' = [notified EXCEPT ![c] = AbstractQueue'[c] # <<>>]
      <3>1. (client_num_events'[c] > 0) = (AbstractQueue'[c] # <<>>)
        BY <2>5
      <3>. QED
        BY <1>2, <3>1, Zenon
    <2>. QED
      BY <2>1, <2>3, <2>6, SameOperators DEF Abstract!GetEvent
  <1>. QED
    BY <1>6, <1>7

\* The id the loop looks for is one it was called with.
LoopId == pc = "scan" => loop.id \in Ids

\* The loop never changes it.
LEMMA NextLoopId == TypeInv /\ LoopId /\ [Next]_vars => LoopId'
  <1>. SUFFICES ASSUME TypeInv, LoopId, [Next]_vars PROVE LoopId'
    OBVIOUS
  <1>1. ASSUME NEW c \in Clients, NEW id \in Ids,
               free_notifications_on_queue(c, id)
        PROVE  LoopId'
    BY <1>1 DEF free_notifications_on_queue, LoopId
  <1>2. CASE RemoveMatch \/ KeepOther
    <2>1. loop'.id = loop.id /\ pc' = pc
      BY <1>2 DEF RemoveMatch, KeepOther, TypeInv, TypeOK, LoopLocals
    <2>. QED
      BY <2>1 DEF LoopId
  <1>. QED
    BY <1>1, <1>2
       DEF Next, vars, LoopId, enqueue_event_and_notify, get_event, FreeReturn

\* When the loop ends, free has happened.
LEMMA FreeReturnRefines ==
    ASSUME TypeInv, SurvivorsInOrder, LoopId, FreeReturn
    PROVE  Abstract!Next
  <1>. DEFINE c == loop.client_num
              r == Contents(c)
  <1>1. /\ pc = "scan" /\ loop.i >= loop.count /\ pc' = "idle"
        /\ reply' = Code(loop.result)
        /\ UNCHANGED <<client_queue, client_heads, client_num_events, notified>>
    BY DEF FreeReturn
  <1>2. /\ c \in Clients /\ loop.i = loop.count /\ loop.result \in Nat
        /\ loop.count = Len(loop.before) /\ loop.count \in Int
        /\ client_num_events[c] = loop.count - loop.result
        /\ client_num_events[c] \in Nat
    <2>1. /\ c \in Clients /\ loop.i \in Int /\ loop.count \in Int
          /\ loop.i <= loop.count /\ loop.result \in Nat
          /\ loop.count = Len(loop.before)
          /\ client_num_events[c] = loop.count - loop.result
      BY <1>1, LoopFacts
    <2>2. client_num_events[c] \in Nat
      BY <2>1 DEF TypeInv, TypeOK
    <2>. QED
      BY <1>1, <2>1, <2>2
  <1>3. r = Prefix(c, loop.i - loop.result) /\ Len(r) = client_num_events[c]
    BY <1>2, PrefixIsSeq DEF Contents, TypeInv
  <1>4. RemainingUpTo(loop.before, Len(loop.before), loop.id, r)
    BY <1>1, <1>2, <1>3 DEF SurvivorsInOrder
  <1>5. Abstract!IsRemaining(loop.before, loop.id, r)
    BY <1>4 DEF Abstract!IsRemaining, Abstract!RemainingUpTo, RemainingUpTo
  <1>6. \A d \in Clients : Contents(d)' = Contents(d)
    BY <1>1 DEF Contents, Prefix, SlotAfter
  <1>7. AbstractQueue[c] = loop.before
        /\ AbstractQueue' = [AbstractQueue EXCEPT ![c] = r]
    BY <1>1, <1>2, <1>6 DEF AbstractQueue
  <1>8. AbstractQueue'[c] = r
    BY <1>2, <1>7 DEF AbstractQueue
  <1>9. Len(AbstractQueue[c]) - Len(r) = loop.result
    <2>1. Len(AbstractQueue[c]) = loop.count
      BY <1>2, <1>7
    <2>2. Len(r) = loop.count - loop.result
      BY <1>2, <1>3
    <2>. QED
      BY <1>2, <2>1, <2>2
  <1>10. Abstract!Free(c, loop.id)
    BY <1>1, <1>5, <1>7, <1>8, <1>9, SameOperators DEF Abstract!Free
  <1>11. loop.id \in Ids
    BY <1>1 DEF LoopId
  <1>. QED
    BY <1>2, <1>10, <1>11, SameOperators DEF Abstract!Next

\* Every step of client_queue.c is a step of the abstract queues or none.
LEMMA NextRefines ==
    TypeInv /\ SurvivorsInOrder /\ LoopId /\ [Next]_vars
        => [Abstract!Next]_(Abstract!vars)
  <1>. SUFFICES ASSUME TypeInv, SurvivorsInOrder, LoopId, [Next]_vars
                PROVE  [Abstract!Next]_(Abstract!vars)
    OBVIOUS
  <1>1. CASE UNCHANGED vars
    <2>1. \A d \in Clients : Contents(d)' = Contents(d)
      BY <1>1 DEF vars, Contents, Prefix, SlotAfter
    <2>. QED
      BY <1>1, <2>1 DEF vars, Abstract!vars, AbstractQueue
  <1>2. ASSUME NEW c \in Clients, NEW id \in Ids,
               free_notifications_on_queue(c, id)
        PROVE  UNCHANGED Abstract!vars
    BY <1>2, FreeEntryRefines
  <1>. QED
    BY <1>1, <1>2, EnqueueRefines, GetEventRefines, LoopStutters,
       FreeReturnRefines DEF Next

\* client_queue.c implements bounded FIFO queues for every number of clients and
\* every ring size: enqueue_event_and_notify appends or refuses, dequeue_event
\* takes the oldest event, free_notifications_on_queue removes exactly the events
\* of one connection and returns how many.
THEOREM QueueImplements == Spec => ImplementsEventQueue
  <1>1. Init => UnreadIntact /\ SurvivorsInOrder /\ LoopId
    BY DEF Init, UnreadIntact, SurvivorsInOrder, LoopId
  <1>. QED
    BY <1>1, InitType, InitRefines, NextType, NextCompaction, NextLoopId,
       NextRefines, PTL DEF Spec, ImplementsEventQueue, Abstract!Spec

=============================================================================
