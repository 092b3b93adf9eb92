---------------------------- MODULE ClientQueue ----------------------------
(***************************************************************************)
(* client_queue.c: one ring buffer of events per client, with the XC       *)
(* interface notification event_ready that client_intf_notify raises and   *)
(* get_event clears.                                                       *)
(*                                                                         *)
(* The server task is a single select loop, so operations do not           *)
(* interleave.  enqueue_event_and_notify and get_event are one action      *)
(* each; the compaction loop of free_notifications_on_queue is one action  *)
(* per iteration, and everything else waits for it (pc = "scan").          *)
(***************************************************************************)
EXTENDS EventQueueOps

VARIABLES
    client_queue,       \* client_queue[c][k]: slot k of client c's ring
    client_heads,       \* client_heads[c]: slot of the oldest event
    client_num_events,  \* client_num_events[c]: events in the ring
    notified,           \* event_ready is raised for client c
    reply,              \* what the last operation returned
    pc,                 \* "idle", or "scan" inside the compaction loop
    loop                \* that loop's local variables

vars == <<client_queue, client_heads, client_num_events, notified, reply,
          pc, loop>>

Slots == 0 .. CLIENT_QUEUE_SIZE - 1

\* A slot as memset leaves it.
ZeroEvent == [xtcp_event |-> XTCP_EVENT_NONE, id |-> 0]

\* The k-th slot of a ring after slot h, wrapping at the end of the array.
SlotAfter(h, k) == (h + k) % CLIENT_QUEUE_SIZE

\* The first n slots of client c's ring, from its head.
Prefix(c, n) ==
    [k \in 1 .. n |-> client_queue[c][SlotAfter(client_heads[c], k - 1)]]

\* The events of client c, oldest first.
Contents(c) == Prefix(c, client_num_events[c])

\* Outside the loop its locals do not exist; they are kept at one value.
\* before is a history variable, the contents when the function was entered:
\* the refinement and the loop invariant speak of it, the code does not.
NoLoop == [client_num |-> 0, id |-> 0, i |-> 0, count |-> 0, read_index |-> 0,
           write_index |-> 0, result |-> 0, before |-> <<>>]

-----------------------------------------------------------------------------
\* xtcp_init_queue, after client_init_notification: the queues are zeroed and
\* no notification is up.
Init ==
    /\ client_queue = [c \in Clients |-> [k \in Slots |-> ZeroEvent]]
    /\ client_heads = [c \in Clients |-> 0]
    /\ client_num_events = [c \in Clients |-> 0]
    /\ notified = [c \in Clients |-> FALSE]
    /\ reply = Code(XTCP_SUCCESS)
    /\ pc = "idle"
    /\ loop = NoLoop

\* client_intf_notify: raising a raised notification changes nothing.
client_intf_notify(c) == notified' = [notified EXCEPT ![c] = TRUE]

enqueue_event_and_notify(client_num, id, xtcp_event) ==
    /\ pc = "idle"
    /\ \/ /\ client_num \in Clients
          /\ client_num_events[client_num] < CLIENT_QUEUE_SIZE
          /\ LET position == SlotAfter(client_heads[client_num],
                                       client_num_events[client_num])
             IN  client_queue' = [client_queue EXCEPT ![client_num][position] =
                                    [xtcp_event |-> xtcp_event, id |-> id]]
          /\ client_num_events' =
                [client_num_events EXCEPT ![client_num] = @ + 1]
          /\ client_intf_notify(client_num)
          /\ reply' = Code(XTCP_SUCCESS)
       \/ /\ client_num \in Clients
          /\ client_num_events[client_num] >= CLIENT_QUEUE_SIZE
          /\ reply' = Code(XTCP_ENOMEM)
          /\ UNCHANGED <<client_queue, client_num_events, notified>>
       \/ /\ client_num \notin Clients
          /\ reply' = Code(XTCP_EINVAL)
          /\ UNCHANGED <<client_queue, client_num_events, notified>>
    /\ UNCHANGED <<client_heads, pc, loop>>

\* Mutant: the slot is read after the head has moved.
dequeue_event_ReadsNext(client_num) ==
    IF client_num_events[client_num] > 0
    THEN /\ client_num_events' = [client_num_events EXCEPT ![client_num] = @ - 1]
         /\ client_heads' = [client_heads EXCEPT
                               ![client_num] = SlotAfter(@, 1)]
         /\ reply' = Handed(client_queue[client_num][client_heads'[client_num]])
    ELSE /\ reply' = Handed(EmptyEvent)
         /\ UNCHANGED <<client_num_events, client_heads>>

\* The dequeue_event part of get_event.
dequeue_event(client_num) ==
    IF client_num_events[client_num] > 0
    THEN LET position == client_heads[client_num]
         IN  /\ client_num_events' =
                   [client_num_events EXCEPT ![client_num] = @ - 1]
             /\ client_heads' = [client_heads EXCEPT
                                   ![client_num] = SlotAfter(@, 1)]
             /\ reply' = Handed(client_queue[client_num][position])
    ELSE /\ reply' = Handed(EmptyEvent)
         /\ UNCHANGED <<client_num_events, client_heads>>

\* Mutant: get_event only clears the notification.
renotify_Never(client_num) == notified' = [notified EXCEPT ![client_num] = FALSE]

\* The notification after get_event's renotify: the call itself has cleared
\* it (the interface's clears_notification), renotify raises it again if
\* events are left.
renotify(client_num) ==
    notified' = [notified EXCEPT
                   ![client_num] = client_num_events'[client_num] > 0]

\* The get_event case of the server's select: a client may call at any time,
\* notified or not.
get_event(client_num) ==
    /\ pc = "idle"
    /\ dequeue_event(client_num)
    /\ renotify(client_num)
    /\ UNCHANGED <<client_queue, pc, loop>>

-----------------------------------------------------------------------------
(* free_notifications_on_queue.                                            *)

\* Entry: the locals are set up.  The only caller, shim_close_socket, passes the
\* number of the client that has called; what the function returns for a number
\* that is no client's (0, where client_queue.h says XTCP_EINVAL) is not modelled.
free_notifications_on_queue(client_num, id) ==
    /\ pc = "idle"
    /\ client_num \in Clients
    /\ pc' = "scan"
    /\ loop' = [client_num |-> client_num, id |-> id, i |-> 0,
                count |-> client_num_events[client_num],
                read_index |-> client_heads[client_num],
                write_index |-> client_heads[client_num],
                result |-> 0, before |-> Contents(client_num)]
    /\ UNCHANGED <<client_queue, client_heads, client_num_events, notified, reply>>

\* Mutant: the index does not wrap.
Advance_NoWrap(index) == index + 1

\* write_index or read_index moves on, wrapping at the end of the array.
Advance(index) == IF index + 1 >= CLIENT_QUEUE_SIZE THEN 0 ELSE index + 1

\* An iteration that finds an event of the connection: it is dropped.
RemoveMatch ==
    LET c == loop.client_num
    IN  /\ pc = "scan"
        /\ loop.i < loop.count
        /\ client_queue[c][loop.read_index].id = loop.id
        /\ client_num_events' = [client_num_events EXCEPT ![c] = @ - 1]
        /\ loop' = [loop EXCEPT !.i = @ + 1, !.result = @ + 1,
                                !.read_index = Advance(@)]
        /\ UNCHANGED <<client_queue, client_heads, notified, reply, pc>>

\* Mutant: the survivor is not moved down.
KeepOther_NoMove ==
    /\ pc = "scan"
    /\ loop.i < loop.count
    /\ client_queue[loop.client_num][loop.read_index].id # loop.id
    /\ loop' = [loop EXCEPT !.i = @ + 1, !.write_index = Advance(@),
                            !.read_index = Advance(@)]
    /\ UNCHANGED <<client_queue, client_heads, client_num_events, notified,
                   reply, pc>>

\* An iteration that finds any other event: it moves to the write index.
KeepOther ==
    LET c == loop.client_num
    IN  /\ pc = "scan"
        /\ loop.i < loop.count
        /\ client_queue[c][loop.read_index].id # loop.id
        /\ client_queue' = [client_queue EXCEPT
              ![c][loop.write_index] = client_queue[c][loop.read_index]]
        /\ loop' = [loop EXCEPT !.i = @ + 1, !.write_index = Advance(@),
                                !.read_index = Advance(@)]
        /\ UNCHANGED <<client_heads, client_num_events, notified, reply, pc>>

\* The loop is over: the number of removed events is returned.
FreeReturn ==
    /\ pc = "scan"
    /\ loop.i >= loop.count
    /\ reply' = Code(loop.result)
    /\ pc' = "idle"
    /\ loop' = NoLoop
    /\ UNCHANGED <<client_queue, client_heads, client_num_events, notified>>

Next ==
    \/ \E c \in ClientNums, id \in Ids, event \in EventTypes :
          enqueue_event_and_notify(c, id, event)
    \/ \E c \in Clients : get_event(c)
    \/ \E c \in Clients, id \in Ids : free_notifications_on_queue(c, id)
    \/ RemoveMatch
    \/ KeepOther
    \/ FreeReturn

Spec == Init /\ [][Next]_vars

\* A client's task selects on event_ready and answers it with get_event, and
\* the server's select does not pass over a waiting call for ever: strong
\* fairness, since the loop's steps disable get_event in between.  The loop
\* itself runs on.  Nothing is assumed of enqueue and free.
Fairness ==
    /\ \A c \in Clients : SF_vars(notified[c] /\ get_event(c))
    /\ WF_vars(RemoveMatch \/ KeepOther \/ FreeReturn)

FairSpec == Spec /\ Fairness

-----------------------------------------------------------------------------
\* What a slot of the ring holds.
SlotValue == Event \cup {ZeroEvent}

LoopLocals ==
    [client_num : Clients, id : Ids \cup {0}, i : 0 .. CLIENT_QUEUE_SIZE,
     count : 0 .. CLIENT_QUEUE_SIZE, read_index : Slots, write_index : Slots,
     result : 0 .. CLIENT_QUEUE_SIZE, before : Seq(SlotValue)]

\* The arrays of client_queue.c keep their index ranges: heads stay in the
\* ring, counts between 0 and the capacity, also inside the compaction loop.
TypeOK ==
    /\ client_queue \in [Clients -> [Slots -> SlotValue]]
    /\ client_heads \in [Clients -> Slots]
    /\ client_num_events \in [Clients -> 0 .. CLIENT_QUEUE_SIZE]
    /\ notified \in [Clients -> BOOLEAN]
    /\ reply \in [event : SlotValue \cup {EmptyEvent}, code : Int]
    /\ pc \in {"idle", "scan"}
    /\ loop \in LoopLocals

\* No wake-up is lost: a client with an event in its ring has event_ready
\* raised, although get_event clears the notification while more events may
\* be waiting and enqueue only raises it for the event it adds.
NoLostWakeup ==
    \A c \in Clients : client_num_events[c] > 0 => notified[c]

\* The loop's counters and indices: after i iterations, result of them matches,
\* read_index is i slots from the head and write_index i - result.
LoopCounts ==
    pc = "scan" =>
        LET c == loop.client_num
            h == client_heads[c]
        IN  /\ loop.count = Len(loop.before)
            /\ loop.i <= loop.count
            /\ loop.result <= loop.i
            /\ client_num_events[c] = loop.count - loop.result
            /\ loop.read_index = SlotAfter(h, loop.i)
            /\ loop.write_index = SlotAfter(h, loop.i - loop.result)

\* No event still to be read has been overwritten.
UnreadIntact ==
    pc = "scan" =>
        \A k \in loop.i + 1 .. loop.count :
            client_queue[loop.client_num]
              [SlotAfter(client_heads[loop.client_num], k - 1)] = loop.before[k]

\* The ring starts with exactly the survivors of the first i events, in order.
SurvivorsInOrder ==
    pc = "scan" =>
        RemainingUpTo(loop.before, loop.i, loop.id,
                      Prefix(loop.client_num, loop.i - loop.result))

\* The compaction loop of free_notifications_on_queue works in place, also
\* where the ring wraps: what is already written is right and what is still to
\* be read is untouched.
CompactionInPlace == LoopCounts /\ UnreadIntact /\ SurvivorsInOrder

\* The queues the rings stand for.  While the loop runs, the operation has not
\* taken effect: its client's queue is the one it was called on.
AbstractQueue ==
    [c \in Clients |-> IF pc = "scan" /\ loop.client_num = c
                       THEN loop.before ELSE Contents(c)]

Abstract == INSTANCE EventQueue WITH queue <- AbstractQueue

\* client_queue.c implements bounded FIFO queues: events come out of get_event
\* in the order they went in, a full ring drops only the new event, freeing a
\* connection removes all of its events and no other, and every call the server
\* makes returns what client_queue.h documents.
ImplementsEventQueue == Abstract!Spec

\* A client whose ring stays non-empty goes on receiving events, whatever is
\* added to the ring and freed from it meanwhile: get_event hands it one again
\* and again, although each call clears event_ready.
EventsKeepComing ==
    \A c \in Clients :
        <>[](client_num_events[c] > 0) => []<><<get_event(c)>>_vars

=============================================================================
