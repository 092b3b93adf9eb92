---------------------------- MODULE EventQueueOps ----------------------------
(***************************************************************************)
(* What lib_xtcp's client event queue promises, as operators on values:    *)
(* one client's queue is a sequence of at most CLIENT_QUEUE_SIZE events,   *)
(* oldest first.  EventQueue builds the abstract specification on them;    *)
(* ClientQueue shows that the ring buffers of client_queue.c implement it. *)
(***************************************************************************)
EXTENDS Integers, Sequences, FiniteSets

CONSTANTS
    MAX_XTCP_CLIENTS,   \* clients the server has queues for
    CLIENT_QUEUE_SIZE,  \* capacity of each queue
    Ids,                \* values the int32_t id of an event takes
    EventTypes          \* xtcp_event_type_t values other than XTCP_EVENT_NONE

ASSUME SizesAssumption ==
    /\ MAX_XTCP_CLIENTS \in Nat \ {0}
    /\ CLIENT_QUEUE_SIZE \in Nat \ {0}

\* xtcp_error_code_t
XTCP_SUCCESS == 0
XTCP_EINVAL  == -1
XTCP_ENOMEM  == -2

\* Index 0 of xtcp_event_type_t; the value of a zeroed queue slot too.
XTCP_EVENT_NONE == "XTCP_EVENT_NONE"

ASSUME EventsAssumption == XTCP_EVENT_NONE \notin EventTypes
ASSUME IdsAssumption == Ids \subseteq Int

Clients == 0 .. MAX_XTCP_CLIENTS - 1

\* A client_num argument: a client, or MAX_XTCP_CLIENTS for every unsigned
\* value that fails the range check (DEINIT, say).
ClientNums == 0 .. MAX_XTCP_CLIENTS

\* client_event_t.
Event == [xtcp_event : EventTypes, id : Ids]

\* What dequeue_event returns when the queue is empty.
EmptyEvent == [xtcp_event |-> XTCP_EVENT_NONE, id |-> -1]

\* What an operation returns: the event get_event hands over, or the int the
\* other operations return.
Handed(e) == [event |-> e, code |-> 0]
Code(n)   == [event |-> EmptyEvent, code |-> n]

\* enqueue_event_and_notify succeeds iff the queue has a free slot.
HasRoom(q) == Len(q) < CLIENT_QUEUE_SIZE

\* r holds, in order, exactly those of the first n events of q that do not
\* belong to connection id.
RemainingUpTo(q, n, id, r) ==
    \E f \in [1 .. Len(r) -> 1 .. n] :
        /\ \A j, k \in 1 .. Len(r) : j < k => f[j] < f[k]
        /\ \A j \in 1 .. Len(r) : r[j] = q[f[j]] /\ q[f[j]].id # id
        /\ \A p \in 1 .. n : q[p].id # id => \E j \in 1 .. Len(r) : f[j] = p

\* r is q without the events of connection id.
IsRemaining(q, id, r) == RemainingUpTo(q, Len(q), id, r)

\* Mutant: only the first of the connection's events is removed.
Remaining_First(q, id) ==
    IF \E k \in DOMAIN q : q[k].id = id
    THEN LET k == CHOOSE j \in DOMAIN q :
                    q[j].id = id /\ \A i \in 1 .. j - 1 : q[i].id # id
         IN  SubSeq(q, 1, k - 1) \o SubSeq(q, k + 1, Len(q))
    ELSE q

\* What is kept of the first n events, kept[n - 1] being what is kept of those
\* before the last.
KeepStep(kept, q, id, n) ==
    IF n = 0 THEN <<>>
    ELSE IF q[n].id = id THEN kept[n - 1]
    ELSE Append(kept[n - 1], q[n])

\* The same as a function.
Remaining(q, id) ==
    LET kept[n \in 0 .. Len(q)] == KeepStep(kept, q, id, n)
    IN  kept[Len(q)]

=============================================================================
