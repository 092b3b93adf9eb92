----------------------------- MODULE EventQueue -----------------------------
(***************************************************************************)
(* The abstract specification of the client event queues: per client a     *)
(* bounded FIFO of events and the interface's event_ready notification.    *)
(* Each operation is one step; reply is the value it returns, as           *)
(* client_queue.h documents it.                                            *)
(***************************************************************************)
EXTENDS EventQueueOps

VARIABLES
    queue,      \* queue[c]: the events waiting for client c, oldest first
    notified,   \* notified[c]: event_ready is raised for client c
    reply       \* what the last operation returned

vars == <<queue, notified, reply>>

Init ==
    /\ queue = [c \in Clients |-> <<>>]
    /\ notified = [c \in Clients |-> FALSE]
    /\ reply = Code(XTCP_SUCCESS)

\* An event is appended and the client notified; a full queue loses the event
\* and an unknown client has none.
Enqueue(c, id, event) ==
    \/ /\ c \in Clients
       /\ HasRoom(queue[c])
       /\ queue' = [queue EXCEPT
                      ![c] = Append(@, [xtcp_event |-> event, id |-> id])]
       /\ notified' = [notified EXCEPT ![c] = TRUE]
       /\ reply' = Code(XTCP_SUCCESS)
    \/ /\ c \in Clients
       /\ ~HasRoom(queue[c])
       /\ reply' = Code(XTCP_ENOMEM)
       /\ UNCHANGED <<queue, notified>>
    \/ /\ c \notin Clients
       /\ reply' = Code(XTCP_EINVAL)
       /\ UNCHANGED <<queue, notified>>

\* get_event hands over the oldest event.  The notification stays up exactly
\* while more are waiting.
GetEvent(c) ==
    /\ IF queue[c] = <<>>
       THEN reply' = Handed(EmptyEvent) /\ UNCHANGED queue
       ELSE /\ reply' = Handed(Head(queue[c]))
            /\ queue' = [queue EXCEPT ![c] = Tail(@)]
    /\ notified' = [notified EXCEPT ![c] = queue'[c] # <<>>]

\* The events of connection id leave the queue of client c, the others stay
\* in order; the reply counts the removed ones.
Free(c, id) ==
    /\ \E r \in {queue'[c]} :
          /\ IsRemaining(queue[c], id, r)
          /\ queue' = [queue EXCEPT ![c] = r]
          /\ reply' = Code(Len(queue[c]) - Len(r))
    /\ UNCHANGED notified

Next ==
    \/ \E c \in ClientNums, id \in Ids, event \in EventTypes :
          Enqueue(c, id, event)
    \/ \E c \in Clients : GetEvent(c)
    \/ \E c \in Clients, id \in Ids : Free(c, id)

Spec == Init /\ [][Next]_vars

=============================================================================
