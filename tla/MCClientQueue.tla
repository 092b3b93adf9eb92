--------------------------- MODULE MCClientQueue ---------------------------
(* ClientQueue for TLC. *)
EXTENDS ClientQueue

MCIds == {0, 1}
MCEventTypes == {"XTCP_RECV_DATA", "XTCP_SENT_DATA"}

\* Sequences long enough to fill a queue.
SeqUpTo(S, n) == UNION {[1 .. m -> S] : m \in 0 .. n}

\* The two definitions of what free leaves agree, and the relation determines
\* the result.
ASSUME \A q \in SeqUpTo(Event, 3), id \in MCIds :
          /\ IsRemaining(q, id, Remaining(q, id))
          /\ \A r \in SeqUpTo(Event, 2) :
                IsRemaining(q, id, r) => r = Remaining(q, id)

=============================================================================
