----------------------------- MODULE Connection -----------------------------
(***************************************************************************)
(* connection.c: the table that maps a connection id (its index) to the    *)
(* client that owns it, lwIP's protocol control block and the received     *)
(* buffers not yet read.  The functions are operators on the value of the  *)
(* table, conns; the modules that own the table compose them.              *)
(*                                                                         *)
(* The list that starts at an entry's pbuf pointer and runs through the    *)
(* buffers' next pointers is the sequence pbuf.                            *)
(***************************************************************************)
EXTENDS EventQueueOps, SequencesExt

CONSTANTS
    MAX_OPEN_SOCKETS,   \* entries in the table
    NULL                \* the null pointer

ASSUME SocketsAssumption == MAX_OPEN_SOCKETS \in Nat \ {0}

XTCP_PROTOCOL_NONE == "XTCP_PROTOCOL_NONE"
XTCP_PROTOCOL_TCP  == "XTCP_PROTOCOL_TCP"
XTCP_PROTOCOL_UDP  == "XTCP_PROTOCOL_UDP"

Sockets == 0 .. MAX_OPEN_SOCKETS - 1

\* The client_num of an entry without owner: UINT32_MAX, out of range for
\* every check against MAX_XTCP_CLIENTS.
DEINIT == MAX_XTCP_CLIENTS

\* init_client_connections: an entry nobody has used.
InitEntry ==
    [is_active |-> FALSE, client_num |-> DEINIT,
     protocol |-> XTCP_PROTOCOL_NONE, pcb |-> NULL, pbuf |-> <<>>,
     client_data |-> NULL]

init_client_connections == [i \in Sockets |-> InitEntry]

\* find_client_connection succeeds: id is an entry of client_num.
find_client_connection(conns, client_num, id) ==
    id \in Sockets /\ conns[id].client_num = client_num

\* Mutants: the pointer to the control block, or to the client's data, is not
\* reset.
free_client_connection_KeepsPcb(entry) ==
    [entry EXCEPT !.is_active = FALSE, !.client_num = DEINIT,
                  !.protocol = XTCP_PROTOCOL_NONE, !.client_data = NULL]

free_client_connection_KeepsData(entry) ==
    [entry EXCEPT !.is_active = FALSE, !.client_num = DEINIT,
                  !.protocol = XTCP_PROTOCOL_NONE, !.pcb = NULL]

\* The entry free_client_connection leaves.  The list of received buffers is
\* not touched.
free_client_connection(entry) ==
    [entry EXCEPT !.is_active = FALSE, !.client_num = DEINIT,
                  !.protocol = XTCP_PROTOCOL_NONE, !.pcb = NULL,
                  !.client_data = NULL]

\* The entries in the order assign_client_connection tries them.
Candidate(last_guid, i) ==
    IF last_guid + i >= MAX_OPEN_SOCKETS
    THEN last_guid + i - MAX_OPEN_SOCKETS
    ELSE last_guid + i

\* The tries at which assign_client_connection meets an inactive entry.
FreeTries(conns, last_guid) ==
    {i \in Sockets : ~conns[Candidate(last_guid, i)].is_active}

HasFreeEntry(conns) == \E i \in Sockets : ~conns[i].is_active

\* Mutant: the search takes the first entry it tries.
AssignedIndex_First(conns, last_guid) == Candidate(last_guid, 0)

\* The index assign_client_connection returns when an entry is free.
AssignedIndex(conns, last_guid) ==
    Candidate(last_guid, Min(FreeTries(conns, last_guid)))

\* The entry assign_client_connection sets up.  The list of received buffers
\* and client_data keep what they held.
assign_client_connection(entry, client_num, protocol) ==
    [entry EXCEPT !.is_active = TRUE, !.client_num = client_num,
                  !.protocol = protocol, !.pcb = NULL]

\* get_client_info, for an index in range.
get_client_info(conns, index) == conns[index].client_num

\* get_tcp_pcb and get_udp_pcb: NULL when the entry has another protocol.
get_tcp_pcb(conns, index) ==
    IF conns[index].protocol = XTCP_PROTOCOL_TCP THEN conns[index].pcb ELSE NULL

get_udp_pcb(conns, index) ==
    IF conns[index].protocol = XTCP_PROTOCOL_UDP THEN conns[index].pcb ELSE NULL

\* Mutant: the buffer goes to the front of the list.
set_remote_Front(entry, p) == [entry EXCEPT !.pbuf = <<p>> \o @]

\* set_remote: the buffer goes to the end of the entry's list, whether the
\* entry is active or not.
set_remote(entry, p) == [entry EXCEPT !.pbuf = Append(@, p)]

\* Mutant: the refused buffer stays linked.
unlink_remote_Nothing(entry, p) == entry

\* unlink_remote: the first occurrence of the buffer leaves the list.
unlink_remote(entry, p) == [entry EXCEPT !.pbuf = RemoveFirst(@, p)]

\* free_remote_data: the head leaves the list.
free_remote_data(entry) == [entry EXCEPT !.pbuf = Tail(@)]

=============================================================================
