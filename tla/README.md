# A TLA+ model of lib_xtcp

lib_xtcp is XMOS's TCP/IP library: one server task, `xtcp_lwip`, runs the lwIP
stack and offers up to `MAX_XTCP_CLIENTS` client tasks a socket interface over
XC's remote calls.  This directory models what lies between the clients and
lwIP: the event queues, the connection table, the socket calls with their
transmit buffers and options, the callbacks, link and DNS events, and multicast
groups.

## The system

| part | source (`lib_xtcp/src/`) | state | operations |
|---|---|---|---|
| client event queues | `client_queue.c`, `xtcp_shim.xc` | `client_queue`, `client_heads`, `client_num_events`, and the interface's notification | enqueue and notify, dequeue, renotify, free the events of a connection |
| connection table | `connection.c` | `connections[MAX_OPEN_SOCKETS]` (owner, protocol, control block, received data, client data), `last_guid` | assign, free, find, link, unlink and free received data |
| socket calls | `xtcp_lwip.xc`, `lwip_shim.c` | none of their own | `get_event`, `socket`, `close`, `abort`, `listen`, `connect`, `send`, `recv`, client data |
| TCP callbacks | `tcp_transport.c` | none | accept, connected, received, closed, sent, error |
| UDP callback | `udp_recv.c` | none | datagram received |
| link events | `xtcp_lwip.xc` | `netif_notify_state` | link up, link down, the tick of timer 0 |
| DNS | `lwip_shim.c`, `dns_found.c` | none; lwIP's table of requests | request, result |
| transmit path | `pbuf_shim.c`, `lwip_shim.c`, `xtcp_lwip.xc` | none; lwIP's transmit buffers | `send`, `sendto` and their timed forms |
| socket options | `lwip_shim.c` | none; fields of lwIP's control blocks | `getsockopt`, `setsockopt` |
| multicast groups | `xtcp_lwip.xc`, `lwip_shim.c` | none; lwIP's memberships and the MAC's filter | join, leave |
| lwIP | submodule, not in the repository | control blocks, buffers | external: modelled by the calls made to it and the callbacks it makes |

The server is a single `select` loop, so two handlers never run at the same
time.  What is hard is not data races but everything that is remembered from
one handler to the next:

* lwIP identifies a connection by the argument stored in its control block,
  which is the index into the table.  The block and the entry live and die
  separately: lwIP keeps a block for the closing handshake, frees one on an
  error, and takes one back when its pool is empty, in the middle of
  `shim_new_socket`.
* An event queue is bounded.  Each callback has already changed something when
  it finds the queue full, and has to undo it.
* `get_event` clears the notification of a queue that may hold more events.
* Received buffers are on lists threaded through lwIP's own `next` pointers;
  lwIP keeps refused buffers and offers them again.
* Ids are indices and are used again.
* Link and DNS events have no connection, and go through the same bounded
  queues under the id 0 (or an error code); `close(0)` takes them along.
* Options belong to the control block, transmit buffers and memberships are
  counted by lwIP, the MAC's filter is not counted by anybody.

Correct means: the queues are bounded FIFOs from which closing removes exactly
the events of the closed connection; a waiting event is always announced; an
entry's block is alive and is its own, its events come under the id its client
holds and nobody else's do; an entry has one owner at a time and hands nothing
over to the next; a received buffer has exactly one holder, and the byte stream
is read in order; a transmit buffer comes back on every path; an option read is
the one the socket's owner set; a client that reads its events knows the state
of the link and gets one result per DNS request; a subscription to a multicast
group lasts until the subscriber ends it.

## Modules

* `EventQueueOps`: constants, event records and the operators on queues both
  levels share.  `RemainingUpTo` says what is left of a queue when a
  connection's events are removed, as a relation; `Remaining` is the function
  TLC evaluates, proved equal to it (`RemainingCorrect`) and also compared with
  it by an ASSUME of `MCClientQueue`.
* `EventQueue`: the abstract specification, what `client_queue.h` promises of the
  calls the server makes (it never frees the events of a number that is not a
  client's; see "Also met").  A sequence per client, one step per operation,
  `reply` the value returned.
* `ClientQueue`: `client_queue.c`.  The variables are the file's static arrays,
  plus `notified` (the state of `event_ready`), `reply`, and `pc`/`loop` for the
  local variables of the compaction loop in `free_notifications_on_queue`, which
  is one action per iteration (`RemoveMatch`, `KeepOther`) with an entry and a
  return.  `loop.before` is a history variable.  `get_event` is the whole select
  case: `dequeue_event` and `renotify`.
* `Connection`: `connection.c` as operators on the table's value.  The list of
  received buffers that starts at an entry is a sequence.
* `XtcpServer`: the server task.  A client call is one action, and so is a packet
  or timer tick with the callbacks it causes.  The event queues are
  `EventQueue`'s sequences (the notification is left to `ClientQueue`), the
  table is `Connection`'s, and lwIP is the variables `pcb` and `buf`.
  `next_read` is a history variable: which segment of the stream the client
  expects.
* `NetifEvents`: extends `XtcpServer` with the link and DNS events, so that they
  meet a real connection's events, `close` and full queues.  `netif_notify_state`
  is the task's variable; `link`, `ipconfig` and `lookup` are external.  `view`
  (the last link event a client took), `missed` (its latest link event was
  refused by a full queue or removed with connection 0), `unheard` (requests of
  the client that lwIP has taken up and whose result it has not taken) and `lost`
  (results refused by a full queue or removed with connection 0) are history
  variables; a lost result stays unheard.  `MaxUnheard` bounds `unheard`.  `TakeEvent` and
  `CloseSocket` are the server's `get_event` and `close` with the history;
  `OtherStep` is every other step of the server.
* `SocketCalls`: extends `XtcpServer` with transmit buffers (`ref`, the count of
  references, and `kept`, those lwIP waits with for a hardware address) and the
  option fields of the control blocks (`opt`; `want` is history).  A send is
  three steps, each with its own effect on the count: `send` or `sendto` check
  and allocate, `udp_send`, `tcp_write` or `NoProtocol` is the protocol's branch
  of `shim_send` and `shim_sendto`, `pbuf_free` its end.  `call` holds the locals
  of the call in progress; no other step runs in between, as in the code.
  `ServerStep` is every other step of the server.  The queries are operators: `getsockopt` is
  evaluated in the invariant.
* `Multicast`: join and leave, lwIP's use counts, the MAC's filter, and the
  mapping of group addresses to hardware addresses.  It shares no state with the
  other parts and stands alone.
* `MCClientQueue`, `MCXtcpServer`, `MCNetifEvents`, `MCSocketCalls`,
  `MCMulticast`: the instances for TLC.
* `EventQueueLemmas`, `ClientQueueProofs`, `XtcpServerProofs`,
  `XtcpRoutingProofs`, `XtcpDataProofs`, `XtcpBufferProofs`,
  `SocketCallsProofs`, `NetifEventsProofs`: the theorems, see Proofs.

### lwIP as modelled

A control block has a state, the callback argument (`arg`, 0 in a new block, as
`tcp_alloc` zeroes it), a priority, the part of the receive window in use, the
number of the next segment, refused data and a flag for unacknowledged data.
`tcp_listen` trades a block for a listening one; a half-open connection inherits
the listener's argument; an accept callback that returns an error other than
`ERR_ABRT` makes lwIP abort the new connection, which calls back with
`LWIP_EVENT_ERR`; `tcp_close` frees a block without a connection or with unread
data at once (a reset) and otherwise keeps it for the handshake; `tcp_new` on an
empty pool takes back a closing block or one of minimal priority.  Segments are
numbered modulo `SEQ_NUMBERS`, the window is counted in segments.

The constant `Env` says which of lwIP's surroundings take part:

| | |
|---|---|
| `"connect"` | clients open outgoing TCP connections |
| `"connect_0"` | clients open them on socket 0 only, where the argument a new block has is right |
| `"linger"` | blocks outlive `tcp_close`, and half-open ones their listener's |
| `"errors"` | resets, time-outs and blocks taken back |
| `"overload"` | handshakes completed with a full table |

The switches separate the properties that hold with them from those that a
finding below refutes; each passing run says which are on.  Once a list holds a
freed buffer the behaviour of C is undefined: the actions that would walk such a
list have the guard `MemoryIntact` and the model goes no further there.  The run
`udp_overflow` is about that overflow; `server_orderly` and `mixed` have UDP
sockets and therefore contain it too, and for this reason do not check
`RxBuffersOwned`.  In the other runs a freed buffer on a list would violate
`RxBuffersOwned` or cannot happen.

Abstracted: addresses and ports (binding to a port in use fails and changes
nothing), buffer contents and lengths (`recv` frees the segment whether or not it
fits the caller's buffer, and the model does not tell the two apart), timestamps,
return codes of the socket calls (a refused call is a stuttering step).

For the other modules: lwIP's DNS table has `DnsRequests` slots, each freed by
exactly one call of `xtcp_dns_found`; a request answered from the cache, without
a gateway or without a slot changes nothing.  `udp_send` may keep a reference to
the datagram until an address is resolved; `tcp_write` copies.  A new control
block has default options, `tcp_listen` copies them.  `igmp_joingroup` counts
uses or fails for lack of memory; the MAC's filter is a set, from which
`del_macaddr_filter` removes the address.  Socket options on an entry whose
`udp_new` or `tcp_new` failed would go through a null pointer and are not taken
further.

## Runs

| run | expects | instance | question |
|---|---|---|---|
| `queue` | pass | 1 client, 3 slots, 2 ids, 2 event types | `TypeOK`, `NoLostWakeup`, `CompactionInPlace`, `ImplementsEventQueue`, `EventsKeepComing` |
| `server_orderly` | pass | TCP and UDP, 3 sockets, 2 TCP blocks, queue 2, `Env` empty | `TypeOK`, `NoStrayEvents`, `ListenerKeepsEntry`, `NoLeftoverData`, `StreamIntact`, `EventsMatchEntries` |
| `server_harsh` | pass | TCP, 2 sockets, 2 blocks, queue 1, client data, connect_0, linger, errors, overload | `NoDanglingPcb`, `OwnerHearsPcb`, `RxBuffersOwned`, `InactiveIsClean` |
| `mixed` | pass | 2 clients, all protocols, 2 sockets, 1 transmit buffer, 3 options, connect | `NoDanglingPcb`, `NoLeftoverData`, `OwnershipIsExclusive`, `TxBuffersHeld`, `OptionsReadBack` |
| `netif` | pass | 2 clients, queue 2, 2 DNS requests, 1 socket | `LinkViewCurrent`, `DnsResultsAccounted`, `LinkUpHeard` |
| `connect_id`, `udp_overflow`, `error_data`, `accept_full`, `late_event` | violation | one switch each, `udp_overflow` with UDP | see Findings |
| `send_none` | violation | as `mixed`, sockets of `XTCP_PROTOCOL_NONE` only | see Findings |
| `multicast_leave` | violation | 2 clients, 3 groups, two of which share a hardware address | see Findings |

What the passing runs of the extended server show.  `mixed`: however sockets are
opened, connected, made to listen, closed and reused by two clients, an entry in
use is nobody else's; whether lwIP sends, keeps or refuses a datagram, and with
or without a control block, no call frees its buffer too early or twice; and
`getsockopt` returns what the present owner of the id has set.  That no buffer is
leaked either (`TxBuffersReturned`) fails for sockets without a protocol, which
is the finding `send_none`, and is proved for all others.  `netif`: a client that
has read its queue believes the link up exactly when the server has said so and
the link is up; the only exceptions are a latest link event that met a full queue
or was removed by `close(0)`, and these last until the next link event, because
the code does not send it again.  Each DNS request that lwIP took up is in lwIP's
table, has its one result waiting for the client that made it, or is counted in
`lost`: results are not repeated and do not go to the other client.  The losses
themselves are what the code does; the property counts them and does not excuse
anything else.

Bounds.  Three slots are the smallest ring in which the read and the write index
of the compaction wrap at different iterations with an event to lose in between;
two ids give an event to remove and one to keep; two event types tell kept
events apart.  In the server two connections and a listener need three sockets;
queue size 1 makes every second event meet a full queue, size 2 lets refused
data and other events mix; two buffers and a window of two segments allow a list
of two, or one listed and one refused; three sequence numbers are one more than
can be under way, so a lost, repeated or swapped segment shows.  `server_harsh`
keeps two sockets so that the table fills up, and opens outgoing connections on
socket 0 only, since elsewhere the finding `connect_id` refutes `OwnerHearsPcb`.  In `mixed` two clients and the
accept callback compete for two entries; one transmit buffer makes the pool run
out while lwIP keeps it; the options are one of every block, one of UDP blocks
and the flag, with two values (the code treats TOS like TTL, and the multicast
TTL like the interface).  In `netif` a queue of two holds an `XTCP_IFDOWN` and an
`XTCP_IFUP` at once or is full with other events; two slots and `MaxUnheard` 2,
for a client and for any two together, let one client ask twice or both ask at
once, and a lost result takes one of the two for good; the one socket has the
id that link events and successful results share.  It is opened without a
protocol: that a connection's own events on the same queue change nothing is
left to the theorems `LinkViewsAreCurrent` and `DnsResultsAreAccounted`, which
allow any.  Control blocks of a pool and buffers are interchangeable
(`PoolSymmetry`); no liveness is checked with symmetry.  Deadlock is checked in every run.

Fairness.  `queue` assumes that a notified client's `get_event` is
eventually taken (strong fairness: a client task answers `event_ready`, XC's
select serves a waiting call, and the compaction in between only delays it) and
that the loop runs on (weak fairness).  Nothing is assumed of enqueue and free.
The liveness property is that a queue which stays non-empty is read again and
again.  `netif` assumes that the tick of timer 0 which finds the interface up
comes (weak fairness: the timer fires for ever and the select serves it) and
that a client with events calls `get_event` (weak fairness: a waiting event
keeps `event_ready` raised, which is `NoLostWakeup`).  Nothing is assumed of the
link, the addresses, lwIP or the peers.  The other runs check safety only.

## Findings

1. `connect_id`: `shim_connect` (`lwip_shim.c:172`) never calls `tcp_arg`.  All
   events of an outgoing connection are reported under id 0, and an error on it
   frees entry 0.  The documentation promises the id of the socket.
2. `udp_overflow`: `xtcp_udp_recv` (`udp_recv.c:35`) frees a datagram that it has
   linked to the connection and does not unlink it (the TCP callback does).
3. `error_data`: the error callback (`tcp_transport.c:163`) frees the entry, but
   neither takes the connection's events out of the queue nor frees its received
   data, as `close` does, and `assign_client_connection` clears nothing.  The run
   ends with a new, unused socket under the failed connection's id, that
   connection's `XTCP_ACCEPTED` and `XTCP_RECV_DATA` waiting under the same id,
   and its data ready to be read (`NoForeignData`).  The documentation says that
   the resources are cleaned up and that such events carry the id -1.
4. `accept_full`: when the table is full the aborted connection still carries
   the listener's index, so the error callback frees the listening socket's
   entry and tells its client that the listener was aborted.
5. `late_event`: `tcp_close` leaves the argument in the closing block; its last
   events go to whoever has the index by then, and an error frees that entry.
6. `multicast_leave`: `leave_multicast_group` (`xtcp_lwip.xc:394`) deletes the MAC
   filter although another client is still in the group, or another group shares
   the hardware address.  lwIP remains a member and hears nothing.
7. `send_none`: `shim_send` and `shim_sendto` (`lwip_shim.c:231`) free the caller's
   buffer in the branches of UDP and TCP only.  A send on a socket opened with
   `XTCP_PROTOCOL_NONE` takes a transmit buffer for good, where `pbuf_shim.h:20`
   says that it is freed in `shim_send`.

Also met, without a run:

* `free_notifications_on_queue` returns 0 for an invalid client, where
  `client_queue.h:54` says `XTCP_EINVAL`.  The server passes its own clients'
  numbers only, and neither level of the queue models the other call.
* Link events and successful DNS results are queued under id 0 and removed by
  `close(0)`, where `xtcp.h:129` says that they have no associated connection;
  and they are given up on a full queue.  `missed` and `lost` record it.
* A DNS request without a gateway, or one that fails at once, returns an empty
  address and is never followed by the event `xtcp.h:472` promises.
* `send` returns `XTCP_SUCCESS`, where `xtcp.h:306` says the number of bytes; it
  returns `XTCP_EINVAL` when `tcp_output` fails although the data is queued.
* The timed sends read the timestamp of a buffer that has been freed.
* `setsockopt` of the multicast loop sets the flag whatever the value
  (`lwip_shim.c:452`).
* `XTCP_SENT_DATA` can follow `XTCP_CLOSED`, where `xtcp.h:125` calls the latter
  the last event of a connection.
* `recv` with a short buffer drops the segment and returns `XTCP_EAGAIN`.
* `get_ipconfig_remote` and `get_ipconfig_local` do not check who asks.

## Proofs

Every invariant, action property and refinement that a passing run checks is
also a theorem, for every value of the constants: any number of clients, sockets,
control blocks, buffers and DNS requests, any queue size, window and modulus.
The assumptions on constants are the named ASSUMEs of the modules
(`SizesAssumption`, `PoolsAssumption`, ...): sizes are positive, pools are
disjoint, `Pbufs` and `DnsRequests` are finite, ids and event types contain what
the code posts.

### Queues: `EventQueueLemmas`, `ClientQueueProofs`

* `TypeCorrect`: `Spec => []TypeOK`.  The inductive invariant is `TypeInv`,
  `TypeOK` with `LoopCounts`: inside the compaction loop the count stays at or
  above 0 only because no more events have been removed than read.
* `WakeupsKept`: `Spec => []NoLostWakeup`, inductive together with `TypeInv`.
* `CompactionCorrect`: `Spec => []CompactionInPlace`.  The loop invariant has two
  parts.  `UnreadIntact`: the slots not yet read still hold what they held when
  the loop began; `SurvivorsInOrder`: the slots already written hold what
  remains of the part read.  The write index never passes the read index, and
  slots at different distances from the head are different
  (`SlotAfterInjective`), so a write destroys nothing unread.  `AdvanceIsNext`
  relates the code's step-and-wrap to the distance modulo the size;
  `RemainingSkip` and `RemainingKeep` are the two cases of an iteration.
* `QueueImplements`: `Spec => ImplementsEventQueue`, the safety part of the
  refinement.  The mapping `AbstractQueue` reads a ring from its head, and the
  ring under compaction as it was when the loop began.  An enqueue appends
  (`EnqueueAppends`), `get_event` takes the head, the loop's iterations
  stutter, and its return is the abstract `Free`, by the loop invariant above
  (and `LoopId`: the id searched for is the caller's).

Inductions over the naturals (what `Remaining` computes, where the search of
`assign_client_connection` ends) are first-order: `LeastNatural` gives the least
number for which a claim fails, and the step shows that it fails for a smaller
one.

### The server: `XtcpServerProofs` and the three modules above it

The server's theorems rest on one another:

1. `ServerInv` (`XtcpServerProofs`), in any surroundings: types, and what each
   kind of entry and block can look like (`GoodEntries`, `GoodBlocks`: an entry's
   block comes from the pool of its protocol, an inactive entry has none, a
   block is in a state of its pool, only an established one has refused data, one
   that has not been used yet has the argument 0).
   It is inductive by itself.  `TypeCorrect`, `InactiveEntriesAreClean` and the
   action property `EntriesKeepTheirOwner` follow from it.  For each operation a
   lemma (`CloseEffect`, `AcceptEffect`, ...) says what it changes; all later
   proofs use these.
2. `HeldInv` (`XtcpRoutingProofs`): from entries to blocks.  An entry's block is
   live, no other entry holds it, and its argument is the entry's index.  An
   error frees the entry its block's argument names, so liveness and argument
   have to be proved together.
3. `RoutedInv` (same module): from blocks to entries.  A block that raises
   events is held by the entry they go to; which states that covers depends on
   the surroundings (`RoutedStates`).  It is inductive where an error hits only
   its own entry (`ErrorsHitOwners`).  `EventsReachTheirEntry` and
   `ListenersKeepTheirEntry` follow.
4. `XtcpDataProofs`: the events in a queue are about entries of that client,
   and an inactive entry has no data; both at once (`OrderlyAlways`), with
   `RoutedInv`, since the next event or segment must not go to an entry that is
   not the block's.
5. `RxInv` (`XtcpBufferProofs`): refused data is in use, no buffer is in two
   places, and every buffer in use is in one.  Without UDP the buffers on the
   lists are in use too (`ListsInUse`); as this is `MemoryIntact`, the guard of
   that name hides nothing there.  The cardinality of `RxBuffersOwned` is
   derived at the end.
6. `StreamInv` (same module): the segments on a list and the refused one are
   numbered without gap modulo `SEQ_NUMBERS`, and the window counts them.

| theorem | property | surroundings assumed |
|---|---|---|
| `TypeCorrect` | `TypeOK` | any |
| `InactiveEntriesAreClean` | `InactiveIsClean` | any |
| `EntriesKeepTheirOwner` | `OwnershipIsExclusive` | any |
| `NoEntryDangles` | `NoDanglingPcb` | not connect and errors together; connect_0 allowed |
| `OwnersHearTheirBlocks` | `OwnerHearsPcb` | no connect; connect_0 allowed |
| `EventsReachTheirEntry` | `NoStrayEvents` | errors and connect_0 at most |
| `ListenersKeepTheirEntry` | `ListenerKeepsEntry` | no overload; with errors neither connect nor linger |
| `EventsBelongToEntries` | `EventsMatchEntries` | no errors, no overload |
| `NoDataLeftBehind` | `NoLeftoverData` | no errors, no overload |
| `BuffersAreOwned` | `RxBuffersOwned` | any, without UDP sockets |
| `StreamsAreIntact` | `StreamIntact` | linger at most |
| `TransmitBuffersHeld` | `TxBuffersHeld` | any |
| `TransmitBuffersReturn` | `TxBuffersReturned` | any, without `XTCP_PROTOCOL_NONE` sockets |
| `OptionsAreReadBack` | `OptionsReadBack` | not connect and errors together |
| `LinkViewsAreCurrent` | `LinkViewCurrent` | any |
| `DnsResultsAreAccounted` | `DnsResultsAccounted` | any |

The exclusions are not there for the prover: with any of them lifted TLC finds
the property violated, through the mechanism of one of the findings (an
outgoing connection's argument, a lingering block's, the listener freed on a
full table, the data an error leaves behind, the datagram that is freed and
linked, the send without a protocol).  For
`NoLeftoverData` and `StreamIntact` with overload this takes two
listening blocks.  The one exception is `StreamsAreIntact`, whose proof also
leaves out outgoing connections on socket 0.

### The calls and events around it: `SocketCallsProofs`, `NetifEventsProofs`

* `CallsSpecIsSpec`: a step of `SocketCalls` is a step of the server or leaves
  its state alone, so the server's invariants hold there.
* `CallInv`: the locals of a send in progress.  The entry it works on has an owner
  and stays as it is, since no other step runs before the call returns.
* `TransmitBuffersHeld`, `TransmitBuffersReturn`: `TxInv` adds to the two
  properties the type of the reference counts and that the buffer of a call which
  has not yet reached lwIP is not among those lwIP keeps.  References are at
  least the holders always, and equal to them if no socket is without a protocol
  (`TxInvAlways`).
* `OptionsAreReadBack`: `OptInv` says that the fields `getsockopt` would read in
  an entry's block are the ones its owner wanted.  `HeldInv` is needed: as no two
  entries share a block, setting an option of one leaves the others' alone.  A
  half-open block has the default options until it is accepted.
  `BlocksChangeHands` lists the ways an entry can come to a block.
* `NetifEventsProofs`: a step of `NetifEvents` may also post link events and DNS
  results, so `ServerInv` is proved again for its next-state relation
  (`NetifKeepsServerInv`).  All other steps add to a queue at most an event of a
  connection (`OtherQuiet`).
* `LinkViewsAreCurrent`: `LinkInv` speaks of every belief a queue leads to
  (`Believes`) instead of the last position `LinkView` computes.  One lemma for
  each of append, take and remove says that beliefs are kept or replaced as
  they should be.
* `DnsResultsAreAccounted`: `DnsInv` counts places instead of events, with `lost`
  for the places `close` and a full queue take.  `DnsAppend`,
  `DnsTail` and `DnsRemaining` say how the count changes; the last two pair
  places of the old and the new queue off.

## Only model-checked

The two liveness properties, `EventsKeepComing` and `LinkUpHeard`: they need
fairness and ENABLED, which the prover does not reason about.  The temporal part
of `ImplementsEventQueue` has no fairness and is proved as a whole.  `Multicast`
has only its finding: the code keeps no property of the filter that would be
worth a theorem.

## Plan

Every part of the library that keeps or changes state is modelled, and every
safety property that a run checks is proved.  Left to do:

1. What remains true where a theorem's surroundings end: for instance that after
   a failed connection only the freed entry and its block are out of step, or
   that with outgoing connections every event still comes under id 0 or the
   entry's own.
2. `Multicast`: which subscribers a leave can cut off, as an invariant that holds
   of the code.
3. Shared parts of the long `XtcpBufferProofs` as lemmas of their own.

## Not modelled

The Ethernet MAC and MII interfaces (pure I/O; the MAC's filter is part of
`Multicast`), the queries that only read (`is_ifup`, `get_netif_ipconfig`,
`get_ipconfig_remote`, `get_ipconfig_local`, `get_connection_client_data`),
lengths, contents and timestamps of packets, `xtcp_configure.c` (a weak hook),
`xc2compat.h`, the build files, and the examples (client applications; the
model's clients make any call at any time).
