---------------------------- MODULE NetifEvents ----------------------------
(***************************************************************************)
(* The events of the network interface and of the resolver, on the queues  *)
(* the server's connections use: XTCP_IFUP and XTCP_IFDOWN                 *)
(* (xtcp_lwip.xc), request_host_by_name and its callback (dns_found.c).    *)
(* Link events carry id 0 and a DNS result its error code, so that closing *)
(* connection 0 removes link events and successful DNS results too.        *)
(*                                                                         *)
(* The link, the interface's addresses and lwIP's table of DNS requests    *)
(* are external.                                                           *)
(***************************************************************************)
EXTENDS XtcpServer

CONSTANTS
    DnsRequests,    \* slots of lwIP's table of DNS requests
    MaxUnheard      \* bound: results not taken, of a client and of any two

LinkEvents == {"XTCP_IFUP", "XTCP_IFDOWN"}

ASSUME NetifIds == {XTCP_SUCCESS, XTCP_ENOMEM} \subseteq Ids
ASSUME NetifEventTypes == LinkEvents \cup {"XTCP_DNS_RESULT"} \subseteq EventTypes
ASSUME DnsAssumption == IsFiniteSet(DnsRequests) /\ NULL \notin Clients

VARIABLES
    link,               \* the interface's link is up
    ipconfig,           \* what the interface is configured with
    netif_notify_state, \* 1: the last link event sent was XTCP_IFUP
    lookup,             \* lookup[r]: client whose DNS request is in slot r
    view,               \* view[c]: last link event client c took (history)
    missed,             \* missed[c]: c's latest link event is lost (history)
    unheard,            \* unheard[c]: requests of c that lwIP has taken up and
                        \* whose result c has not taken (history)
    lost                \* lost[c]: DNS results for c that met a full queue or
                        \* were removed from it by close (history)

netif_vars == <<link, ipconfig, netif_notify_state, view, missed>>
dns_vars == <<lookup, unheard, lost>>
all_vars == <<vars, netif_vars, dns_vars>>

NetifInit ==
    /\ Init
    /\ link = FALSE
    /\ ipconfig \in {"none", "address", "gateway"}
    /\ netif_notify_state = 0
    /\ lookup = [r \in DnsRequests |-> NULL]
    /\ view = [c \in Clients |-> "XTCP_IFDOWN"]
    /\ missed = [c \in Clients |-> FALSE]
    /\ unheard = [c \in Clients |-> 0]
    /\ lost = [c \in Clients |-> 0]

\* How many events of client c's queue satisfy P.
CountEvents(c, P(_)) == Cardinality({k \in DOMAIN queue[c] : P(queue[c][k])})
IsDnsResult(e) == e.xtcp_event = "XTCP_DNS_RESULT"
IsLinkEvent(e) == e.xtcp_event \in LinkEvents

-----------------------------------------------------------------------------
(* The link.                                                               *)

\* The event goes to every client under id 0; whether it was queued is not
\* looked at.
PostAll(event) ==
    /\ queue' = [c \in Clients |->
                    IF HasRoom(queue[c])
                    THEN Append(queue[c], [xtcp_event |-> event, id |-> 0])
                    ELSE queue[c]]
    /\ missed' = [c \in Clients |-> ~HasRoom(queue[c])]
    /\ UNCHANGED <<connections, last_guid, pcb, buf, next_read, view, dns_vars>>

\* The MAC reports that the link is up: lwIP is told, the clients are not.
LinkUp ==
    /\ link' = TRUE
    /\ UNCHANGED <<vars, ipconfig, netif_notify_state, view, missed, dns_vars>>

\* Mutant: the next XTCP_IFUP is not prepared for.
LinkDown_KeepsState ==
    /\ link' = FALSE
    /\ PostAll("XTCP_IFDOWN")
    /\ UNCHANGED <<ipconfig, netif_notify_state>>

\* The MAC reports that the link is down: lwIP and every client are told.
LinkDown ==
    /\ link' = FALSE
    /\ netif_notify_state' = 0
    /\ PostAll("XTCP_IFDOWN")
    /\ UNCHANGED ipconfig

\* Mutant: the link is not asked for, the address is enough.
NotifyUp_AnyLink ==
    /\ ipconfig # "none"
    /\ netif_notify_state = 0
    /\ netif_notify_state' = 1
    /\ PostAll("XTCP_IFUP")
    /\ UNCHANGED <<link, ipconfig>>

\* The tick of timer 0 that finds the interface up with an address for the first
\* time since the link went down.  All other ticks change nothing here.
NotifyUp ==
    /\ ipconfig # "none"
    /\ netif_notify_state = 0
    /\ link
    /\ netif_notify_state' = 1
    /\ PostAll("XTCP_IFUP")
    /\ UNCHANGED <<link, ipconfig>>

\* DHCP, or the lack of it, changes the interface's addresses.
Configure(config) ==
    /\ ipconfig' = config
    /\ UNCHANGED <<vars, link, netif_notify_state, view, missed, dns_vars>>

-----------------------------------------------------------------------------
(* The resolver.                                                           *)

\* dns_gethostbyname finds a slot for the request.  If the name is in lwIP's
\* cache, or no slot is free, the call answers at once, nothing changes and no
\* event will follow.
shim_request_host_by_name(c) ==
    \E r \in DnsRequests :
        /\ lookup[r] = NULL
        /\ lookup' = [lookup EXCEPT ![r] = c]

\* Without a gateway the call answers at once, too.
request_host_by_name(c) ==
    /\ ipconfig = "gateway"
    /\ unheard[c] < MaxUnheard
    /\ \A d \in Clients \ {c} : unheard[c] + unheard[d] < MaxUnheard
    /\ shim_request_host_by_name(c)
    /\ unheard' = [unheard EXCEPT ![c] = @ + 1]
    /\ UNCHANGED <<vars, netif_vars, lost>>

\* Mutant: a request that has failed is given up without an event.
xtcp_dns_found_OnlySuccess(r, found) ==
    LET c == lookup[r]
    IN  /\ c # NULL
        /\ lookup' = [lookup EXCEPT ![r] = NULL]
        /\ IF found THEN Post(c, XTCP_SUCCESS, "XTCP_DNS_RESULT")
                    ELSE UNCHANGED queue
        /\ lost' = IF Accepts(c) THEN lost ELSE [lost EXCEPT ![c] = @ + 1]
        /\ UNCHANGED <<connections, last_guid, pcb, buf, next_read, netif_vars,
                       unheard>>

\* lwIP has an answer, or has given up, and frees the slot: the client that
\* asked is told, unless its queue is full.
xtcp_dns_found(r, found) ==
    LET c == lookup[r]
    IN  /\ c # NULL
        /\ lookup' = [lookup EXCEPT ![r] = NULL]
        /\ Post(c, IF found THEN XTCP_SUCCESS ELSE XTCP_ENOMEM, "XTCP_DNS_RESULT")
        /\ lost' = IF Accepts(c) THEN lost ELSE [lost EXCEPT ![c] = @ + 1]
        /\ UNCHANGED <<connections, last_guid, pcb, buf, next_read, netif_vars,
                       unheard>>

-----------------------------------------------------------------------------
(* The server's steps.                                                     *)

\* get_event hands over an event of any kind.
TakeEvent(c) ==
    /\ get_event(c)
    /\ LET e == Head(queue[c])
       IN  /\ view' = IF IsLinkEvent(e)
                      THEN [view EXCEPT ![c] = e.xtcp_event] ELSE view
           /\ unheard' = IF IsDnsResult(e)
                         THEN [unheard EXCEPT ![c] = @ - 1] ELSE unheard
    /\ UNCHANGED <<link, ipconfig, netif_notify_state, missed, lookup, lost>>

\* close removes every event queued under the id, whatever it is about.
CloseSocket(c, id) ==
    /\ close(c, id)
    /\ missed' = [missed EXCEPT ![c] =
          @ \/ CountEvents(c, LAMBDA e : IsLinkEvent(e) /\ e.id = id) > 0]
    /\ lost' = [lost EXCEPT ![c] =
          @ + CountEvents(c, LAMBDA e : IsDnsResult(e) /\ e.id = id)]
    /\ UNCHANGED <<link, ipconfig, netif_notify_state, view, lookup, unheard>>

OtherStep ==
    /\ \/ \E c \in Clients : OtherCall(c)
       \/ \E c \in Clients, id \in Sockets : send_tcp(c, id)
       \/ Callback
    /\ UNCHANGED <<netif_vars, dns_vars>>

NetifNext ==
    \/ LinkUp
    \/ LinkDown
    \/ NotifyUp
    \/ \E config \in {"none", "address", "gateway"} : Configure(config)
    \/ \E c \in Clients : request_host_by_name(c)
    \/ \E r \in DnsRequests, found \in BOOLEAN : xtcp_dns_found(r, found)
    \/ \E c \in Clients : TakeEvent(c)
    \/ \E c \in Clients, id \in Sockets : CloseSocket(c, id)
    \/ OtherStep

\* Timer 0 ticks for ever and a client answers event_ready.  Nothing is assumed
\* of the link, the addresses or the peers.
NetifFairness ==
    /\ WF_all_vars(NotifyUp)
    /\ \A c \in Clients : WF_all_vars(TakeEvent(c))

NetifSpec == NetifInit /\ [][NetifNext]_all_vars /\ NetifFairness

-----------------------------------------------------------------------------
(* Properties.                                                             *)

\* What client c will believe of the link once it has read its queue.
LinkView(c) ==
    LET places == {k \in DOMAIN queue[c] : IsLinkEvent(queue[c][k])}
    IN  IF places = {} THEN view[c] ELSE queue[c][Max(places)].xtcp_event

\* A client that reads its events knows the state of the link, unless the latest
\* link event met a full queue or went with connection 0: it believes the link
\* to be up exactly if the server has announced that, and then the link is up.
LinkViewCurrent ==
    /\ \A c \in Clients :
          ~missed[c] =>
             (LinkView(c) = "XTCP_IFUP" <=> netif_notify_state = 1)
    /\ netif_notify_state = 1 => link

\* How many requests of client c are under way, and how many results wait for it.
UnderWay(c) == Cardinality({r \in DnsRequests : lookup[r] = c})
Waiting(c) == CountEvents(c, IsDnsResult)

\* A DNS request leads to one result at most, and that goes to the client that
\* made it: as many of a client's requests are unheard of as are in lwIP's table,
\* have their result in the client's own queue, or have seen it lost.  With two
\* requests under way, of one client or of two, xtcp_dns_found neither repeats a
\* result nor gives it to the other client.
DnsResultsAccounted ==
    \A c \in Clients : unheard[c] = UnderWay(c) + Waiting(c) + lost[c]

\* An interface that stays up with an address is announced: every client takes
\* an XTCP_IFUP in the end, unless its latest link event was lost.
LinkUpHeard ==
    \A c \in Clients :
        <>[](link /\ ipconfig # "none") =>
            <>[](view[c] = "XTCP_IFUP" \/ missed[c])

=============================================================================
