----------------------------- MODULE Multicast -----------------------------
(***************************************************************************)
(* join_multicast_group and leave_multicast_group (xtcp_lwip.xc) with the  *)
(* calls they make: lwIP counts the uses of a group (igmp_joingroup,       *)
(* igmp_leavegroup), the Ethernet MAC filters by hardware address.  Both   *)
(* are external.  The server keeps no record of its own.                   *)
(***************************************************************************)
EXTENDS Integers

CONSTANTS
    Clients,    \* tasks that join and leave groups
    Groups      \* multicast addresses, as functions on 0 .. 3

VARIABLES
    joined,     \* joined[c]: groups client c has joined and not left
    use,        \* use[g]: lwIP's use count of group g, 0: not a member
    filter      \* hardware addresses the MAC lets through

vars == <<joined, use, filter>>

\* ipv4_multicast_to_mac: the lowest 23 bits of the address; what else the
\* hardware address is made of is the same for all groups.
ipv4_multicast_to_mac(addr) == <<addr[1] % 128, addr[2], addr[3]>>

Init ==
    /\ joined = [c \in Clients |-> {}]
    /\ use = [g \in Groups |-> 0]
    /\ filter = {}

\* igmp_joingroup: a use more, unless lwIP has no memory for another group.
shim_join_multicast_group(g) ==
    \/ use' = [use EXCEPT ![g] = @ + 1]
    \/ use[g] = 0 /\ UNCHANGED use

\* igmp_leavegroup: a use less.
shim_leave_multicast_group(g) ==
    use' = [use EXCEPT ![g] = IF @ > 0 THEN @ - 1 ELSE 0]

\* Whether lwIP has joined is not looked at.
join_multicast_group(c, g) ==
    /\ g \notin joined[c]
    /\ joined' = [joined EXCEPT ![c] = @ \cup {g}]
    /\ shim_join_multicast_group(g)
    /\ filter' = filter \cup {ipv4_multicast_to_mac(g)}

\* The filter goes with the first client that leaves.
leave_multicast_group(c, g) ==
    /\ g \in joined[c]
    /\ joined' = [joined EXCEPT ![c] = @ \ {g}]
    /\ shim_leave_multicast_group(g)
    /\ filter' = filter \ {ipv4_multicast_to_mac(g)}

Next ==
    \E c \in Clients, g \in Groups :
        join_multicast_group(c, g) \/ leave_multicast_group(c, g)

Spec == Init /\ [][Next]_vars

-----------------------------------------------------------------------------
\* A subscription lasts until the subscriber ends it: packets for a group that a
\* client has joined and lwIP is a member of pass the MAC's filter, whoever else
\* leaves that group or one that shares its hardware address.
GroupsReachable ==
    \A c \in Clients : \A g \in joined[c] :
        use[g] > 0 => ipv4_multicast_to_mac(g) \in filter

=============================================================================
