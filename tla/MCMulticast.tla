---------------------------- MODULE MCMulticast ----------------------------
(* Multicast for TLC. *)
EXTENDS Multicast, TLC

\* An address from its four bytes, numbered from 0 as in xtcp_ipaddr_t.
Address(a, b, c, d) == 0 :> a @@ 1 :> b @@ 2 :> c @@ 3 :> d

\* 239.1.1.1 and 239.129.1.1 share a hardware address, 239.1.1.2 has its own.
MCGroups == {Address(239, 1, 1, 1), Address(239, 129, 1, 1), Address(239, 1, 1, 2)}

=============================================================================
