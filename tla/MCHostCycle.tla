---------------------------- MODULE MCHostCycle ----------------------------
(* HostCycle with two routers, each on a provider network of its own.       *)
EXTENDS HostCycle, TLC

CONSTANTS rA, rB, a, b, n1, n2

Routers   == {rA, rB}
Addresses == {a, b}
MCOwnerOf == (a :> rA) @@ (b :> rB)
MCNetOf   == (a :> n1) @@ (b :> n2)
Port1 == [name |-> "patch-provnet-1", ofport |-> 1]
Port2 == [name |-> "patch-provnet-1", ofport |-> 2]
Ports == {Port1, Port2}

Full == [ovn |-> TRUE, networkCIDR |-> {}, forwards |-> TRUE, vethLeak |-> TRUE,
         hairpinMasquerade |-> TRUE, routerMasquerade |-> TRUE, cleanup |-> TRUE]
Manual == [Full EXCEPT !.networkCIDR = {n1}, !.forwards = FALSE, !.cleanup = FALSE]
ForwardOnly == [Full EXCEPT !.ovn = FALSE, !.networkCIDR = {n1}, !.routerMasquerade = FALSE]

Configs == {Full, Manual, ForwardOnly}
=============================================================================
