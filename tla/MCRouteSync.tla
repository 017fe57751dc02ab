---------------------------- MODULE MCRouteSync ----------------------------
(* RouteSync with two routers: on one provider network, or on two. *)
EXTENDS RouteSync, TLC

CONSTANTS rA, rB, a, b, v, n1, n2

Routers == {rA, rB}
Addresses == {a, b, v}
OneNet  == [ip \in IP |-> n1]
TwoNets == [ip \in IP |-> IF ip = b THEN n2 ELSE n1]
MCNatIPs == (rA :> {a}) @@ (rB :> {})
MCGatewayIPs == (rA :> {}) @@ (rB :> {b})
OneNetEach == [r \in Router |-> {n1}]
TwoNetsApart == (rA :> {n1}) @@ (rB :> {n2})
=============================================================================
