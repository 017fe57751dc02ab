----------------------------- MODULE VethLeak -----------------------------
(***************************************************************************)
(* The veth pair between the default VRF and the provider VRF, and the     *)
(* route and the policy rule each provider network has across it           *)
(* (SetupVethLeak, ReconcileVethLeakNetworks and TeardownVethLeak of       *)
(* routing_linux.go).                                                      *)
(*                                                                         *)
(* ...Cut: the call is stopped between two of its steps, by an error it    *)
(* returns or with the process; ...Fails: a step fails.  HostCycle calls   *)
(* them.                                                                   *)
(***************************************************************************)
EXTENDS FiniteSets

VARIABLES
  veth,        \* the pair exists
  leakRoute,   \* the default route of the leak table
  vrfRoutes,   \* networks with a route in the VRF, of protocol 44
  leakRules    \* networks with a policy rule for the leak table

leakVars == <<veth, leakRoute, vrfRoutes, leakRules>>
nets     == <<vrfRoutes, leakRules>>

LeakTypeOK(Net) ==
  /\ {veth, leakRoute} \subseteq BOOLEAN
  /\ vrfRoutes \subseteq Net /\ leakRules \subseteq Net

LeakInit == veth = FALSE /\ leakRoute = FALSE /\ vrfRoutes = {} /\ leakRules = {}

-----------------------------------------------------------------------------
(***************************************************************************)
(* ReconcileVethLeakNetworks: missing routes, then missing rules, then the *)
(* stale routes and the stale rules, each table as it is found.            *)
(***************************************************************************)
\* Stopped while it adds, which is where it returns on an error.
Mut_StaleFirst(want) ==
  \/ \E s \in SUBSET want : vrfRoutes' = (vrfRoutes \cap want) \cup s /\ UNCHANGED leakRules
  \/ \E s \in SUBSET want :
       vrfRoutes' = vrfRoutes \cup want /\ leakRules' = leakRules \cup s
AddingNetworks(want) ==
  \/ \E s \in SUBSET want : vrfRoutes' = vrfRoutes \cup s /\ UNCHANGED leakRules
  \/ \E s \in SUBSET want :
       vrfRoutes' = vrfRoutes \cup want /\ leakRules' = leakRules \cup s

\* Stopped while it deletes.
DeletingNetworks(want) ==
  \/ \E s \in SUBSET vrfRoutes :
       vrfRoutes' = want \cup s /\ leakRules' = leakRules \cup want
  \/ \E s \in SUBSET leakRules :
       vrfRoutes' = want /\ leakRules' = want \cup s

\* Deletes fail, which is only logged.
Leftovers(want) ==
  \E s \in SUBSET vrfRoutes, t \in SUBSET leakRules :
    vrfRoutes' = want \cup s /\ leakRules' = want \cup t

Mut_RulesOfNewRoutes(want) ==
  IF ~veth THEN UNCHANGED nets
  ELSE /\ vrfRoutes' = want
       /\ leakRules' = (leakRules \cap want) \cup (want \ vrfRoutes)
ReconcileVethLeakNetworks(want) ==
  IF ~veth THEN UNCHANGED nets
  ELSE vrfRoutes' = want /\ leakRules' = want

ReconcileVethLeakNetworksCut(want) ==
  veth /\ (AddingNetworks(want) \/ DeletingNetworks(want))

ReconcileVethLeakNetworksFails(want) ==
  veth /\ (AddingNetworks(want) \/ Leftovers(want))

-----------------------------------------------------------------------------
\* SetupVethLeak: the pair and the default route; the networks only when they are
\* configured.
SetupVethLeak(manual) ==
  /\ veth' = TRUE /\ leakRoute' = TRUE
  /\ IF manual = {} THEN UNCHANGED nets
     ELSE vrfRoutes' = manual /\ leakRules' = manual

SetupVethLeakCut(manual) ==
  /\ veth' = TRUE
  /\ \/ UNCHANGED <<leakRoute, nets>>
     \/ leakRoute' = TRUE /\ manual = {} /\ UNCHANGED nets
     \/ leakRoute' = TRUE /\ manual # {}
        /\ (AddingNetworks(manual) \/ DeletingNetworks(manual))

SetupVethLeakFails(manual) ==
  \/ UNCHANGED leakVars
  \/ veth' = TRUE /\ UNCHANGED <<leakRoute, nets>>
  \/ veth' = TRUE /\ leakRoute' = TRUE /\ manual # {} /\ AddingNetworks(manual)

(***************************************************************************)
(* TeardownVethLeak: all rules, the default route, all routes across the   *)
(* pair, and the pair, with which the kernel deletes what routes it still  *)
(* has.  Only the last failure is returned, and nothing is tried again.    *)
(***************************************************************************)
Mut_RulesWithRoutes ==
  /\ veth' = FALSE /\ leakRoute' = FALSE /\ vrfRoutes' = {}
  /\ leakRules' = leakRules \ vrfRoutes
TeardownVethLeak ==
  veth' = FALSE /\ leakRoute' = FALSE /\ vrfRoutes' = {} /\ leakRules' = {}

TeardownVethLeakCut ==
  \/ \E s \in SUBSET leakRules : leakRules' = s /\ UNCHANGED <<veth, leakRoute, vrfRoutes>>
  \/ /\ leakRules' = {} /\ leakRoute' = FALSE /\ UNCHANGED veth
     /\ \E s \in SUBSET vrfRoutes : vrfRoutes' = s

TeardownVethLeakFails ==
  /\ \E s \in SUBSET leakRules : leakRules' = s
  /\ \/ veth' = FALSE /\ leakRoute' = FALSE /\ vrfRoutes' = {}
     \/ /\ UNCHANGED veth /\ leakRoute' \in {FALSE, leakRoute}
        /\ \E s \in SUBSET vrfRoutes : vrfRoutes' = s

-----------------------------------------------------------------------------
(* Other hands *)

RouteLost(net) ==
  net \in vrfRoutes /\ vrfRoutes' = vrfRoutes \ {net} /\ UNCHANGED <<veth, leakRoute, leakRules>>

RuleLost(net) ==
  net \in leakRules /\ leakRules' = leakRules \ {net} /\ UNCHANGED <<veth, leakRoute, vrfRoutes>>

\* The pair is deleted, and the kernel deletes its routes.
VethLost ==
  veth /\ veth' = FALSE /\ leakRoute' = FALSE /\ vrfRoutes' = {} /\ UNCHANGED leakRules
=============================================================================
