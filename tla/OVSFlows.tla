----------------------------- MODULE OVSFlows -----------------------------
(***************************************************************************)
(* The OpenFlow flows the agent keeps on the provider bridge (ovs.go): the *)
(* MAC-tweak flows that let the kernel accept what comes from OVN, and the *)
(* hairpin flows that send traffic between local routers back into OVN.    *)
(*                                                                         *)
(* Every flow names the OpenFlow number of the patch port and the MAC of   *)
(* the bridge, which the agent discovers once and then keeps.  An          *)
(* operation here is one call of RouteManager: with all its commands       *)
(* answered, with one that fails (...Fails), or stopped between two of     *)
(* them (...Cut).  HostCycle calls them.                                   *)
(***************************************************************************)
EXTENDS FiniteSets

CONSTANTS
  PatchPort,   \* patch ports br-ex may get: [name, ofport]
  MAC,         \* addresses the bridge may have
  FirstPatch,  \* what it has when the agent is first started
  FirstMAC,
  None

ASSUME PatchAssumption ==
  None \notin PatchPort /\ FirstPatch \in PatchPort \cup {None} /\ FirstMAC \in MAC

VARIABLES
  patch,            \* the patch port of br-ex, or None
  bridgeMAC,        \* its address
  cachedPatch,      \* cachedPatchPort and cachedOfport, or None
  cachedBridgeMAC,
  tweak,            \* MAC-tweak flows
  hairpin           \* hairpin flows

bridgePort == <<patch, bridgeMAC>>
discovery  == <<cachedPatch, cachedBridgeMAC>>
flows      == <<tweak, hairpin>>

Family == {"ip", "ipv6"}
Ofport == {p.ofport : p \in PatchPort}

OVSTypeOK(Address, RouterMAC) ==
  /\ patch \in PatchPort \cup {None} /\ bridgeMAC \in MAC
  /\ cachedPatch \in PatchPort \cup {None}
  /\ cachedBridgeMAC \in MAC \cup {None}
  /\ cachedPatch # None => cachedBridgeMAC \in MAC
  /\ tweak \subseteq [family : Family, ofport : Ofport, mac : MAC]
  /\ hairpin \subseteq [ip : Address, ofport : Ofport, src : MAC, dst : RouterMAC]

OVSInit ==
  /\ patch = FirstPatch /\ bridgeMAC = FirstMAC
  /\ cachedPatch = None /\ cachedBridgeMAC = None
  /\ tweak = {} /\ hairpin = {}

-----------------------------------------------------------------------------
MACTweakFlows(port, mac, families) ==
  {[family |-> f, ofport |-> port.ofport, mac |-> mac] : f \in families}

\* One flow per address; routerMAC maps it to the port of its router.
HairpinFlows(port, mac, routerMAC) ==
  {[ip |-> a, ofport |-> port.ofport, src |-> mac, dst |-> routerMAC[a]] :
     a \in DOMAIN routerMAC}

\* add-flow: a flow with the same match is replaced.
AddTweakFlows(new) ==
  new \cup {f \in tweak : \A g \in new : <<f.family, f.ofport>> # <<g.family, g.ofport>>}

(***************************************************************************)
(* refreshOVSDiscovery: the cache is kept when the cached port still has   *)
(* the cached number, whatever has become of the MAC; else everything is   *)
(* looked up again.                                                        *)
(***************************************************************************)
Mut_TrustsCache == IF cachedPatch = None THEN patch ELSE cachedPatch
ValidPort == patch

DiscoveredMAC == IF ValidPort = cachedPatch THEN cachedBridgeMAC ELSE bridgeMAC

Mut_PortOnly == cachedPatch' = ValidPort /\ UNCHANGED cachedBridgeMAC
refreshOVSDiscovery ==
  /\ cachedPatch' = ValidPort
  /\ cachedBridgeMAC' = IF ValidPort = None THEN cachedBridgeMAC ELSE DiscoveredMAC

\* EnsureOVSFlows: discovery, then all flows are deleted and added again.
EnsureOVSFlows ==
  /\ refreshOVSDiscovery
  /\ tweak' = IF ValidPort = None THEN tweak
              ELSE MACTweakFlows(ValidPort, DiscoveredMAC, Family)

EnsureOVSFlowsCut ==
  /\ patch # None
  /\ \E done \in {{}, {"ip"}} : tweak' = MACTweakFlows(patch, DiscoveredMAC, done)

EnsureOVSFlowsFails ==
  \/ EnsureOVSFlowsCut /\ refreshOVSDiscovery
  \/ \* del-flows fails, which is only logged
     /\ patch # None /\ refreshOVSDiscovery
     /\ tweak' = AddTweakFlows(MACTweakFlows(patch, DiscoveredMAC, Family))
  \/ \* the discovery fails
     cachedPatch' = None /\ UNCHANGED <<cachedBridgeMAC, tweak>>
  \/ \* only the look at the cached port fails
     /\ patch # None
     /\ cachedPatch' = patch /\ cachedBridgeMAC' = bridgeMAC
     /\ tweak' = MACTweakFlows(patch, bridgeMAC, Family)

\* ReconcileOVSHairpinFlows: nothing without a discovered port, else all flows
\* are replaced, one by one.
ReconcileOVSHairpinFlows(routerMAC) ==
  hairpin' = IF cachedPatch = None THEN hairpin
             ELSE HairpinFlows(cachedPatch, cachedBridgeMAC, routerMAC)

ReconcileOVSHairpinFlowsCut(routerMAC) ==
  /\ cachedPatch # None
  /\ \E done \in SUBSET HairpinFlows(cachedPatch, cachedBridgeMAC, routerMAC) :
       hairpin' = done

ReconcileOVSHairpinFlowsFails(routerMAC) ==
  ReconcileOVSHairpinFlowsCut(routerMAC) \/ UNCHANGED hairpin

\* RemoveOVSFlows: the tweak flows first; if that fails the hairpin flows stay.
RemoveOVSFlows == tweak' = {} /\ hairpin' = {}

RemoveOVSFlowsCut == tweak' = {} /\ UNCHANGED hairpin

RemoveOVSFlowsFails == RemoveOVSFlowsCut \/ UNCHANGED flows

-----------------------------------------------------------------------------
(* br-ex, as ovn-controller and the operator change it *)

\* The patch port goes, comes back, or is recreated under another number.
PatchChanges(port) == port # patch /\ patch' = port /\ UNCHANGED bridgeMAC

MACChanges(mac) == mac # bridgeMAC /\ bridgeMAC' = mac /\ UNCHANGED patch

\* A restart of ovs-vswitchd.
FlowsLost == flows # <<{}, {}>> /\ tweak' = {} /\ hairpin' = {}
=============================================================================
