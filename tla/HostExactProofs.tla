-------------------------- MODULE HostExactProofs --------------------------
(***************************************************************************)
(* That the clean-up and the cycles of HostCycle leave exactly what they   *)
(* should, for every number of routers, networks and addresses and every   *)
(* configuration: what has been put right before each place of the job,    *)
(* as long as nothing fails and nobody interferes in it.                   *)
(***************************************************************************)
EXTENDS HostCycleProofs

LEMMA ConfigKept ==
  ASSUME [Next]_vars
  PROVE  cfg' = cfg
  <1>1. CASE Step
    BY <1>1, StepOutcome
  <1>2. CASE Start \/ Reconcile \/ Stop \/ Kill \/ UNCHANGED vars
    BY <1>2 DEF Start, Reconcile, Stop, Kill, vars
  <1>3. CASE Others
    BY <1>3 DEF Others, Move, DriftOVS, DriftLeak, DriftVeth, DriftPrefix, DriftTable, Drift
  <1> QED
    BY <1>1, <1>2, <1>3 DEF Next

-----------------------------------------------------------------------------
(* A feature that is not configured leaves nothing behind *)

FlowsGone      == tweak = {} /\ hairpin = {}
LeakGone       == ~veth /\ ~leakRoute /\ vrfRoutes = {} /\ leakRules = {}
ForwardingGone == vips = {} /\ nft = NoTable /\ dnat = {}

FeatureInv ==
  /\ job \in {"active", "passive"} => cfg.ovn
  /\ ~cfg.ovn => FlowsGone /\ bridge = {}
  /\ ~cfg.vethLeak => LeakGone
  /\ ~cfg.forwards => ForwardingGone

LEMMA BridgePlace ==
  ASSUME at \in DOMAIN Calls, ControlOK, Calls[at] = "EnsureBridge"
  PROVE  cfg.ovn
  <1>1. SUFFICES ASSUME ~cfg.ovn PROVE FALSE
    OBVIOUS
  <1>2. SetupCalls = <<"SetupVethLeak", "SetupPortForward">>
    BY <1>1, Zenon DEF SetupCalls
  <1>3. CleanupCalls = <<"ReconcileFRRPrefixList", "TeardownPortForward", "TeardownVethLeak">>
    BY <1>1, Zenon DEF CleanupCalls
  <1>4. CASE job = "setup"
    BY <1>2, <1>4 DEF Calls, CycleCalls
  <1>5. CASE job = "cleanup"
    BY <1>3, <1>5 DEF Calls, CycleCalls
  <1>6. CASE job \notin {"setup", "cleanup"}
    BY <1>6 DEF Calls, CycleCalls
  <1> QED
    BY <1>4, <1>5, <1>6

LEMMA FeatureStep ==
  ASSUME HostAssumption, HostInv, FeatureInv, [Next]_vars
  PROVE  FeatureInv'
  <1>0. cfg' = cfg /\ ControlOK
    BY ConfigKept DEF HostInv
  <1>1. job' \in {"active", "passive"} => cfg.ovn
    <2>1. CASE Step
      <3>1. Outcome
        BY <2>1, StepOutcome
      <3> QED
        BY <3>1 DEF Outcome, ReturnError, Proceed, Die, After, FeatureInv
    <2>2. CASE Start \/ Reconcile \/ Stop \/ Kill \/ UNCHANGED vars
      BY <2>2 DEF Start, Reconcile, Stop, Kill, vars, control, Begin, Die, FeatureInv
    <2>3. CASE Others
      BY <2>3 DEF Others, Move, DriftOVS, DriftLeak, DriftVeth, DriftPrefix, DriftTable, Drift,
                  control, FeatureInv
    <2> QED
      BY <2>1, <2>2, <2>3 DEF Next
  <1>2. ASSUME ~cfg.ovn PROVE FlowsGone'
    <2>0. FlowsGone
      BY <1>2 DEF FeatureInv
    <2>1. ~EnsureFlows /\ ~ReconcileHairpins /\ ~DriftOVS
      BY <1>0, <1>2, CallPlace
         DEF FeatureInv, EnsureFlows, ReconcileHairpins, DriftOVS, Call
    <2>2. CASE RemoveFlows
      BY <2>0, <2>2 DEF RemoveFlows, Call, RemoveOVSFlows, RemoveOVSFlowsFails,
                        RemoveOVSFlowsCut, flows, FlowsGone
    <2>3. CASE Start
      BY <2>0, <2>3 DEF Start, flows, FlowsGone
    <2>4. CASE UNCHANGED ovsVars
      BY <2>0, <2>4 DEF ovsVars, FlowsGone
    <2> QED
      BY <2>1, <2>2, <2>3, <2>4, OVSUntouched
  <1>3. ASSUME ~cfg.ovn PROVE bridge' = {}
    <2>0. bridge = {}
      BY <1>3 DEF FeatureInv
    <2>1. ~EnsureBridge
      BY <1>0, <1>3, BridgePlace DEF EnsureBridge, Call
    <2>2. CASE RemoveBridge
      BY <2>0, <2>2 DEF RemoveBridge, Call
    <2>3. CASE Setup
      BY <2>0, <2>1, <2>3
         DEF Setup, SetupVeth, SetupForward, SetupForwardWithoutVeth, Connect
    <2>4. CASE Cycle \/ Cleanup
      BY <2>0, <2>2, <2>4
         DEF Cycle, EnsureFlows, ReconcileHairpins, ReconcileLeak, ReconcilePrefixes,
             ReconcileForward, Cleanup, RemoveFlows, TeardownForward, TeardownVeth
    <2>5. CASE Start \/ Reconcile \/ Stop \/ Kill \/ UNCHANGED vars
      BY <2>0, <2>5 DEF Start, Reconcile, Stop, Kill, vars, host
    <2>6. CASE Others
      BY <2>0, <2>6 DEF Others, Move, host, DriftOVS, DriftLeak, DriftVeth, DriftPrefix,
                        DriftTable, Drift
    <2> QED
      BY <2>3, <2>4, <2>5, <2>6 DEF Next, Step
  <1>4. ASSUME ~cfg.vethLeak PROVE LeakGone'
    <2>0. LeakGone
      BY <1>4 DEF FeatureInv
    <2>1. CASE SetupVeth \/ ReconcileLeak \/ TeardownVeth
      BY <1>4, <2>0, <2>1
         DEF SetupVeth, ReconcileLeak, TeardownVeth, Call, leakVars, nets, LeakGone
    <2>2. ~DriftLeak /\ ~DriftVeth
      BY <2>0 DEF DriftLeak, DriftVeth, RouteLost, RuleLost, VethLost, LeakGone
    <2>3. CASE UNCHANGED leakVars
      BY <2>0, <2>3 DEF leakVars, LeakGone
    <2> QED
      BY <2>1, <2>2, <2>3, LeakUntouched
  <1>5. ASSUME ~cfg.forwards PROVE ForwardingGone'
    <2>0. ForwardingGone
      BY <1>5 DEF FeatureInv
    <2>1. CASE SetupForward \/ SetupForwardWithoutVeth \/ ReconcileForward \/ TeardownForward
      BY <1>5, <2>0, <2>1
         DEF SetupForward, SetupForwardWithoutVeth, ReconcileForward, TeardownForward, Call,
             forwardVars, ForwardingGone
    <2>2. CASE TeardownVeth \/ DriftVeth
      BY <2>0, <2>2 DEF TeardownVeth, DriftVeth, ForwardingGone
    <2>3. ~DriftTable
      BY <2>0 DEF DriftTable, TableLost, ForwardingGone
    <2>4. CASE UNCHANGED forwardVars
      BY <2>0, <2>4 DEF forwardVars, ForwardingGone
    <2> QED
      BY <2>1, <2>2, <2>3, <2>4, ForwardUntouched
  <1> QED
    BY <1>0, <1>1, <1>2, <1>3, <1>4, <1>5 DEF FeatureInv

-----------------------------------------------------------------------------
(* The clean-up *)

LEMMA CleanPlace ==
  ASSUME job = "cleanup"
  PROVE  /\ cfg.ovn => Calls = <<"ReconcileFRRPrefixList", "RemoveOVSFlows", "TeardownPortForward",
                                 "TeardownVethLeak", "RemoveBridgeIP">>
         /\ ~cfg.ovn => Calls = <<"ReconcileFRRPrefixList", "TeardownPortForward",
                                  "TeardownVethLeak">>
         /\ cfg.ovn => Len(Calls) = 5
         /\ ~cfg.ovn => Len(Calls) = 3
  <1>1. Calls = CleanupCalls
    BY DEF Calls, CycleCalls
  <1>2. ASSUME cfg.ovn
        PROVE  CleanupCalls =
                 <<"ReconcileFRRPrefixList", "RemoveOVSFlows", "TeardownPortForward",
                   "TeardownVethLeak", "RemoveBridgeIP">>
    BY <1>2, Zenon DEF CleanupCalls
  <1>3. ASSUME ~cfg.ovn
        PROVE  CleanupCalls =
                 <<"ReconcileFRRPrefixList", "TeardownPortForward", "TeardownVethLeak">>
    BY <1>3, Zenon DEF CleanupCalls
  <1> QED
    BY <1>1, <1>2, <1>3

\* What the calls of the clean-up before the k-th have taken away.
GoneBefore(k) ==
  /\ k > 1 => Listed = {}
  /\ k > 2 => FlowsGone
  /\ k > ForwardDown => ForwardingGone
  /\ k > ForwardDown + 1 => LeakGone
  /\ k > 5 => "ip" \notin bridge

CleanInv ==
  /\ since <= faults + drifts
  /\ job = "cleanup" /\ Smooth => GoneBefore(at)

\* A step of a smooth clean-up is a call that does what it should.
LEMMA CleanCall ==
  ASSUME HostAssumption, HostInv, FeatureInv, CleanInv, Step, job = "cleanup",
         since = faults' + drifts', job' = "cleanup" \/ exits' = exits,
         NEW k, k = at + 1
  PROVE  Proceed /\ GoneBefore(k)'
  <1>0. /\ ControlOK /\ at \in DOMAIN Calls /\ at \in Nat /\ cfg' = cfg
        /\ faults' = faults /\ drifts' = drifts /\ Smooth
    <2>1. ControlOK /\ at \in DOMAIN Calls /\ at \in Nat /\ cfg' = cfg /\ drifts' = drifts
      BY StepOutcome DEF HostInv, ControlOK
    <2>2. faults' = faults \/ faults' = faults + 1
      BY <2>1, TroubleOnlyGrows DEF Next
    <2> QED
      BY <2>1, <2>2 DEF CleanInv, ControlOK, Smooth
  <1>1. GoneBefore(at)
    BY <1>0 DEF CleanInv
  <1>2. /\ faults' # faults + 1
        /\ exits' = exits + 1 /\ Die => FALSE
        /\ Proceed \/ Die
    <2>1. Die => job' = "down"
      BY DEF Die
    <2> QED
      BY <1>0, <2>1, StepOutcome DEF ControlOK, Outcome, ReturnError
  <1>3. /\ ForwardDown \in {2, 3} /\ ForwardDown' = ForwardDown
        /\ ForwardDown = 2 <=> ~cfg.ovn
    BY <1>0 DEF ForwardDown, Shift
  <1>4. CASE ReconcilePrefixes
    <2>1. at = 1
      BY <1>0, <1>4, CallPlace DEF ReconcilePrefixes, Call
    <2>2. Proceed /\ ReconcileFRRPrefixList({})
      BY <1>0, <1>2, <1>4 DEF ReconcilePrefixes, Call
    <2>3. Listed' = {}
      BY <2>2 DEF ReconcileFRRPrefixList, Restrict, Listed
    <2> QED
      BY <1>3, <2>1, <2>2, <2>3 DEF GoneBefore
  <1>5. CASE RemoveFlows
    <2>1. at = 2 /\ cfg.ovn
      <3>1. Calls[at] = "RemoveOVSFlows"
        BY <1>5 DEF RemoveFlows, Call
      <3>2. at = 2
        BY <1>0, <3>1, CallPlace
      <3> QED
        BY <3>1, <3>2, CleanPlace
    <2>2. Proceed /\ FlowsGone' /\ Listed' = Listed
      BY <1>0, <1>2, <1>5 DEF RemoveFlows, Call, RemoveOVSFlows, FlowsGone, Listed
    <2> QED
      BY <1>1, <1>3, <2>1, <2>2 DEF GoneBefore
  <1>6. CASE TeardownForward
    <2>1. at = ForwardDown
      BY <1>0, <1>6, CallPlace DEF TeardownForward, Call, ForwardDown
    <2>2. Proceed /\ (TeardownPortForward \/ (~cfg.forwards /\ UNCHANGED forwardVars))
      BY <1>0, <1>2, <1>6 DEF TeardownForward, Call
    <2>3. ForwardingGone'
      BY <2>2 DEF TeardownPortForward, ForwardingGone, FeatureInv, forwardVars
    <2>4. FlowsGone' = FlowsGone /\ Listed' = Listed
      BY <1>6 DEF TeardownForward, flows, FlowsGone, Listed
    <2>5. FlowsGone
      BY <1>1, <1>3, <2>1 DEF GoneBefore, FeatureInv
    <2> QED
      BY <1>1, <1>3, <2>1, <2>2, <2>3, <2>4, <2>5 DEF GoneBefore
  <1>7. CASE TeardownVeth
    <2>1. at = ForwardDown + 1
      <3>1. at = 4 + Shift
        BY <1>0, <1>7, CallPlace DEF TeardownVeth, Call
      <3>2. Shift \in {0, -1}
        BY DEF Shift
      <3> QED
        BY <3>1, <3>2 DEF ForwardDown
    <2>2. Proceed /\ (TeardownVethLeak \/ (~cfg.vethLeak /\ UNCHANGED leakVars))
      BY <1>0, <1>2, <1>7 DEF TeardownVeth, Call
    <2>3. LeakGone'
      BY <2>2 DEF TeardownVethLeak, LeakGone, FeatureInv, leakVars
    <2>4. FlowsGone' = FlowsGone /\ Listed' = Listed
      BY <1>7 DEF TeardownVeth, flows, FlowsGone, Listed
    <2>5. FlowsGone /\ ForwardingGone /\ Listed = {}
      BY <1>1, <1>3, <2>1 DEF GoneBefore
    <2>6. ForwardingGone'
      BY <1>7, <2>5 DEF TeardownVeth, ForwardingGone
    <2> QED
      BY <1>3, <2>1, <2>2, <2>3, <2>4, <2>5, <2>6 DEF GoneBefore
  <1>8. CASE RemoveBridge
    <2>1. at = 5
      BY <1>0, <1>8, CallPlace DEF RemoveBridge, Call
    <2>2. Proceed /\ "ip" \notin bridge'
      BY <1>0, <1>2, <1>8 DEF RemoveBridge, Call
    <2>3. /\ FlowsGone' = FlowsGone /\ Listed' = Listed /\ LeakGone' = LeakGone
          /\ ForwardingGone' = ForwardingGone
      BY <1>8 DEF RemoveBridge, flows, leakVars, forwardVars, FlowsGone, Listed, LeakGone,
                  ForwardingGone
    <2> QED
      BY <1>1, <1>3, <2>1, <2>2, <2>3 DEF GoneBefore
  <1>9. ~Setup /\ ~EnsureFlows /\ ~ReconcileHairpins /\ ~ReconcileLeak /\ ~ReconcileForward
    <2>1. Calls[at] \in {"ReconcileFRRPrefixList", "RemoveOVSFlows", "TeardownPortForward",
                         "TeardownVethLeak", "RemoveBridgeIP"}
      <3>1. CASE cfg.ovn
        BY <1>0, <3>1, CleanPlace
      <3>2. CASE ~cfg.ovn
        BY <1>0, <3>2, CleanPlace
      <3> QED
        BY <3>1, <3>2
    <2> QED
      BY <2>1 DEF Setup, EnsureBridge, SetupVeth, SetupForward, SetupForwardWithoutVeth,
                  Connect, EnsureFlows, ReconcileHairpins, ReconcileLeak, ReconcileForward, Call
  <1> QED
    BY <1>4, <1>5, <1>6, <1>7, <1>8, <1>9 DEF Step, Cycle, Cleanup

LEMMA CleanInvStep ==
  ASSUME HostAssumption, HostInv, FeatureInv, CleanInv, [Next]_vars
  PROVE  CleanInv'
  <1>0. ControlOK /\ cfg' = cfg
    BY ConfigKept DEF HostInv
  <1>1. since' <= faults' + drifts'
    <2>1. since' = since \/ since' = faults' + drifts' \/ since' = 0
      <3>1. CASE Step
        BY <3>1, StepOutcome DEF Outcome, ReturnError, Proceed, Die
      <3>2. CASE Start \/ Reconcile \/ Stop \/ Kill \/ UNCHANGED vars
        BY <3>2 DEF Start, Reconcile, Stop, Kill, vars, control, counters, Begin, Die
      <3>3. CASE Others
        BY <3>3 DEF Others, Move, DriftOVS, DriftLeak, DriftVeth, DriftPrefix, DriftTable, Drift,
                    control
      <3> QED
        BY <3>1, <3>2, <3>3 DEF Next
    <2>2. faults' >= faults /\ drifts' >= drifts
      BY <1>0, TroubleOnlyGrows, DriftCounts DEF ControlOK
    <2>3. {faults, drifts, since, faults', drifts', since'} \subseteq Nat
      BY <1>0, ControlStep DEF ControlOK
    <2>4. since <= faults + drifts
      BY DEF CleanInv
    <2> QED
      BY <2>1, <2>2, <2>3, <2>4
  <1>2. ASSUME job' = "cleanup", Smooth' PROVE GoneBefore(at)'
    <2>1. CASE Step
      <3>1. job = "cleanup" /\ (Proceed => since' = since)
        BY <1>2, <2>1, StepOutcome DEF Outcome, ReturnError, Proceed, Die, After
      <3>2. since' = since
        BY <1>2, <2>1, StepOutcome DEF Outcome, ReturnError, Proceed, Die
      <3>3. PICK k : k = at + 1
        OBVIOUS
      <3>4. Proceed /\ GoneBefore(k)'
        BY <1>2, <2>1, <3>1, <3>2, <3>3, CleanCall DEF Smooth
      <3>5. at' = k
        BY <1>2, <3>3, <3>4 DEF Proceed, After
      <3> QED
        BY <3>4, <3>5 DEF GoneBefore
    <2>2. CASE Stop
      <3>1. at' = 1
        BY <1>2, <2>2 DEF Stop, Begin, Die
      <3> QED
        BY <1>0, <3>1 DEF GoneBefore, ForwardDown, Shift
    <2>3. CASE Start \/ Reconcile \/ Kill
      BY <1>2, <2>3 DEF Start, Reconcile, Kill, Begin, Die
    <2>4. CASE (\E routers \in SUBSET Router : Move(routers)) \/ UNCHANGED vars
      BY <1>0, <1>2, <2>4
         DEF Move, vars, host, control, counters, CleanInv, Smooth, GoneBefore, Listed,
             FlowsGone, ForwardDown, Shift, ForwardingGone, LeakGone, flows, leakVars, forwardVars
    <2>5. CASE Drift
      BY <1>0, <1>2, <2>5 DEF Drift, control, Smooth, CleanInv, ControlOK
    <2> QED
      BY <2>1, <2>2, <2>3, <2>4, <2>5
         DEF Next, Others, DriftOVS, DriftLeak, DriftVeth, DriftPrefix, DriftTable
  <1> QED
    BY <1>1, <1>2 DEF CleanInv

(***************************************************************************)
(* For every configuration, and whatever earlier lives, failed calls and   *)
(* other hands have left: a clean-up in which no call fails and nobody     *)
(* interferes leaves nothing behind (cleanup, agent.go).                   *)
(***************************************************************************)
THEOREM CleanUpComplete ==
  Spec => CleanShutdown
  <1>1. Init => FeatureInv /\ CleanInv
    BY DEF Init, OVSInit, LeakInit, ForwardInit, FeatureInv, CleanInv, FlowsGone, LeakGone,
           ForwardingGone
  <1>2. HostInv /\ FeatureInv /\ CleanInv /\ [Next]_vars => FeatureInv' /\ CleanInv'
    BY FeatureStep, CleanInvStep, HostAssumption
  <1>3. ASSUME HostInv, FeatureInv, CleanInv, [Next]_vars,
               job = "cleanup", job' = "down", exits' = exits, since = faults' + drifts'
        PROVE  Removed'
    <2>1. Step
      BY <1>3 DEF Next, Start, Reconcile, Stop, Kill, Others, Move, DriftOVS, DriftLeak, DriftVeth,
                  DriftPrefix, DriftTable, Drift, Begin, control, vars, HostInv, ControlOK
    <2>2. PICK k : k = at + 1
      OBVIOUS
    <2>3. Proceed /\ GoneBefore(k)' /\ FeatureInv'
      BY <1>3, <2>1, <2>2, CleanCall, FeatureStep, HostAssumption
    <2>4. at = Len(Calls)
      BY <1>3, <2>3 DEF Proceed
    <2>5. cfg' = cfg
      BY <1>3, ConfigKept
    <2>6. CASE cfg.ovn
      <3>1. Len(Calls) = 5
        BY <1>3, <2>6, CleanPlace
      <3>2. k = 6
        BY <2>2, <2>4, <3>1
      <3>3. ForwardDown' = 3
        BY <2>5, <2>6 DEF ForwardDown, Shift
      <3> QED
        BY <2>3, <3>2, <3>3 DEF GoneBefore, Removed, FlowsGone, LeakGone, ForwardingGone
    <2>7. CASE ~cfg.ovn
      <3>1. Len(Calls) = 3
        BY <1>3, <2>7, CleanPlace
      <3>2. k = 4
        BY <2>2, <2>4, <3>1
      <3>3. ForwardDown' = 2 /\ ~cfg'.ovn
        BY <2>5, <2>7 DEF ForwardDown, Shift
      <3> QED
        BY <2>3, <3>2, <3>3
           DEF GoneBefore, FeatureInv, Removed, FlowsGone, LeakGone, ForwardingGone
    <2> QED
      BY <2>6, <2>7
  <1>4. HostInv /\ FeatureInv /\ CleanInv /\ [Next]_vars =>
          [job = "cleanup" /\ job' = "down" /\ exits' = exits /\ since = faults' + drifts'
             => Removed']_vars
    BY <1>3
  <1> QED
    BY <1>1, <1>2, <1>4, HostInvariant, PTL DEF Spec, CleanShutdown

-----------------------------------------------------------------------------
(* The cycles *)

LEMMA WantKept ==
  ASSUME cfg' = cfg, local' = local
  PROVE  /\ WantedNets(local)' = WantedNets(local) /\ Ruleset(local)' = Ruleset(local)
         /\ hairpinMACMap(local)' = hairpinMACMap(local)
  <1>1. effectiveFilters(local)' = effectiveFilters(local)
    BY DEF effectiveFilters, LRPNetworks
  <1>2. NATIPs(local)' = NATIPs(local)
    BY <1>1 DEF NATIPs
  <1>3. SNATIPs(local)' = SNATIPs(local)
    BY <1>2 DEF SNATIPs
  <1>4. WantedNets(local)' = WantedNets(local)
    BY <1>1 DEF WantedNets
  <1>5. Ruleset(local)' = Ruleset(local)
    BY <1>1, <1>3 DEF Ruleset
  <1>6. hairpinMACMap(local)' = hairpinMACMap(local)
    BY <1>2 DEF hairpinMACMap
  <1> QED
    BY <1>4, <1>5, <1>6

FlowsFound ==
  /\ cachedPatch = patch
  /\ patch # None => tweak = MACTweakFlows(patch, cachedBridgeMAC, Family)

HairpinExact ==
  cachedPatch # None =>
    hairpin = HairpinFlows(cachedPatch, cachedBridgeMAC, hairpinMACMap(local))

\* What each call of a cycle is there for.
Holds(call) ==
  /\ call = "EnsureOVSFlows" => FlowsFound
  /\ call = "ReconcileOVSHairpinFlows" => HairpinExact
  /\ call = "ReconcileVethLeakNetworks" => LeakExact
  /\ call = "ReconcileFRRPrefixList" => PrefixExact
  /\ call = "ReconcilePortForward" => ForwardExact

Cycles == {"active", "passive", "forward"}

CycleInv ==
  /\ job = "passive" => local = {}
  /\ job = "forward" => ~cfg.ovn
  /\ Smooth /\ job \in Cycles => \A i \in 1 .. at - 1 : Holds(Calls[i])
  /\ CycleExact

\* A call does what it is there for, and leaves alone what an earlier one did.
LEMMA CycleCall ==
  ASSUME HostAssumption, HostInv, CleanInv, CycleInv, Step, Proceed, job \in Cycles, Smooth'
  PROVE  Smooth /\ \A c : (\E i \in 1 .. at : c = Calls[i]) => Holds(c)'
  <1>0. /\ ControlOK /\ at \in DOMAIN Calls /\ at \in Nat /\ cfg' = cfg /\ local' = local
        /\ faults' = faults /\ patch' = patch /\ Smooth
    <2>1. ControlOK /\ at \in DOMAIN Calls /\ at \in Nat /\ cfg' = cfg /\ drifts' = drifts
          /\ local' = local /\ since' = since /\ patch' = patch
      BY StepOutcome DEF HostInv, ControlOK, Proceed
    <2>2. faults' = faults \/ faults' = faults + 1
      BY <2>1, TroubleOnlyGrows DEF Next
    <2>3. since <= faults + drifts
      BY DEF CleanInv
    <2> QED
      BY <2>1, <2>2, <2>3 DEF ControlOK, Smooth
  <1>1. faults' # faults + 1 /\ ~Die
    <2>1. job' # "down"
      BY DEF Proceed, After, Cycles
    <2> QED
      BY <1>0, <2>1 DEF ControlOK, Die
  <1>2. /\ WantedNets(local)' = WantedNets(local) /\ Ruleset(local)' = Ruleset(local)
        /\ hairpinMACMap(local)' = hairpinMACMap(local)
    BY <1>0, WantKept
  <1>3. \A i \in 1 .. at - 1 : Holds(Calls[i])
    BY <1>0 DEF CycleInv
  <1>4. CASE EnsureFlows
    <2>1. at = 1 /\ Calls[at] = "EnsureOVSFlows"
      BY <1>0, <1>4, CallPlace DEF EnsureFlows, Call
    <2>2. EnsureOVSFlows
      BY <1>1, <1>4 DEF EnsureFlows, Call
    <2>3. FlowsFound'
      BY <1>0, <2>2 DEF EnsureOVSFlows, refreshOVSDiscovery, ValidPort, FlowsFound
    <2>4. \A c : (\E i \in 1 .. at : c = Calls[i]) => c = "EnsureOVSFlows"
      BY <2>1
    <2> QED
      BY <1>0, <2>3, <2>4 DEF Holds
  <1>5. SUFFICES ASSUME ~EnsureFlows, NEW c, Holds(c) \/ c = Calls[at]
                 PROVE  Holds(c)'
    <2>1. \A c, i : i \in 1 .. at /\ c = Calls[i] => Holds(c) \/ c = Calls[at]
      BY <1>0, <1>3
    <2> QED
      BY <1>0, <1>4, <2>1
  <1>6. CASE ReconcileHairpins
    <2>1. Calls[at] = "ReconcileOVSHairpinFlows"
      BY <1>6 DEF ReconcileHairpins, Call
    <2>2. ReconcileOVSHairpinFlows(hairpinMACMap(local)) /\ UNCHANGED <<discovery, tweak>>
      BY <1>1, <1>6 DEF ReconcileHairpins, Call
    <2>3. HairpinExact' /\ FlowsFound' = FlowsFound
      BY <1>0, <1>2, <2>2 DEF ReconcileOVSHairpinFlows, discovery, HairpinExact, FlowsFound
    <2>4. UNCHANGED <<leakVars, prefixes, forwardVars>>
      BY <1>6 DEF ReconcileHairpins
    <2>5. LeakExact' = LeakExact /\ PrefixExact' = PrefixExact /\ ForwardExact' = ForwardExact
      BY <1>0, <1>2, <2>4
         DEF LeakExact, PrefixExact, ForwardExact, Listed, leakVars, forwardVars
    <2> QED
      BY <1>5, <2>1, <2>3, <2>5 DEF Holds
  <1>7. CASE ReconcileLeak
    <2>1. Calls[at] = "ReconcileVethLeakNetworks"
      BY <1>7 DEF ReconcileLeak, Call
    <2>2. /\ cfg.vethLeak => ReconcileVethLeakNetworks(WantedNets(local))
          /\ UNCHANGED <<veth, discovery, flows, prefixes, forwardVars>>
      BY <1>1, <1>7 DEF ReconcileLeak, Call
    <2>3. LeakExact'
      BY <1>0, <1>2, <2>2 DEF ReconcileVethLeakNetworks, LeakExact
    <2>4. /\ FlowsFound' = FlowsFound /\ HairpinExact' = HairpinExact
          /\ PrefixExact' = PrefixExact /\ ForwardExact' = ForwardExact
      BY <1>0, <1>2, <2>2
         DEF FlowsFound, HairpinExact, PrefixExact, ForwardExact, Listed, discovery, flows,
             forwardVars
    <2> QED
      BY <1>5, <2>1, <2>3, <2>4 DEF Holds
  <1>8. CASE ReconcilePrefixes
    <2>1. Calls[at] = "ReconcileFRRPrefixList" /\ job # "cleanup"
      BY <1>8 DEF ReconcilePrefixes, Call, Cycles
    <2>2. /\ ReconcileFRRPrefixList(WantedNets(local))
          /\ UNCHANGED <<discovery, flows, leakVars, forwardVars>>
      BY <1>1, <1>8, <2>1 DEF ReconcilePrefixes, Call
    <2>3. PrefixExact'
      BY <1>2, <2>2 DEF ReconcileFRRPrefixList, Restrict, Listed, PrefixExact
    <2>4. /\ FlowsFound' = FlowsFound /\ HairpinExact' = HairpinExact
          /\ LeakExact' = LeakExact /\ ForwardExact' = ForwardExact
      BY <1>0, <1>2, <2>2
         DEF FlowsFound, HairpinExact, LeakExact, ForwardExact, discovery, flows, leakVars,
             forwardVars
    <2> QED
      BY <1>5, <2>1, <2>3, <2>4 DEF Holds
  <1>9. CASE ReconcileForward
    <2>1. Calls[at] = "ReconcilePortForward"
      BY <1>9 DEF ReconcileForward, Call
    <2>2. /\ cfg.forwards =>
               ApplyPortForward(Ruleset(local),
                                DNATRouting \ (IF veth THEN {} ELSE {"reply route"}))
          /\ UNCHANGED <<discovery, flows, leakVars, prefixes>>
      BY <1>1, <1>9 DEF ReconcileForward, Call
    <2>3. ForwardExact'
      BY <1>0, <1>2, <2>2 DEF ApplyPortForward, ForwardExact, DNATRouting, leakVars
    <2>4. /\ FlowsFound' = FlowsFound /\ HairpinExact' = HairpinExact
          /\ LeakExact' = LeakExact /\ PrefixExact' = PrefixExact
      BY <1>0, <1>2, <2>2
         DEF FlowsFound, HairpinExact, LeakExact, PrefixExact, Listed, discovery, flows, leakVars
    <2> QED
      BY <1>5, <2>1, <2>3, <2>4 DEF Holds
  <1>10. ~Setup /\ ~Cleanup
    <2>1. job \notin {"setup", "cleanup"}
      BY DEF Cycles
    <2>2. Calls[at] \notin {"EnsureBridge", "Connect"}
      BY <1>0 DEF Calls, CycleCalls, Cycles
    <2> QED
      BY <1>0, <2>1, <2>2, CallPlace
         DEF Setup, EnsureBridge, SetupVeth, SetupForward, SetupForwardWithoutVeth, Connect,
             Cleanup, RemoveFlows, TeardownForward, TeardownVeth, RemoveBridge, Call
  <1> QED
    BY <1>5, <1>6, <1>7, <1>8, <1>9, <1>10 DEF Step, Cycle

\* What the calls of a whole cycle add up to.
LEMMA CycleDone ==
  ASSUME FeatureInv, CycleInv, job \in Cycles, cfg' = cfg, local' = local,
         \A c : (\E i \in 1 .. Len(Calls) : c = Calls[i]) => Holds(c)'
  PROVE  /\ cfg.ovn => FlowsExact' /\ LeakExact' /\ PrefixExact'
         /\ ForwardExact'
  <1>1. CASE job = "active"
    <2>1. Calls = <<"EnsureOVSFlows", "ReconcileOVSHairpinFlows", "ReconcileVethLeakNetworks",
                    "ReconcileFRRPrefixList", "ReconcilePortForward">>
      BY <1>1 DEF Calls, CycleCalls
    <2>2. \A c \in {"EnsureOVSFlows", "ReconcileOVSHairpinFlows", "ReconcileVethLeakNetworks",
                   "ReconcileFRRPrefixList", "ReconcilePortForward"} : Holds(c)'
      BY <2>1
    <2> QED
      BY <2>1, <2>2 DEF Holds, FlowsFound, HairpinExact, FlowsExact
  <1>2. CASE job = "passive"
    <2>1. Calls = <<"ReconcileVethLeakNetworks", "ReconcileFRRPrefixList",
                    "ReconcileOVSHairpinFlows", "ReconcilePortForward">>
      BY <1>2 DEF Calls, CycleCalls
    <2>2. local' = {}
      BY <1>2 DEF CycleInv
    <2> QED
      BY <2>1, <2>2 DEF Holds, HairpinExact, FlowsExact
  <1>3. CASE job = "forward"
    <2>1. Calls = <<"ReconcilePortForward">>
      BY <1>3 DEF Calls, CycleCalls
    <2>2. ~cfg.ovn
      BY <1>3 DEF CycleInv
    <2> QED
      BY <2>1, <2>2 DEF Holds
  <1> QED
    BY <1>1, <1>2, <1>3 DEF Cycles

LEMMA CycleInvStep ==
  ASSUME HostAssumption, HostInv, FeatureInv, CleanInv, CycleInv, [Next]_vars
  PROVE  CycleInv'
  <1>0. ControlOK /\ cfg' = cfg
    BY ConfigKept DEF HostInv
  <1>1. CASE Step
    <2>0. Outcome /\ at \in DOMAIN Calls
      BY <1>1, StepOutcome
    <2>1. CASE Proceed /\ job \in Cycles
      <3>0. local' = local /\ (at = Len(Calls) => job' = "idle") /\ (job' = job \/ job' = "idle")
            /\ (job' = job /\ job' # "idle" => at' = at + 1)
        BY <2>1 DEF Proceed, After, Cycles
      <3>1. Smooth' => \A c : (\E i \in 1 .. at : c = Calls[i]) => Holds(c)'
        BY <1>1, <2>1, CycleCall
      <3>2. CASE job' = "idle"
        <4>1. at = Len(Calls)
          BY <2>1, <3>2 DEF Proceed, Cycles
        <4>2. Smooth' => CycleExact'
          BY <1>0, <2>1, <3>0, <3>1, <4>1, CycleDone DEF CycleExact
        <4> QED
          BY <3>2, <4>2 DEF CycleInv, CycleExact, Cycles
      <3>3. CASE job' = job /\ job' # "idle"
        <4>1. Calls' = Calls
          BY <1>0, <2>1, <3>3 DEF Calls, CycleCalls, Cycles
        <4>2. at' = at + 1 /\ at \in Nat
          BY <1>0, <3>0, <3>3 DEF ControlOK
        <4>3. Smooth' => \A i \in 1 .. at' - 1 : Holds(Calls[i])'
          BY <3>1, <4>1, <4>2 DEF Holds
        <4> QED
          BY <1>0, <3>0, <3>3, <4>3 DEF CycleInv, CycleExact
      <3> QED
        BY <3>0, <3>2, <3>3
    <2>2. CASE Die
      BY <2>2 DEF Die, CycleInv, CycleExact, Cycles
    <2>3. CASE Proceed /\ job \notin Cycles
      <3>1. job \in {"setup", "cleanup"}
        BY <1>0, <2>0, <2>3 DEF ControlOK, Jobs, Cycles, Calls, CycleCalls
      <3>2. job' \in {"setup", "cleanup", "ready", "down"}
        BY <2>3, <3>1 DEF Proceed, After
      <3> QED
        BY <3>2 DEF CycleInv, CycleExact, Cycles
    <2> QED
      BY <2>0, <2>1, <2>2, <2>3 DEF Outcome, ReturnError
  <1>2. CASE Start \/ Stop \/ Kill
    BY <1>2 DEF Start, Stop, Kill, Begin, Die, CycleInv, CycleExact, Cycles
  <1>3. CASE Reconcile
    <2>1. /\ at' = 1 /\ job' # "idle" /\ local' = IF cfg.ovn THEN active ELSE {}
          /\ job' = CASE ~cfg.ovn -> "forward" [] cfg.ovn /\ active # {} -> "active"
                       [] OTHER -> "passive"
      BY <1>3 DEF Reconcile, Begin
    <2>2. (job' = "passive" => local' = {}) /\ (job' = "forward" => ~cfg.ovn)
      BY <2>1
    <2> QED
      BY <1>0, <2>1, <2>2 DEF CycleInv, CycleExact
  <1>4. CASE (\E routers \in SUBSET Router : Move(routers)) \/ UNCHANGED vars
    <2>1. UNCHANGED <<host, control>> /\ faults' = faults /\ drifts' = drifts
      BY <1>4 DEF Move, vars, counters
    <2>2. /\ WantedNets(local)' = WantedNets(local) /\ Ruleset(local)' = Ruleset(local)
          /\ hairpinMACMap(local)' = hairpinMACMap(local)
      BY <1>0, <2>1, WantKept DEF control
    <2>3. /\ FlowsFound' = FlowsFound /\ HairpinExact' = HairpinExact
          /\ LeakExact' = LeakExact /\ PrefixExact' = PrefixExact /\ ForwardExact' = ForwardExact
          /\ FlowsExact' = FlowsExact
      BY <1>0, <2>1, <2>2
         DEF FlowsFound, HairpinExact, LeakExact, PrefixExact, ForwardExact, FlowsExact, Listed,
             host, leakVars, forwardVars, control
    <2>4. Calls' = Calls
      BY <1>0, <2>1 DEF Calls, CycleCalls, SetupCalls, CleanupCalls, control
    <2>5. \A i : Holds(Calls[i])' = Holds(Calls[i])
      BY <2>3, <2>4 DEF Holds
    <2>6. (CycleExact' = CycleExact) /\ (Smooth' = Smooth)
      BY <1>0, <2>1, <2>3 DEF CycleExact, Smooth, control
    <2> QED
      BY <1>0, <2>1, <2>5, <2>6 DEF CycleInv, control
  <1>5. CASE Drift
    <2>1. ~Smooth' /\ UNCHANGED control
      BY <1>0, <1>5 DEF Drift, Smooth, CleanInv, ControlOK, control
    <2> QED
      BY <1>0, <2>1 DEF CycleInv, CycleExact, control
  <1> QED
    BY <1>1, <1>2, <1>3, <1>4, <1>5
       DEF Next, Others, DriftOVS, DriftLeak, DriftVeth, DriftPrefix, DriftTable

(***************************************************************************)
(* For any routers, networks, addresses and configurations, and from       *)
(* whatever state failures, kills, moves and other hands have left: a      *)
(* cycle without trouble leaves exactly what its copy of OVNState asks for *)
(* (reconcile, agent.go).                                                  *)
(***************************************************************************)
THEOREM CyclesExact ==
  Spec => []CycleExact
  <1>1. Init => FeatureInv /\ CleanInv /\ CycleInv
    BY DEF Init, OVSInit, LeakInit, ForwardInit, FeatureInv, CleanInv, FlowsGone, LeakGone,
           ForwardingGone, CycleInv, CycleExact, Cycles
  <1>2. HostInv /\ FeatureInv /\ CleanInv /\ CycleInv /\ [Next]_vars =>
          FeatureInv' /\ CleanInv' /\ CycleInv'
    BY FeatureStep, CleanInvStep, CycleInvStep, HostAssumption
  <1>3. CycleInv => CycleExact
    BY DEF CycleInv
  <1> QED
    BY <1>1, <1>2, <1>3, HostInvariant, PTL DEF Spec
=============================================================================
