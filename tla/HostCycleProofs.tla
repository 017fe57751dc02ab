-------------------------- MODULE HostCycleProofs --------------------------
(***************************************************************************)
(* What HostCycle promises for every number of routers, networks and       *)
(* addresses, every configuration and every bound.                         *)
(***************************************************************************)
EXTENDS HostCycle, FiniteSetTheorems, TLAPS

-----------------------------------------------------------------------------
(* The prefix list *)

\* A new number is above every number there is.
LEMMA NumbersAbove ==
  ASSUME PrefixTypeOK(Net), NEW missing \in SUBSET Net, IsFiniteSet(missing),
         NEW f \in NewNumbers(missing)
  PROVE  /\ DOMAIN f = missing /\ f \in [missing -> Nat] /\ IsInjective(f)
         /\ \A n \in missing, s \in Numbers : s < f[n]
  <1>1. Numbers \subseteq Nat
    BY DEF PrefixTypeOK, Numbers, Range, Listed
  <1>2. PICK max \in {m \in Numbers \cup {0} : \A s \in Numbers : s <= m} :
          f \in {g \in [missing -> {max + 5 * i : i \in 1 .. Cardinality(missing)}] :
                   IsInjective(g)}
    BY DEF NewNumbers
  <1>3. Cardinality(missing) \in Nat
    BY FS_CardinalityType
  <1>4. max \in Nat /\ \A s \in Numbers : s <= max
    BY <1>1, <1>2
  <1>5. \A k \in {max + 5 * i : i \in 1 .. Cardinality(missing)} : k \in Nat /\ k > max
    BY <1>3, <1>4
  <1> QED
    BY <1>1, <1>2, <1>4, <1>5

\* What With adds keeps the numbers apart.
LEMMA WithDistinct ==
  ASSUME PrefixTypeOK(Net), NumbersDistinct, NEW missing \in SUBSET Net,
         IsFiniteSet(missing), missing \cap Listed = {}, NEW new \in NewNumbers(missing)
  PROVE  /\ DOMAIN With(new) = Listed \cup missing
         /\ With(new) \in [Listed \cup missing -> Nat] /\ IsInjective(With(new))
  <1> DEFINE w == With(new)
  <1>1. /\ DOMAIN new = missing /\ new \in [missing -> Nat] /\ IsInjective(new)
        /\ \A n \in missing, s \in Numbers : s < new[n]
    BY NumbersAbove
  <1>2. /\ w = [n \in Listed \cup missing |-> IF n \in Listed THEN prefixes[n] ELSE new[n]]
        /\ prefixes \in [Listed -> Nat]
    BY <1>1 DEF With, PrefixTypeOK
  <1>3. \A m, n \in Listed \cup missing : w[m] = w[n] => m = n
    <2> SUFFICES ASSUME NEW m \in Listed \cup missing, NEW n \in Listed \cup missing,
                        w[m] = w[n]
                 PROVE  m = n
      OBVIOUS
    <2>1. \A k \in Listed : w[k] = prefixes[k] /\ prefixes[k] \in Numbers /\ w[k] \in Nat
      BY <1>2 DEF Numbers, Range, Listed
    <2>2. \A k \in missing : w[k] = new[k] /\ w[k] \in Nat
      BY <1>1, <1>2
    <2>3. CASE m \in Listed /\ n \in Listed
      BY <2>1, <2>3 DEF NumbersDistinct, IsInjective, Listed
    <2>4. CASE m \in missing /\ n \in missing
      BY <1>1, <2>2, <2>4 DEF IsInjective
    <2>5. CASE m \in Listed /\ n \in missing
      BY <1>1, <2>1, <2>2, <2>5
    <2>6. CASE m \in missing /\ n \in Listed
      BY <1>1, <2>1, <2>2, <2>6
    <2> QED
      BY <2>3, <2>4, <2>5, <2>6
  <1>4. w \in [Listed \cup missing -> Nat]
    BY <1>1, <1>2
  <1> QED
    BY <1>2, <1>3, <1>4 DEF IsInjective

\* Nor does taking entries out bring two numbers together.
LEMMA RestrictDistinct ==
  ASSUME NEW S, NEW f \in [S -> Nat], IsInjective(f), NEW T \in SUBSET S
  PROVE  DOMAIN Restrict(f, T) = T /\ Restrict(f, T) \in [T -> Nat] /\ IsInjective(Restrict(f, T))
  BY DEF Restrict, IsInjective

LEMMA PrefixStep ==
  ASSUME PrefixTypeOK(Net), NumbersDistinct, NEW want \in SUBSET Net, IsFiniteSet(Net),
         ReconcileFRRPrefixList(want) \/ ReconcileFRRPrefixListCut(want)
  PROVE  /\ PrefixTypeOK(Net)' /\ NumbersDistinct'
         /\ \/ Listed \subseteq Listed' /\ Listed' \subseteq Listed \cup want
            \/ want \subseteq Listed' /\ Listed' \subseteq Listed \cup want
  <1>1. \A S \in SUBSET Net : IsFiniteSet(S)
    BY FS_Subset
  <1>2. CASE ReconcileFRRPrefixList(want)
    <2>1. PICK new \in NewNumbers(want \ Listed) : prefixes' = Restrict(With(new), want)
      BY <1>2 DEF ReconcileFRRPrefixList
    <2>2. /\ With(new) \in [Listed \cup want -> Nat] /\ IsInjective(With(new))
      BY <1>1, WithDistinct, Listed \cup (want \ Listed) = Listed \cup want
    <2>3. /\ DOMAIN prefixes' = want /\ prefixes' \in [want -> Nat] /\ IsInjective(prefixes')
      BY <2>1, <2>2, RestrictDistinct
    <2> QED
      BY <2>3 DEF PrefixTypeOK, NumbersDistinct, Listed
  <1>3. CASE \E some \in SUBSET (want \ Listed) : \E new \in NewNumbers(some) :
               prefixes' = With(new)
    <2>0. PICK some \in SUBSET (want \ Listed) : \E new \in NewNumbers(some) :
            prefixes' = With(new)
      BY <1>3
    <2>1. PICK new \in NewNumbers(some) : prefixes' = With(new)
      BY <2>0
    <2>2. /\ DOMAIN prefixes' = Listed \cup some
          /\ prefixes' \in [Listed \cup some -> Nat] /\ IsInjective(prefixes')
      BY <1>1, <2>1, WithDistinct
    <2> QED
      BY <2>1, <2>2 DEF PrefixTypeOK, NumbersDistinct, Listed
  <1>4. CASE \E new \in NewNumbers(want \ Listed), stale \in SUBSET (Listed \ want) :
               prefixes' = Restrict(With(new), want \cup stale)
    <2>1. PICK new \in NewNumbers(want \ Listed), stale \in SUBSET (Listed \ want) :
            prefixes' = Restrict(With(new), want \cup stale)
      BY <1>4
    <2>2. /\ With(new) \in [Listed \cup want -> Nat] /\ IsInjective(With(new))
      BY <1>1, WithDistinct, Listed \cup (want \ Listed) = Listed \cup want
    <2>3. /\ DOMAIN prefixes' = want \cup stale
          /\ prefixes' \in [want \cup stale -> Nat] /\ IsInjective(prefixes')
      BY <2>1, <2>2, RestrictDistinct
    <2> QED
      BY <2>1, <2>3 DEF PrefixTypeOK, NumbersDistinct, Listed
  <1> QED
    BY <1>2, <1>3, <1>4 DEF ReconcileFRRPrefixListCut

-----------------------------------------------------------------------------
(* Types of the other components, call by call *)

LEMMA MapType ==
  ASSUME HostAssumption, cfg \in Config, NEW routers \in SUBSET Router
  PROVE  /\ hairpinMACMap(routers) \in [DOMAIN hairpinMACMap(routers) -> Router]
         /\ DOMAIN hairpinMACMap(routers) \subseteq IP
         /\ effectiveFilters(routers) \subseteq Net /\ WantedNets(routers) \subseteq Net
         /\ SNATIPs(routers) \subseteq IP /\ cfg.networkCIDR \subseteq Net
  BY DEF HostAssumption, hairpinMACMap, NATIPs, effectiveFilters, LRPNetworks, WantedNets,
         SNATIPs

LEMMA EnsureFlowsType ==
  ASSUME PatchAssumption, OVSTypeOK(IP, Router),
         EnsureOVSFlows \/ EnsureOVSFlowsFails \/ (EnsureOVSFlowsCut /\ UNCHANGED discovery),
         UNCHANGED <<bridgePort, hairpin>>
  PROVE  OVSTypeOK(IP, Router)'
  <1>1. patch # None => DiscoveredMAC \in MAC /\ patch.ofport \in Ofport
    BY DEF OVSTypeOK, DiscoveredMAC, ValidPort, bridgePort, Ofport
  <1>2. \A m \in MAC, fs \in SUBSET Family : patch # None =>
          MACTweakFlows(patch, m, fs) \subseteq [family : Family, ofport : Ofport, mac : MAC]
    BY <1>1 DEF MACTweakFlows
  <1>3. patch # None =>
          AddTweakFlows(MACTweakFlows(patch, DiscoveredMAC, Family))
            \subseteq [family : Family, ofport : Ofport, mac : MAC]
    BY <1>1, <1>2 DEF AddTweakFlows, OVSTypeOK
  <1>4. {} \subseteq Family /\ {"ip"} \subseteq Family
    BY DEF Family
  <1>5. tweak' \subseteq [family : Family, ofport : Ofport, mac : MAC]
    <2>1. CASE EnsureOVSFlows
      BY <2>1, <1>1, <1>2 DEF EnsureOVSFlows, OVSTypeOK, ValidPort
    <2>2. CASE EnsureOVSFlowsCut
      BY <2>2, <1>1, <1>2, <1>4 DEF EnsureOVSFlowsCut
    <2>3. CASE EnsureOVSFlowsFails
      BY <2>2, <2>3, <1>2, <1>3 DEF EnsureOVSFlowsFails, OVSTypeOK
    <2> QED
      BY <2>1, <2>2, <2>3
  <1>6. /\ cachedPatch' \in PatchPort \cup {None} /\ cachedBridgeMAC' \in MAC \cup {None}
        /\ cachedPatch' # None => cachedBridgeMAC' \in MAC
    <2>1. CASE refreshOVSDiscovery
      BY <2>1, <1>1 DEF refreshOVSDiscovery, ValidPort, OVSTypeOK
    <2>2. CASE UNCHANGED discovery
      BY <2>2 DEF discovery, OVSTypeOK
    <2>3. CASE EnsureOVSFlowsFails /\ ~refreshOVSDiscovery
      BY <2>3 DEF EnsureOVSFlowsFails, OVSTypeOK
    <2> QED
      BY <2>1, <2>2, <2>3 DEF EnsureOVSFlows
  <1> QED
    BY <1>5, <1>6 DEF OVSTypeOK, bridgePort

LEMMA HairpinType ==
  ASSUME PatchAssumption, OVSTypeOK(IP, Router), NEW routerMAC, DOMAIN routerMAC \subseteq IP,
         routerMAC \in [DOMAIN routerMAC -> Router],
         \/ ReconcileOVSHairpinFlows(routerMAC) \/ ReconcileOVSHairpinFlowsFails(routerMAC)
         \/ ReconcileOVSHairpinFlowsCut(routerMAC),
         UNCHANGED <<bridgePort, discovery, tweak>>
  PROVE  OVSTypeOK(IP, Router)'
  <1>1. cachedPatch # None =>
          HairpinFlows(cachedPatch, cachedBridgeMAC, routerMAC)
            \subseteq [ip : IP, ofport : Ofport, src : MAC, dst : Router]
    BY DEF HairpinFlows, OVSTypeOK, Ofport
  <1>2. hairpin' \subseteq [ip : IP, ofport : Ofport, src : MAC, dst : Router]
    BY <1>1 DEF ReconcileOVSHairpinFlows, ReconcileOVSHairpinFlowsFails,
                ReconcileOVSHairpinFlowsCut, OVSTypeOK
  <1> QED
    BY <1>2 DEF OVSTypeOK, bridgePort, discovery

LEMMA RemoveFlowsType ==
  ASSUME OVSTypeOK(IP, Router), RemoveOVSFlows \/ RemoveOVSFlowsFails \/ RemoveOVSFlowsCut,
         UNCHANGED <<bridgePort, discovery>>
  PROVE  OVSTypeOK(IP, Router)'
  BY DEF OVSTypeOK, bridgePort, discovery, flows, RemoveOVSFlows, RemoveOVSFlowsFails,
         RemoveOVSFlowsCut

\* What a call of ReconcileVethLeakNetworks, or its part in the setup, does to the
\* two tables: make before break.
MadeFirst(t, u, want) ==
  u \subseteq t \cup want /\ (t \subseteq u \/ want \subseteq u)

LEMMA AddingMadeFirst ==
  ASSUME NEW want, AddingNetworks(want)
  PROVE  MadeFirst(vrfRoutes, vrfRoutes', want) /\ MadeFirst(leakRules, leakRules', want)
  BY DEF AddingNetworks, MadeFirst

LEMMA ReconcileLeakMadeFirst ==
  ASSUME NEW want,
         \/ ReconcileVethLeakNetworks(want) \/ ReconcileVethLeakNetworksFails(want)
         \/ ReconcileVethLeakNetworksCut(want) \/ UNCHANGED nets
  PROVE  MadeFirst(vrfRoutes, vrfRoutes', want) /\ MadeFirst(leakRules, leakRules', want)
  <1>1. CASE DeletingNetworks(want) \/ Leftovers(want)
    BY <1>1 DEF DeletingNetworks, Leftovers, MadeFirst
  <1>2. CASE ReconcileVethLeakNetworks(want) \/ UNCHANGED nets
    BY <1>2 DEF ReconcileVethLeakNetworks, nets, MadeFirst
  <1> QED
    BY <1>1, <1>2, AddingMadeFirst
       DEF ReconcileVethLeakNetworksFails, ReconcileVethLeakNetworksCut

LEMMA SetupLeakMadeFirst ==
  ASSUME NEW manual,
         SetupVethLeak(manual) \/ SetupVethLeakFails(manual) \/ SetupVethLeakCut(manual)
         \/ UNCHANGED leakVars
  PROVE  MadeFirst(vrfRoutes, vrfRoutes', manual) /\ MadeFirst(leakRules, leakRules', manual)
  <1>1. CASE AddingNetworks(manual)
    BY <1>1, AddingMadeFirst
  <1>2. CASE DeletingNetworks(manual) \/ UNCHANGED nets \/ UNCHANGED leakVars
    BY <1>2 DEF DeletingNetworks, MadeFirst, nets, leakVars
  <1>3. CASE SetupVethLeak(manual)
    BY <1>3 DEF SetupVethLeak, MadeFirst, nets
  <1> QED
    BY <1>1, <1>2, <1>3 DEF SetupVethLeakFails, SetupVethLeakCut

\* After a setup that got through the pair is there, and no setup takes it away.
LEMMA SetupLeakType ==
  ASSUME LeakTypeOK(Net), NEW manual \in SUBSET Net,
         SetupVethLeak(manual) \/ SetupVethLeakFails(manual) \/ SetupVethLeakCut(manual)
         \/ UNCHANGED leakVars
  PROVE  LeakTypeOK(Net)' /\ (veth => veth') /\ (SetupVethLeak(manual) => veth')
  <1>1. vrfRoutes' \subseteq Net /\ leakRules' \subseteq Net
    BY SetupLeakMadeFirst DEF LeakTypeOK, MadeFirst
  <1>2. veth' \in {veth, TRUE} /\ leakRoute' \in {leakRoute, TRUE}
    BY DEF SetupVethLeak, SetupVethLeakFails, SetupVethLeakCut, leakVars
  <1>3. LeakTypeOK(Net)'
    BY <1>1, <1>2 DEF LeakTypeOK
  <1>4. veth => veth'
    BY <1>2
  <1>5. SetupVethLeak(manual) => veth'
    BY DEF SetupVethLeak
  <1> QED
    BY <1>3, <1>4, <1>5

LEMMA TeardownLeakType ==
  ASSUME LeakTypeOK(Net),
         TeardownVethLeak \/ TeardownVethLeakFails \/ TeardownVethLeakCut \/ UNCHANGED leakVars
  PROVE  /\ LeakTypeOK(Net)' /\ leakRules' \subseteq leakRules /\ vrfRoutes' \subseteq vrfRoutes
         /\ TeardownVethLeakCut => veth' = veth
  BY DEF TeardownVethLeak, TeardownVethLeakFails, TeardownVethLeakCut, leakVars, LeakTypeOK

LEMMA RulesetType ==
  ASSUME HostAssumption, cfg \in Config, NEW routers \in SUBSET Router
  PROVE  /\ Ruleset(routers) \in [accept : SUBSET Net, hairpin : SUBSET Net, router : SUBSET IP]
         /\ InitialRuleset \in [accept : SUBSET Net, hairpin : SUBSET Net, router : SUBSET IP]
  BY MapType DEF Ruleset, InitialRuleset, buildNftRuleset

\* Forwarding is set up or taken down only by calls.
LEMMA ForwardType ==
  ASSUME ForwardTypeOK(Net, IP), NEW routing \in SUBSET DNATRouting,
         NEW table \in [accept : SUBSET Net, hairpin : SUBSET Net, router : SUBSET IP],
         \/ ApplyPortForward(table, routing) \/ ApplyPortForwardCut(table)
         \/ TeardownPortForward \/ TeardownPortForwardFails \/ TeardownPortForwardCut
         \/ UNCHANGED forwardVars
  PROVE  ForwardTypeOK(Net, IP)'
  <1>1. \A r \in DNATStages : r \subseteq DNATRouting
    BY DEF DNATStages, DNATRouting
  <1>2. CASE ApplyPortForward(table, routing)
    BY <1>2 DEF ApplyPortForward, ForwardTypeOK
  <1>3. CASE ApplyPortForwardCut(table)
    BY <1>1, <1>3 DEF ApplyPortForwardCut, ApplyPortForward, ForwardTypeOK
  <1>4. CASE TeardownPortForward \/ TeardownPortForwardFails \/ TeardownPortForwardCut
    BY <1>4 DEF TeardownPortForward, TeardownPortForwardFails, TeardownPortForwardCut,
                ForwardTypeOK
  <1> QED
    BY <1>2, <1>3, <1>4 DEF forwardVars, ForwardTypeOK

-----------------------------------------------------------------------------
(* The main goroutine *)

\* How a call can end.
Outcome ==
  \/ Proceed /\ UNCHANGED <<faults, exits>>
  \/ faults' = faults + 1 /\ ReturnError /\ UNCHANGED exits
  \/ exits' = exits + 1 /\ Die /\ UNCHANGED faults
  \/ Die /\ UNCHANGED <<faults, exits>>

LEMMA StepOutcome ==
  ASSUME Step
  PROVE  /\ Outcome /\ at \in DOMAIN Calls
         /\ UNCHANGED <<cfg, active, patch, bridgeMAC, moves, drifts>>
  <1>1. CASE Setup
    BY <1>1 DEF Setup, EnsureBridge, SetupVeth, SetupForward, SetupForwardWithoutVeth, Connect,
                Call, Outcome, bridgePort, counters
  <1>2. CASE Cycle
    BY <1>2 DEF Cycle, EnsureFlows, ReconcileHairpins, ReconcileLeak, ReconcilePrefixes,
                ReconcileForward, Call, Outcome, bridgePort
  <1>3. CASE Cleanup
    BY <1>3 DEF Cleanup, RemoveFlows, TeardownForward, TeardownVeth, RemoveBridge, Call, Outcome,
                bridgePort
  <1> QED
    BY <1>1, <1>2, <1>3 DEF Step

LEMMA CallsLength ==
  DOMAIN Calls = 1 .. Len(Calls) /\ Len(Calls) \in 0 .. 5
  <1>1. \A s \in {SetupCalls, CleanupCalls, CycleCalls.active, CycleCalls.passive,
                  CycleCalls.forward, <<>>} : DOMAIN s = 1 .. Len(s) /\ Len(s) \in 0 .. 5
    BY DEF SetupCalls, CleanupCalls, CycleCalls
  <1>2. DOMAIN CycleCalls = {"active", "passive", "forward"}
    BY DEF CycleCalls
  <1> QED
    BY <1>1, <1>2 DEF Calls

ControlOK ==
  /\ cfg \in Config /\ active \subseteq Router /\ job \in Jobs /\ at \in 1 .. 5
  /\ local \subseteq Router /\ since \in Nat /\ faults \in Nat /\ moves \in Nat
  /\ drifts \in Nat /\ exits \in Nat

LEMMA ControlStep ==
  ASSUME ControlOK, [Next]_vars
  PROVE  ControlOK'
  <1> USE DEF ControlOK
  <1>1. CASE Step
    <2>1. Outcome /\ at \in DOMAIN Calls /\ UNCHANGED <<cfg, active, moves, drifts>>
      BY <1>1, StepOutcome
    <2>2. CASE Proceed
      <3>1. at' \in 1 .. 5
        <4> DEFINE n == Len(Calls)
        <4>1. n \in 0 .. 5 /\ at \in 1 .. n
          BY <2>1, CallsLength
        <4>2. IF at = n THEN at' = 1 ELSE at' = at + 1
          BY <2>2 DEF Proceed
        <4> HIDE DEF n
        <4> QED
          BY <4>1, <4>2
      <3>2. job' \in Jobs
        BY <2>2 DEF Proceed, After, Jobs
      <3>3. faults' \in Nat /\ exits' \in Nat
        BY <2>1 DEF Outcome
      <3> QED
        BY <2>1, <2>2, <3>1, <3>2, <3>3 DEF Proceed
    <2>3. CASE Die
      BY <2>1, <2>3 DEF Outcome, Proceed, ReturnError, Die, Jobs
    <2> QED
      BY <2>1, <2>2, <2>3 DEF Outcome, ReturnError
  <1>2. CASE Start \/ Reconcile \/ Stop \/ Kill
    BY <1>2 DEF Start, Reconcile, Stop, Kill, Begin, Die, Jobs, counters
  <1>3. CASE \E routers \in SUBSET Router : Move(routers)
    BY <1>3 DEF Move, control
  <1>5. CASE Drift
    BY <1>5 DEF Drift, control
  <1>4. CASE UNCHANGED vars
    BY <1>4 DEF vars, control, counters
  <1> QED
    BY <1>1, <1>2, <1>3, <1>4, <1>5
       DEF Next, Others, DriftOVS, DriftLeak, DriftVeth, DriftPrefix, DriftTable

-----------------------------------------------------------------------------
(* What each part of the host sees of a step *)

ovsVars == <<patch, bridgeMAC, cachedPatch, cachedBridgeMAC, tweak, hairpin>>

LEMMA OVSUntouched ==
  ASSUME [Next]_vars, ~EnsureFlows, ~ReconcileHairpins, ~RemoveFlows, ~Start, ~DriftOVS
  PROVE  UNCHANGED ovsVars
  <1> USE DEF ovsVars, bridgePort, discovery, flows
  <1>1. CASE Step
    <2>1. UNCHANGED bridgePort
      BY <1>1, StepOutcome
    <2>2. CASE Setup
      BY <2>1, <2>2 DEF Setup, EnsureBridge, SetupVeth, SetupForward, SetupForwardWithoutVeth,
                        Connect
    <2>3. CASE Cycle \/ Cleanup
      BY <2>1, <2>3 DEF Cycle, ReconcileLeak, ReconcilePrefixes, ReconcileForward, Cleanup,
                        TeardownForward, TeardownVeth, RemoveBridge
    <2> QED
      BY <1>1, <2>2, <2>3 DEF Step
  <1>2. CASE Reconcile \/ Stop \/ Kill \/ UNCHANGED vars
    BY <1>2 DEF Reconcile, Stop, Kill, vars, host
  <1>3. CASE \E routers \in SUBSET Router : Move(routers)
    BY <1>3 DEF Move, host
  <1>4. CASE DriftLeak \/ DriftVeth \/ DriftPrefix \/ DriftTable
    BY <1>4 DEF DriftLeak, DriftVeth, DriftPrefix, DriftTable, Drift
  <1> QED
    BY <1>1, <1>2, <1>3, <1>4 DEF Next, Others

LEMMA OVSStep ==
  ASSUME HostAssumption, PatchAssumption, ControlOK, OVSTypeOK(IP, Router), [Next]_vars
  PROVE  OVSTypeOK(IP, Router)'
  <1>1. CASE EnsureFlows
    <2>1. UNCHANGED <<bridgePort, hairpin>>
      BY <1>1 DEF EnsureFlows, Call
    <2>2. EnsureOVSFlows \/ EnsureOVSFlowsFails \/ (EnsureOVSFlowsCut /\ UNCHANGED discovery)
      BY <1>1 DEF EnsureFlows, Call
    <2> QED
      BY <2>1, <2>2, EnsureFlowsType
  <1>2. CASE ReconcileHairpins
    <2> DEFINE macs == hairpinMACMap(local)
    <2>1. UNCHANGED <<bridgePort, discovery, tweak>>
      BY <1>2 DEF ReconcileHairpins, Call
    <2>2. \/ ReconcileOVSHairpinFlows(macs) \/ ReconcileOVSHairpinFlowsFails(macs)
          \/ ReconcileOVSHairpinFlowsCut(macs)
      BY <1>2 DEF ReconcileHairpins, Call
    <2>3. DOMAIN macs \subseteq IP /\ macs \in [DOMAIN macs -> Router]
      BY MapType DEF ControlOK
    <2> QED
      BY <2>1, <2>2, <2>3, HairpinType
  <1>3. CASE RemoveFlows
    <2>1. UNCHANGED <<bridgePort, discovery>>
      BY <1>3 DEF RemoveFlows, Call
    <2>2. RemoveOVSFlows \/ RemoveOVSFlowsFails \/ RemoveOVSFlowsCut
      BY <1>3 DEF RemoveFlows, Call
    <2> QED
      BY <2>1, <2>2, RemoveFlowsType
  <1>4. CASE Start
    BY <1>4 DEF Start, OVSTypeOK, bridgePort, flows
  <1>5. CASE DriftOVS
    BY <1>5 DEF DriftOVS, Drift, PatchChanges, MACChanges, FlowsLost, OVSTypeOK, bridgePort,
                discovery, flows
  <1>6. CASE UNCHANGED ovsVars
    BY <1>6 DEF OVSTypeOK, ovsVars
  <1> QED
    BY <1>1, <1>2, <1>3, <1>4, <1>5, <1>6, OVSUntouched

LEMMA LeakUntouched ==
  ASSUME [Next]_vars, ~SetupVeth, ~ReconcileLeak, ~TeardownVeth, ~DriftLeak, ~DriftVeth
  PROVE  UNCHANGED leakVars
  <1>1. CASE Step
    <2>1. CASE Setup
      BY <2>1 DEF Setup, EnsureBridge, SetupForward, SetupForwardWithoutVeth, Connect, leakVars
    <2>2. CASE Cycle \/ Cleanup
      BY <2>2 DEF Cycle, EnsureFlows, ReconcileHairpins, ReconcilePrefixes, ReconcileForward,
                  Cleanup, RemoveFlows, TeardownForward, RemoveBridge, leakVars
    <2> QED
      BY <1>1, <2>1, <2>2 DEF Step
  <1>2. CASE Start \/ Reconcile \/ Stop \/ Kill \/ UNCHANGED vars
    BY <1>2 DEF Start, Reconcile, Stop, Kill, vars, host
  <1>3. CASE \E routers \in SUBSET Router : Move(routers)
    BY <1>3 DEF Move, host
  <1>4. CASE DriftOVS \/ DriftPrefix \/ DriftTable
    BY <1>4 DEF DriftOVS, DriftPrefix, DriftTable
  <1> QED
    BY <1>1, <1>2, <1>3, <1>4 DEF Next, Others

LEMMA PrefixUntouched ==
  ASSUME [Next]_vars, ~ReconcilePrefixes, ~DriftPrefix
  PROVE  UNCHANGED prefixes
  <1>1. CASE Step
    <2>1. CASE Setup
      BY <2>1 DEF Setup, EnsureBridge, SetupVeth, SetupForward, SetupForwardWithoutVeth, Connect
    <2>2. CASE Cycle \/ Cleanup
      BY <2>2 DEF Cycle, EnsureFlows, ReconcileHairpins, ReconcileLeak, ReconcileForward,
                  Cleanup, RemoveFlows, TeardownForward, TeardownVeth, RemoveBridge
    <2> QED
      BY <1>1, <2>1, <2>2 DEF Step
  <1>2. CASE Start \/ Reconcile \/ Stop \/ Kill \/ UNCHANGED vars
    BY <1>2 DEF Start, Reconcile, Stop, Kill, vars, host
  <1>3. CASE \E routers \in SUBSET Router : Move(routers)
    BY <1>3 DEF Move, host
  <1>4. CASE DriftOVS \/ DriftLeak \/ DriftVeth \/ DriftTable
    BY <1>4 DEF DriftOVS, DriftLeak, DriftVeth, DriftTable
  <1> QED
    BY <1>1, <1>2, <1>3, <1>4 DEF Next, Others

LEMMA ForwardUntouched ==
  ASSUME [Next]_vars, ~SetupForward, ~SetupForwardWithoutVeth, ~ReconcileForward,
         ~TeardownForward, ~TeardownVeth, ~DriftVeth, ~DriftTable
  PROVE  UNCHANGED forwardVars
  <1>1. CASE Step
    <2>1. CASE Setup
      BY <2>1 DEF Setup, EnsureBridge, SetupVeth, Connect
    <2>2. CASE Cycle \/ Cleanup
      BY <2>2 DEF Cycle, EnsureFlows, ReconcileHairpins, ReconcileLeak, ReconcilePrefixes,
                  Cleanup, RemoveFlows, RemoveBridge
    <2> QED
      BY <1>1, <2>1, <2>2 DEF Step
  <1>2. CASE Start \/ Reconcile \/ Stop \/ Kill \/ UNCHANGED vars
    BY <1>2 DEF Start, Reconcile, Stop, Kill, vars, host, forwardVars
  <1>3. CASE \E routers \in SUBSET Router : Move(routers)
    BY <1>3 DEF Move, host
  <1>4. CASE DriftOVS \/ DriftLeak \/ DriftPrefix
    BY <1>4 DEF DriftOVS, DriftLeak, DriftPrefix
  <1> QED
    BY <1>1, <1>2, <1>3, <1>4 DEF Next, Others

-----------------------------------------------------------------------------
(* Make before break *)

\* The port-forward-only plans lack a call.
Shift == IF cfg.ovn THEN 0 ELSE -1

\* Which job a call belongs to, and when.
LEMMA CallPlace ==
  ASSUME at \in DOMAIN Calls, ControlOK
  PROVE  /\ Calls[at] = "SetupVethLeak" => job = "setup" /\ at = 2 + Shift
         /\ Calls[at] = "SetupPortForward" => job = "setup" /\ at = 3 + Shift
         /\ Calls[at] = "EnsureOVSFlows" => job = "active" /\ at = 1
         /\ Calls[at] = "ReconcileOVSHairpinFlows" =>
              \/ job = "active" /\ at = 2
              \/ job = "passive" /\ at = 3
         /\ Calls[at] = "ReconcileVethLeakNetworks" =>
              \/ job = "active" /\ at = 3
              \/ job = "passive" /\ at = 1
         /\ Calls[at] = "ReconcileFRRPrefixList" =>
              \/ job = "active" /\ at = 4
              \/ job = "passive" /\ at = 2
              \/ job = "cleanup" /\ at = 1
         /\ Calls[at] = "ReconcilePortForward" =>
              job \in {"active", "passive", "forward"} /\ at = Len(Calls)
         /\ Calls[at] = "RemoveOVSFlows" => job = "cleanup" /\ at = 2
         /\ Calls[at] = "TeardownPortForward" =>
              job = "cleanup" /\ at = 3 + Shift
         /\ Calls[at] = "TeardownVethLeak" =>
              job = "cleanup" /\ at = 4 + Shift
         /\ Calls[at] = "RemoveBridgeIP" => job = "cleanup" /\ at = 5
  <1>0. DOMAIN CycleCalls = {"active", "passive", "forward"}
    BY DEF CycleCalls
  <1>1. CASE job = "setup"
    <2>0. Calls = SetupCalls
      BY <1>0, <1>1 DEF Calls
    <2>1. CASE cfg.ovn
      <3>1. SetupCalls = <<"EnsureBridge", "SetupVethLeak", "SetupPortForward", "Connect">>
        BY <2>1, Zenon DEF SetupCalls
      <3>2. Shift = 0
        BY <2>1 DEF Shift
      <3> QED
        BY <1>1, <2>0, <3>1, <3>2
    <2>2. CASE ~cfg.ovn
      <3>1. SetupCalls = <<"SetupVethLeak", "SetupPortForward">>
        BY <2>2, Zenon DEF SetupCalls
      <3>2. Shift = -1
        BY <2>2 DEF Shift
      <3> QED
        BY <1>1, <2>0, <3>1, <3>2
    <2> QED
      BY <2>1, <2>2
  <1>2. CASE job = "cleanup"
    <2>0. Calls = CleanupCalls
      BY <1>0, <1>2 DEF Calls
    <2>1. CASE cfg.ovn
      <3>1. CleanupCalls =
              <<"ReconcileFRRPrefixList", "RemoveOVSFlows", "TeardownPortForward",
                "TeardownVethLeak", "RemoveBridgeIP">>
        BY <2>1, Zenon DEF CleanupCalls
      <3>2. Shift = 0
        BY <2>1 DEF Shift
      <3> QED
        BY <1>2, <2>0, <3>1, <3>2
    <2>2. CASE ~cfg.ovn
      <3>1. CleanupCalls =
              <<"ReconcileFRRPrefixList", "TeardownPortForward", "TeardownVethLeak">>
        BY <2>2, Zenon DEF CleanupCalls
      <3>2. Shift = -1
        BY <2>2 DEF Shift
      <3> QED
        BY <1>2, <2>0, <3>1, <3>2
    <2> QED
      BY <2>1, <2>2
  <1>3. CASE job = "active"
    BY <1>3 DEF Calls, CycleCalls
  <1>4. CASE job = "passive"
    BY <1>4 DEF Calls, CycleCalls
  <1>5. CASE job = "forward"
    BY <1>5 DEF Calls, CycleCalls
  <1>6. CASE job \in {"down", "ready", "idle"}
    BY <1>6 DEF Calls, CycleCalls
  <1> QED
    BY <1>1, <1>2, <1>3, <1>4, <1>5, <1>6 DEF ControlOK, Jobs

\* No other hands: the step is made first.  Other hands: something may be gone.
LEMMA LeakStep ==
  ASSUME HostAssumption, ControlOK, LeakTypeOK(Net), [Next]_vars
  PROVE  /\ LeakTypeOK(Net)'
         /\ drifts' = drifts => /\ MadeFirst(vrfRoutes, vrfRoutes', Wanted)
                                /\ MadeFirst(leakRules, leakRules', Wanted)
         /\ drifts' # drifts => vrfRoutes' \subseteq vrfRoutes /\ leakRules' \subseteq leakRules
  <1>0. local \subseteq Router /\ cfg \in Config /\ drifts \in Nat
    BY DEF ControlOK
  <1>1. CASE SetupVeth
    <2>1. job = "setup" /\ drifts' = drifts
      BY <1>1, CallPlace DEF SetupVeth, Call
    <2>2. Wanted = cfg.networkCIDR /\ cfg.networkCIDR \subseteq Net
      BY <1>0, <2>1, MapType DEF Wanted
    <2>3. \/ SetupVethLeak(Wanted) \/ SetupVethLeakFails(Wanted) \/ SetupVethLeakCut(Wanted)
          \/ UNCHANGED leakVars
      BY <1>1, <2>2 DEF SetupVeth, Call
    <2> QED
      BY <2>1, <2>2, <2>3, SetupLeakMadeFirst, SetupLeakType
  <1>2. CASE ReconcileLeak
    <2>1. job \in {"active", "passive"} /\ drifts' = drifts /\ UNCHANGED <<veth, leakRoute>>
      BY <1>2, CallPlace DEF ReconcileLeak, Call
    <2>2. Wanted = WantedNets(local) /\ WantedNets(local) \subseteq Net
      BY <1>0, <2>1, MapType DEF Wanted
    <2>3. \/ ReconcileVethLeakNetworks(Wanted) \/ ReconcileVethLeakNetworksFails(Wanted)
          \/ ReconcileVethLeakNetworksCut(Wanted) \/ UNCHANGED nets
      BY <1>2, <2>2 DEF ReconcileLeak, Call
    <2>4. MadeFirst(vrfRoutes, vrfRoutes', Wanted) /\ MadeFirst(leakRules, leakRules', Wanted)
      BY <2>3, ReconcileLeakMadeFirst
    <2> QED
      BY <2>1, <2>2, <2>4 DEF LeakTypeOK, MadeFirst
  <1>3. CASE TeardownVeth
    <2>1. job = "cleanup" /\ drifts' = drifts
      BY <1>3, CallPlace DEF TeardownVeth, Call
    <2>2. Wanted = {}
      BY <2>1 DEF Wanted
    <2>3. TeardownVethLeak \/ TeardownVethLeakFails \/ TeardownVethLeakCut \/ UNCHANGED leakVars
      BY <1>3 DEF TeardownVeth, Call
    <2> QED
      BY <2>1, <2>2, <2>3, TeardownLeakType DEF MadeFirst
  <1>4. CASE DriftLeak \/ DriftVeth
    <2>1. drifts' = drifts + 1
      BY <1>4 DEF DriftLeak, DriftVeth, Drift
    <2>2. /\ vrfRoutes' \subseteq vrfRoutes /\ leakRules' \subseteq leakRules
          /\ veth' \in {veth, FALSE} /\ leakRoute' \in {leakRoute, FALSE}
      BY <1>4 DEF DriftLeak, DriftVeth, RouteLost, RuleLost, VethLost
    <2>3. drifts' # drifts
      BY <1>0, <2>1
    <2>4. LeakTypeOK(Net)'
      BY <2>2, Zenon DEF LeakTypeOK
    <2> QED
      BY <2>2, <2>3, <2>4
  <1>5. CASE UNCHANGED leakVars
    BY <1>5 DEF LeakTypeOK, leakVars, MadeFirst
  <1> QED
    BY <1>1, <1>2, <1>3, <1>4, <1>5, LeakUntouched

LEMMA PrefixListStep ==
  ASSUME HostAssumption, ControlOK, PrefixTypeOK(Net), NumbersDistinct, [Next]_vars
  PROVE  /\ PrefixTypeOK(Net)' /\ NumbersDistinct'
         /\ drifts' = drifts => MadeFirst(Listed, Listed', Wanted)
         /\ drifts' # drifts => Listed' \subseteq Listed
  <1>1. CASE ReconcilePrefixes
    <2> DEFINE want == IF job = "cleanup" THEN {} ELSE WantedNets(local)
    <2>1. drifts' = drifts /\ job \in {"active", "passive", "cleanup"}
      BY <1>1, CallPlace DEF ReconcilePrefixes, Call
    <2>2. Wanted = want /\ Wanted \subseteq Net
      BY <2>1, MapType DEF Wanted, ControlOK
    <2>3. ReconcileFRRPrefixList(Wanted) \/ ReconcileFRRPrefixListCut(Wanted)
      BY <1>1, <2>2 DEF ReconcilePrefixes, Call
    <2> QED
      BY <2>1, <2>2, <2>3, PrefixStep DEF HostAssumption, MadeFirst
  <1>2. CASE DriftPrefix
    <2>1. drifts' # drifts
      BY <1>2 DEF DriftPrefix, Drift, ControlOK
    <2>2. PICK n \in Net : prefixes' = Restrict(prefixes, Listed \ {n})
      BY <1>2 DEF DriftPrefix, PrefixLost
    <2>3. /\ DOMAIN prefixes' = Listed \ {n} /\ prefixes' \in [Listed \ {n} -> Nat]
          /\ IsInjective(prefixes')
      BY <2>2, RestrictDistinct DEF PrefixTypeOK, NumbersDistinct
    <2> QED
      BY <2>1, <2>3 DEF PrefixTypeOK, NumbersDistinct, Listed
  <1>3. CASE UNCHANGED prefixes
    BY <1>3 DEF PrefixTypeOK, NumbersDistinct, Listed, MadeFirst
  <1> QED
    BY <1>1, <1>2, <1>3, PrefixUntouched

LEMMA ForwardTypeStep ==
  ASSUME HostAssumption, ControlOK, ForwardTypeOK(Net, IP), [Next]_vars
  PROVE  ForwardTypeOK(Net, IP)'
  <1>0. /\ Ruleset(local) \in [accept : SUBSET Net, hairpin : SUBSET Net, router : SUBSET IP]
        /\ InitialRuleset \in [accept : SUBSET Net, hairpin : SUBSET Net, router : SUBSET IP]
    BY RulesetType DEF ControlOK
  <1>1. CASE SetupForward \/ SetupForwardWithoutVeth
    <2>1. \E routing \in SUBSET DNATRouting :
            \/ ApplyPortForward(InitialRuleset, routing) \/ ApplyPortForwardCut(InitialRuleset)
            \/ UNCHANGED forwardVars
      BY <1>1 DEF SetupForward, SetupForwardWithoutVeth, Call
    <2> QED
      BY <1>0, <2>1, ForwardType
  <1>2. CASE ReconcileForward
    <2> DEFINE routing == DNATRouting \ (IF veth THEN {} ELSE {"reply route"})
    <2>1. \/ ApplyPortForward(Ruleset(local), routing) \/ ApplyPortForwardCut(Ruleset(local))
          \/ UNCHANGED forwardVars
      BY <1>2 DEF ReconcileForward, Call
    <2> QED
      BY <1>0, <2>1, ForwardType, routing \in SUBSET DNATRouting
  <1>3. CASE TeardownForward
    <2>1. \/ TeardownPortForward \/ TeardownPortForwardFails \/ TeardownPortForwardCut
          \/ UNCHANGED forwardVars
      BY <1>3 DEF TeardownForward, Call
    <2> QED
      BY <1>0, <2>1, ForwardType
  <1>4. CASE TeardownVeth \/ DriftVeth \/ DriftTable
    <2>1. vips' = vips /\ nft' \in {nft, NoTable} /\ dnat' \subseteq dnat
      BY <1>4 DEF TeardownVeth, DriftVeth, DriftTable, TableLost
    <2> QED
      BY <2>1 DEF ForwardTypeOK
  <1>5. CASE UNCHANGED forwardVars
    BY <1>5 DEF forwardVars, ForwardTypeOK
  <1> QED
    BY <1>1, <1>2, <1>3, <1>4, <1>5, ForwardUntouched

LEMMA BridgeStep ==
  ASSUME bridge \subseteq {"ip", "proxy_arp"}, [Next]_vars
  PROVE  bridge' \subseteq {"ip", "proxy_arp"}
  <1>1. CASE EnsureBridge \/ RemoveBridge
    BY <1>1 DEF EnsureBridge, RemoveBridge, Call
  <1>2. CASE UNCHANGED bridge
    BY <1>2
  <1>3. CASE Setup
    BY <1>1, <1>2, <1>3 DEF Setup, SetupVeth, SetupForward, SetupForwardWithoutVeth, Connect
  <1>4. CASE Cycle \/ Cleanup
    BY <1>1, <1>2, <1>4
       DEF Cycle, EnsureFlows, ReconcileHairpins, ReconcileLeak, ReconcilePrefixes,
           ReconcileForward, Cleanup, RemoveFlows, TeardownForward, TeardownVeth
  <1>5. CASE Start \/ Reconcile \/ Stop \/ Kill \/ UNCHANGED vars
    BY <1>2, <1>5 DEF Start, Reconcile, Stop, Kill, vars, host
  <1>6. CASE Others
    BY <1>2, <1>6 DEF Others, Move, host, DriftOVS, DriftLeak, DriftVeth, DriftPrefix,
                      DriftTable, Drift
  <1> QED
    BY <1>3, <1>4, <1>5, <1>6 DEF Next, Step

\* The type, part by part, with the numbers of the prefix list, without which the
\* prefix list would not stay a list of numbers.
HostInv ==
  /\ ControlOK /\ bridge \subseteq {"ip", "proxy_arp"}
  /\ OVSTypeOK(IP, Router) /\ LeakTypeOK(Net) /\ PrefixTypeOK(Net) /\ ForwardTypeOK(Net, IP)
  /\ NumbersDistinct

LEMMA HostInvStep ==
  ASSUME HostAssumption, PatchAssumption, HostInv, [Next]_vars
  PROVE  HostInv'
  BY ControlStep, BridgeStep, OVSStep, LeakStep, PrefixListStep, ForwardTypeStep DEF HostInv

LEMMA HostInvInit ==
  ASSUME HostAssumption, PatchAssumption, Init
  PROVE  HostInv
  <1>1. ControlOK
    BY DEF Init, ControlOK, Jobs
  <1>2. OVSTypeOK(IP, Router)
    BY DEF Init, OVSInit, OVSTypeOK, PatchAssumption
  <1>3. LeakTypeOK(Net)
    BY DEF Init, LeakInit, LeakTypeOK
  <1>4. PrefixTypeOK(Net) /\ NumbersDistinct
    BY DEF Init, PrefixInit, PrefixTypeOK, NumbersDistinct, IsInjective, Listed
  <1>5. ForwardTypeOK(Net, IP)
    BY DEF Init, ForwardInit, ForwardTypeOK
  <1> QED
    BY <1>1, <1>2, <1>3, <1>4, <1>5 DEF Init, HostInv

LEMMA HostInvariant ==
  Spec => []HostInv
  <1>1. Init => HostInv
    BY HostInvInit, HostAssumption, PatchAssumption
  <1>2. HostInv /\ [Next]_vars => HostInv'
    BY HostInvStep, HostAssumption, PatchAssumption
  <1> QED
    BY <1>1, <1>2, PTL DEF Spec

(***************************************************************************)
(* Whatever fails, moves, drifts or is killed, the variables of the agent  *)
(* and of its host keep their types (agent.go Run, reconcile, cleanup).    *)
(***************************************************************************)
THEOREM TypeCorrect ==
  Spec => []TypeOK
  <1>1. HostInv => TypeOK
    BY DEF HostInv, ControlOK, TypeOK
  <1> QED
    BY <1>1, HostInvariant, PTL

(***************************************************************************)
(* However many networks there are and however calls of                    *)
(* ReconcileFRRPrefixList fail, no two entries of the prefix list share a  *)
(* sequence number.                                                        *)
(***************************************************************************)
THEOREM NumbersStayDistinct ==
  Spec => []NumbersDistinct
  <1>1. HostInv => NumbersDistinct
    BY DEF HostInv
  <1> QED
    BY <1>1, HostInvariant, PTL

-----------------------------------------------------------------------------
(* The refinement *)

LEMMA DriftCounts ==
  ASSUME ControlOK, [Next]_vars
  PROVE  drifts' = drifts \/ drifts' = drifts + 1
  <1>1. CASE Step
    BY <1>1, StepOutcome
  <1>2. CASE Start \/ Reconcile \/ Stop \/ Kill \/ UNCHANGED vars
    BY <1>2 DEF Start, Reconcile, Stop, Kill, vars, counters
  <1>3. CASE Others
    BY <1>3 DEF Others, Move, DriftOVS, DriftLeak, DriftVeth, DriftPrefix, DriftTable, Drift
  <1> QED
    BY <1>1, <1>2, <1>3 DEF Next

LEMMA TablesStep ==
  ASSUME HostAssumption, HostInv, [Next]_vars
  PROVE  Rules!Next /\ Routes!Next /\ Prefix!Next
  <1>1. CASE drifts' = drifts
    <2>1. /\ MadeFirst(vrfRoutes, vrfRoutes', Wanted) /\ MadeFirst(leakRules, leakRules', Wanted)
          /\ MadeFirst(Listed, Listed', Wanted)
      BY <1>1, LeakStep, PrefixListStep DEF HostInv
    <2>2. Rules!Sync
      BY <1>1, <2>1 DEF Rules!Sync, Rules!Add, Rules!Remove, MadeFirst
    <2>3. Routes!Sync
      BY <1>1, <2>1 DEF Routes!Sync, Routes!Add, Routes!Remove, MadeFirst
    <2>4. Prefix!Sync
      BY <1>1, <2>1 DEF Prefix!Sync, Prefix!Add, Prefix!Remove, MadeFirst
    <2> QED
      BY <2>2, <2>3, <2>4 DEF Rules!Next, Routes!Next, Prefix!Next
  <1>2. CASE drifts' # drifts
    <2>1. drifts' = drifts + 1
      BY <1>2, DriftCounts DEF HostInv
    <2>2. vrfRoutes' \subseteq vrfRoutes /\ leakRules' \subseteq leakRules
          /\ Listed' \subseteq Listed
      BY <1>2, LeakStep, PrefixListStep DEF HostInv
    <2> QED
      BY <2>1, <2>2 DEF Rules!Next, Routes!Next, Prefix!Next, Rules!Lose, Routes!Lose,
                        Prefix!Lose
  <1> QED
    BY <1>1, <1>2

(***************************************************************************)
(* For every set of networks and every configuration the leak rules, the   *)
(* leak routes and the prefix list implement DesiredSet: what is wanted is *)
(* made before anything is broken, also by calls that fail or are cut      *)
(* short by a kill.                                                        *)
(***************************************************************************)
THEOREM TablesMadeBeforeBroken ==
  Spec => MakeBeforeBreak
  <1>1. Init => Rules!Init /\ Routes!Init /\ Prefix!Init
    BY DEF Init, LeakInit, PrefixInit, Listed, Rules!Init, Routes!Init, Prefix!Init
  <1>2. HostInv /\ [Next]_vars =>
          [Rules!Next]_Rules!vars /\ [Routes!Next]_Routes!vars /\ [Prefix!Next]_Prefix!vars
    BY TablesStep, HostAssumption
  <1> QED
    BY <1>1, <1>2, HostInvariant, PTL
       DEF Spec, MakeBeforeBreak, Rules!Spec, Routes!Spec, Prefix!Spec

-----------------------------------------------------------------------------
(* Forwarding and the veth pair *)

Forwarding == nft # NoTable \/ dnat # {}

VethSetUp == 2 + Shift     \* place of SetupVethLeak in the setup
ForwardDown == 3 + Shift   \* place of TeardownPortForward in the clean-up

\* ForwardingNeedsVeth is not inductive: why the pair is there when forwarding is set
\* up, and why forwarding is gone when the pair goes, is a matter of how far the job is.
ForwardInv ==
  faults + drifts = 0 =>
    /\ Forwarding => veth
    /\ ~cfg.forwards => ~Forwarding
    /\ cfg.vethLeak /\ job \in {"ready", "active", "passive", "forward", "idle"} => veth
    /\ cfg.vethLeak /\ job = "setup" /\ at > VethSetUp => veth
    /\ job = "cleanup" /\ at > ForwardDown => ~Forwarding

LEMMA TroubleOnlyGrows ==
  ASSUME ControlOK, [Next]_vars
  PROVE  /\ faults' = faults \/ faults' = faults + 1
         /\ faults' + drifts' = 0 => faults' = faults /\ drifts' = drifts /\ faults + drifts = 0
  <1>1. faults' = faults \/ faults' = faults + 1
    <2>1. CASE Step
      BY <2>1, StepOutcome DEF Outcome
    <2>2. CASE Start \/ Reconcile \/ Stop \/ Kill \/ UNCHANGED vars
      BY <2>2 DEF Start, Reconcile, Stop, Kill, vars, counters
    <2>3. CASE Others
      BY <2>3 DEF Others, Move, DriftOVS, DriftLeak, DriftVeth, DriftPrefix, DriftTable, Drift
    <2> QED
      BY <2>1, <2>2, <2>3 DEF Next
  <1> QED
    BY <1>1, DriftCounts DEF ControlOK

Running == {"active", "passive", "forward", "idle", "ready"}

\* Where the job stood before it went on.
LEMMA ProceedFrom ==
  ASSUME ControlOK, Proceed, at \in DOMAIN Calls, cfg' = cfg
  PROVE  /\ VethSetUp \in 1 .. 2 /\ ForwardDown \in 2 .. 3
         /\ VethSetUp' = VethSetUp /\ ForwardDown' = ForwardDown
         /\ job' \in Running => job \in Running \/ (job = "setup" /\ at > VethSetUp)
         /\ job' = "setup" /\ at' > VethSetUp =>
              job = "setup" /\ (at > VethSetUp \/ at = VethSetUp)
         /\ job' = "cleanup" /\ at' > ForwardDown =>
              job = "cleanup" /\ (at > ForwardDown \/ at = ForwardDown)
  <1>1. /\ VethSetUp \in 1 .. 2 /\ ForwardDown \in 2 .. 3
        /\ VethSetUp' = VethSetUp /\ ForwardDown' = ForwardDown
    BY DEF VethSetUp, ForwardDown, Shift
  <1>2. at \in Nat
    BY DEF ControlOK
  <1>3. job = "setup" => Len(Calls) > VethSetUp
    <2> SUFFICES ASSUME job = "setup" PROVE Len(Calls) > VethSetUp
      OBVIOUS
    <2>0. Calls = SetupCalls
      BY DEF Calls, CycleCalls
    <2>1. CASE cfg.ovn
      <3>1. SetupCalls = <<"EnsureBridge", "SetupVethLeak", "SetupPortForward", "Connect">>
        BY <2>1, Zenon DEF SetupCalls
      <3>2. Shift = 0
        BY <2>1 DEF Shift
      <3> QED
        BY <2>0, <3>1, <3>2 DEF VethSetUp
    <2>2. CASE ~cfg.ovn
      <3>1. SetupCalls = <<"SetupVethLeak", "SetupPortForward">>
        BY <2>2, Zenon DEF SetupCalls
      <3>2. Shift = -1
        BY <2>2 DEF Shift
      <3> QED
        BY <2>0, <3>1, <3>2 DEF VethSetUp
    <2> QED
      BY <2>1, <2>2
  <1>4. job \in Running \cup {"setup", "cleanup"}
    <2>1. CASE job = "down"
      BY <2>1 DEF Calls, CycleCalls
    <2> QED
      BY <2>1 DEF ControlOK, Jobs, Running
  <1>5. CASE at = Len(Calls)
    BY <1>1, <1>2, <1>3, <1>4, <1>5 DEF Proceed, After, Running
  <1>6. CASE at # Len(Calls)
    BY <1>1, <1>2, <1>4, <1>6 DEF Proceed, Running
  <1> QED
    BY <1>5, <1>6

\* A call that, for as long as nothing goes wrong, keeps forwarding and the pair.
LEMMA ForwardKept ==
  ASSUME ControlOK, ForwardInv, faults + drifts = 0, at \in DOMAIN Calls, cfg' = cfg,
         Forwarding' => Forwarding, veth => veth', Proceed \/ Die,
         Proceed => /\ job = "setup" /\ at = VethSetUp /\ cfg.vethLeak => veth'
                    /\ job = "cleanup" /\ at = ForwardDown => ~Forwarding'
  PROVE  ForwardInv'
  <1>1. CASE Die
    BY <1>1 DEF Die, ForwardInv
  <1>2. CASE Proceed
    BY <1>2, ProceedFrom DEF ForwardInv, Running
  <1> QED
    BY <1>1, <1>2

\* One that sets up forwarding.
LEMMA ForwardMade ==
  ASSUME ControlOK, ForwardInv, faults + drifts = 0, at \in DOMAIN Calls, cfg' = cfg,
         cfg.forwards, veth, veth', job # "cleanup", Proceed \/ Die
  PROVE  ForwardInv'
  <1>1. CASE Die
    BY <1>1 DEF Die, ForwardInv
  <1>2. CASE Proceed
    BY <1>2, ProceedFrom DEF ForwardInv, Running
  <1> QED
    BY <1>1, <1>2

\* One of the clean-up after which nothing forwards.
LEMMA ForwardGone ==
  ASSUME ControlOK, ForwardInv, faults + drifts = 0, at \in DOMAIN Calls, cfg' = cfg,
         job = "cleanup", ~Forwarding', Proceed \/ Die
  PROVE  ForwardInv'
  <1>1. CASE Die
    BY <1>1 DEF Die, ForwardInv
  <1>2. CASE Proceed
    BY <1>2, ProceedFrom DEF ForwardInv, Running
  <1> QED
    BY <1>1, <1>2

\* The two calls that matter, by their place.
LEMMA PlaceCall ==
  ASSUME at \in DOMAIN Calls
  PROVE  /\ job = "setup" /\ at = 2 + Shift => Calls[at] = "SetupVethLeak"
         /\ job = "cleanup" /\ at = 3 + Shift => Calls[at] = "TeardownPortForward"
  <1>1. ASSUME job = "setup", at = 2 + Shift PROVE Calls[at] = "SetupVethLeak"
    <2>0. Calls = SetupCalls
      BY <1>1 DEF Calls, CycleCalls
    <2>1. CASE cfg.ovn
      <3>1. SetupCalls = <<"EnsureBridge", "SetupVethLeak", "SetupPortForward", "Connect">>
        BY <2>1, Zenon DEF SetupCalls
      <3>2. Shift = 0
        BY <2>1 DEF Shift
      <3> QED
        BY <1>1, <2>0, <3>1, <3>2
    <2>2. CASE ~cfg.ovn
      <3>1. SetupCalls = <<"SetupVethLeak", "SetupPortForward">>
        BY <2>2, Zenon DEF SetupCalls
      <3>2. Shift = -1
        BY <2>2 DEF Shift
      <3> QED
        BY <1>1, <2>0, <3>1, <3>2
    <2> QED
      BY <2>1, <2>2
  <1>2. ASSUME job = "cleanup", at = 3 + Shift PROVE Calls[at] = "TeardownPortForward"
    <2>0. Calls = CleanupCalls
      BY <1>2 DEF Calls, CycleCalls
    <2>1. CASE cfg.ovn
      <3>1. CleanupCalls =
              <<"ReconcileFRRPrefixList", "RemoveOVSFlows", "TeardownPortForward",
                "TeardownVethLeak", "RemoveBridgeIP">>
        BY <2>1, Zenon DEF CleanupCalls
      <3>2. Shift = 0
        BY <2>1 DEF Shift
      <3> QED
        BY <1>2, <2>0, <3>1, <3>2
    <2>2. CASE ~cfg.ovn
      <3>1. CleanupCalls =
              <<"ReconcileFRRPrefixList", "TeardownPortForward", "TeardownVethLeak">>
        BY <2>2, Zenon DEF CleanupCalls
      <3>2. Shift = -1
        BY <2>2 DEF Shift
      <3> QED
        BY <1>2, <2>0, <3>1, <3>2
    <2> QED
      BY <2>1, <2>2
  <1> QED
    BY <1>1, <1>2

LEMMA ForwardStep ==
  ASSUME HostAssumption, HostInv, ForwardInv, Step, faults + drifts = 0,
         faults' + drifts' = 0
  PROVE  ForwardInv'
  <1>1. ControlOK /\ at \in DOMAIN Calls /\ cfg' = cfg /\ faults' = faults /\ drifts' = drifts
    BY StepOutcome, TroubleOnlyGrows DEF HostInv, Next
  <1>2. cfg.forwards => cfg.vethLeak
    BY <1>1 DEF HostAssumption, ControlOK, validateConfig
  <1>3. CASE SetupVeth
    <2>1. job = "setup" /\ at = VethSetUp
      BY <1>1, <1>3, CallPlace DEF SetupVeth, Call, VethSetUp
    <2>2. Proceed \/ Die
      BY <1>1, <1>3 DEF SetupVeth, Call, ReturnError
    <2>3. UNCHANGED <<nft, dnat>>
      BY <1>3 DEF SetupVeth, forwardVars
    <2>4. cfg.networkCIDR \in SUBSET Net
      BY <1>1, MapType DEF ControlOK
    <2>5. \/ SetupVethLeak(cfg.networkCIDR) \/ SetupVethLeakFails(cfg.networkCIDR)
          \/ SetupVethLeakCut(cfg.networkCIDR) \/ UNCHANGED leakVars
      BY <1>3 DEF SetupVeth, Call
    <2>6. veth => veth'
      BY <2>4, <2>5, SetupLeakType DEF HostInv
    <2>7. cfg.vethLeak /\ Proceed => veth'
      <3>1. CASE cfg.vethLeak /\ SetupVethLeak(cfg.networkCIDR)
        BY <3>1 DEF SetupVethLeak
      <3>2. cfg.vethLeak /\ Proceed => SetupVethLeak(cfg.networkCIDR) \/ Die
        BY <1>1, <1>3 DEF SetupVeth, Call, ControlOK
      <3>3. Proceed /\ Die => FALSE
        BY <2>1, <1>1 DEF Proceed, Die, After
      <3> QED
        BY <3>1, <3>2, <3>3
    <2>8. Forwarding' => Forwarding
      BY <2>3 DEF Forwarding
    <2> QED
      BY <1>1, <2>1, <2>2, <2>6, <2>7, <2>8, ForwardKept
  <1>4. CASE SetupForward \/ SetupForwardWithoutVeth
    <2>1. job = "setup" /\ at > VethSetUp /\ at # VethSetUp
      <3>1. Shift \in {0, -1}
        BY DEF Shift
      <3>2. job = "setup" /\ at = 3 + Shift
        BY <1>1, <1>4, CallPlace DEF SetupForward, SetupForwardWithoutVeth, Call
      <3> QED
        BY <3>1, <3>2 DEF VethSetUp
    <2>2. veth' = veth /\ (Proceed \/ Die)
      BY <1>1, <1>4 DEF SetupForward, SetupForwardWithoutVeth, Call, ReturnError, leakVars
    <2>3. CASE cfg.forwards
      BY <1>1, <1>2, <2>1, <2>2, <2>3, ForwardMade DEF ForwardInv
    <2>4. CASE ~cfg.forwards
      <3>1. UNCHANGED <<nft, dnat>>
        BY <1>1, <1>4, <2>4
           DEF SetupForward, SetupForwardWithoutVeth, Call, forwardVars
      <3>2. Forwarding' = Forwarding
        BY <3>1 DEF Forwarding
      <3> QED
        BY <1>1, <2>1, <2>2, <3>2, ForwardKept
    <2> QED
      BY <2>3, <2>4
  <1>5. CASE ReconcileForward
    <2>1. job \in Running /\ job # "cleanup" /\ job # "setup"
      BY <1>1, <1>5, CallPlace DEF ReconcileForward, Call, Running
    <2>2. veth' = veth /\ (Proceed \/ Die)
      BY <1>1, <1>5 DEF ReconcileForward, Call, ReturnError, leakVars
    <2>3. CASE cfg.forwards
      BY <1>1, <1>2, <2>1, <2>2, <2>3, ForwardMade DEF ForwardInv, Running
    <2>4. CASE ~cfg.forwards
      <3>1. UNCHANGED <<nft, dnat>>
        BY <1>1, <1>5, <2>4 DEF ReconcileForward, Call, forwardVars
      <3>2. Forwarding' = Forwarding
        BY <3>1 DEF Forwarding
      <3>3. veth => veth'
        BY <2>2
      <3> QED
        BY <1>1, <2>1, <2>2, <3>2, <3>3, ForwardKept
    <2> QED
      BY <2>3, <2>4
  <1>6. CASE TeardownForward
    <2>1. job = "cleanup" /\ at = ForwardDown
      BY <1>1, <1>6, CallPlace DEF TeardownForward, Call, ForwardDown
    <2>2. veth' = veth /\ (Proceed \/ Die)
      BY <1>1, <1>6 DEF TeardownForward, Call, ReturnError, leakVars
    <2>3. CASE cfg.forwards
      <3>1. (TeardownPortForward /\ Proceed) \/ (TeardownPortForwardCut /\ Die)
        <4>1. Call("TeardownPortForward", "forward", TeardownPortForward,
                   TeardownPortForwardFails, TeardownPortForwardCut)
          BY <1>6, <2>3 DEF TeardownForward
        <4>2. faults' # faults + 1
          BY <1>1 DEF ControlOK
        <4> QED
          BY <4>1, <4>2 DEF Call
      <3>2. CASE TeardownPortForward /\ Proceed
        <4>1. ~Forwarding'
          BY <3>2 DEF TeardownPortForward, Forwarding
        <4> QED
          BY <1>1, <2>1, <2>2, <3>2, <4>1, ForwardKept
      <3>3. CASE TeardownPortForwardCut /\ Die
        <4>1. Forwarding' => Forwarding
          BY <3>3 DEF TeardownPortForwardCut, Forwarding
        <4>2. Proceed => FALSE
          BY <1>1, <2>1, <3>3 DEF Proceed, Die, After, ForwardDown, Shift, Calls, CycleCalls,
                                  CleanupCalls
        <4> QED
          BY <1>1, <2>1, <2>2, <4>1, <4>2, ForwardKept
      <3> QED
        BY <3>1, <3>2, <3>3
    <2>4. CASE ~cfg.forwards
      <3>1. UNCHANGED <<nft, dnat>>
        BY <1>1, <1>6, <2>4 DEF TeardownForward, Call, forwardVars
      <3>2. ~Forwarding'
        BY <1>1, <2>4, <3>1 DEF Forwarding, ForwardInv
      <3> QED
        BY <1>1, <2>1, <2>2, <3>2, ForwardKept
    <2> QED
      BY <2>3, <2>4
  <1>7. CASE TeardownVeth
    <2>1. job = "cleanup" /\ at > ForwardDown
      <3>1. Shift \in {0, -1}
        BY DEF Shift
      <3>2. job = "cleanup" /\ at = 4 + Shift
        BY <1>1, <1>7, CallPlace DEF TeardownVeth, Call
      <3> QED
        BY <3>1, <3>2 DEF ForwardDown
    <2>2. Proceed \/ Die
      BY <1>1, <1>7 DEF TeardownVeth, Call, ReturnError
    <2>3. nft' = nft /\ dnat' \subseteq dnat
      BY <1>7 DEF TeardownVeth
    <2>4. ~Forwarding'
      BY <2>1, <2>3 DEF ForwardInv, Forwarding
    <2> QED
      BY <1>1, <2>1, <2>2, <2>4, ForwardGone
  <1>8. CASE \/ EnsureBridge \/ Connect \/ EnsureFlows \/ ReconcileHairpins \/ ReconcileLeak
             \/ ReconcilePrefixes \/ RemoveFlows \/ RemoveBridge
    <2>1. Calls[at] \notin {"SetupVethLeak", "TeardownPortForward"}
      BY <1>8 DEF EnsureBridge, Connect, EnsureFlows, ReconcileHairpins, ReconcileLeak,
                  ReconcilePrefixes, RemoveFlows, RemoveBridge, Call
    <2>2. Proceed \/ Die
      BY <1>1, <1>8 DEF EnsureBridge, Connect, EnsureFlows, ReconcileHairpins, ReconcileLeak,
                  ReconcilePrefixes, RemoveFlows, RemoveBridge, Call, ReturnError
    <2>3. UNCHANGED <<veth, nft, dnat>>
      BY <1>8 DEF EnsureBridge, Connect, EnsureFlows, ReconcileHairpins, ReconcileLeak,
                  ReconcilePrefixes, RemoveFlows, RemoveBridge, leakVars, forwardVars
    <2>4. Forwarding' = Forwarding
      BY <2>3 DEF Forwarding
    <2>5. /\ ~(job = "setup" /\ at = VethSetUp) /\ ~(job = "cleanup" /\ at = ForwardDown)
      BY <1>1, <2>1, PlaceCall DEF VethSetUp, ForwardDown
    <2> QED
      BY <1>1, <2>2, <2>3, <2>4, <2>5, ForwardKept
  <1> QED
    BY <1>3, <1>4, <1>5, <1>6, <1>7, <1>8 DEF Step, Setup, Cycle, Cleanup

LEMMA ForwardInvStep ==
  ASSUME HostAssumption, HostInv, ForwardInv, [Next]_vars
  PROVE  ForwardInv'
  <1>0. SUFFICES ASSUME faults' + drifts' = 0
                 PROVE  ForwardInv'
    BY DEF ForwardInv
  <1>1. ControlOK /\ faults + drifts = 0 /\ faults' = faults /\ drifts' = drifts
    BY <1>0, TroubleOnlyGrows DEF HostInv
  <1>2. CASE Step
    BY <1>0, <1>1, <1>2, ForwardStep
  <1>3. CASE Start \/ Reconcile \/ Stop \/ Kill \/ (\E routers \in SUBSET Router : Move(routers))
             \/ UNCHANGED vars
    <2>1. cfg' = cfg /\ UNCHANGED <<veth, nft, dnat>>
      BY <1>3 DEF Start, Reconcile, Stop, Kill, Move, vars, host, leakVars, forwardVars
    <2>2. Forwarding' = Forwarding /\ veth' = veth
      BY <2>1 DEF Forwarding
    <2>3. \/ Die \/ UNCHANGED <<job, at>>
          \/ job' \in {"setup", "cleanup"} /\ at' = 1
          \/ job \in {"ready", "idle"} /\ job' \in {"active", "passive", "forward"}
      BY <1>3 DEF Start, Reconcile, Stop, Kill, Move, vars, control, Begin
    <2>4. /\ VethSetUp \in 1 .. 2 /\ ForwardDown \in 2 .. 3
          /\ VethSetUp' = VethSetUp /\ ForwardDown' = ForwardDown
      BY <2>1 DEF VethSetUp, ForwardDown, Shift
    <2>5. CASE Die
      BY <1>1, <2>1, <2>2, <2>5 DEF Die, ForwardInv
    <2>6. CASE UNCHANGED <<job, at>>
      BY <1>1, <2>1, <2>2, <2>4, <2>6 DEF ForwardInv
    <2>7. CASE job' \in {"setup", "cleanup"} /\ at' = 1
      BY <1>1, <2>1, <2>2, <2>4, <2>7 DEF ForwardInv
    <2>8. CASE job \in {"ready", "idle"} /\ job' \in {"active", "passive", "forward"}
      BY <1>1, <2>1, <2>2, <2>8 DEF ForwardInv
    <2> QED
      BY <2>3, <2>5, <2>6, <2>7, <2>8
  <1>4. CASE Drift
    BY <1>1, <1>4 DEF Drift, ControlOK
  <1> QED
    BY <1>2, <1>3, <1>4 DEF Next, Others, DriftOVS, DriftLeak, DriftVeth, DriftPrefix, DriftTable

(***************************************************************************)
(* For every configuration validateConfig lets through, and a kill between *)
(* any two steps: as long as nothing fails and nobody interferes, the host *)
(* forwards only while the veth pair is there for the replies.             *)
(***************************************************************************)
THEOREM ForwardingKeepsVeth ==
  Spec => []ForwardingNeedsVeth
  <1>1. Init => ForwardInv
    BY DEF Init, ForwardInit, ForwardInv, Forwarding
  <1>2. HostInv /\ ForwardInv /\ [Next]_vars => ForwardInv'
    BY ForwardInvStep, HostAssumption
  <1>3. ForwardInv => ForwardingNeedsVeth
    BY DEF ForwardInv, ForwardingNeedsVeth, Forwarding
  <1> QED
    BY <1>1, <1>2, <1>3, HostInvariant, PTL DEF Spec
=============================================================================
