----------------------------- MODULE HostCycle -----------------------------
(***************************************************************************)
(* What one agent does to its own host besides the routes of RouteSync:    *)
(* Agent.Run from the setup of the bridge, the veth pair and the port      *)
(* forwarding to the clean-up, and between them the reconcile cycles       *)
(* (agent.go), composed of OVSFlows, VethLeak, PrefixList and PortForward. *)
(*                                                                         *)
(* A step is one call, answered, failing, or cut short by a kill; routers  *)
(* move, and other hands take things away, between any two of them.  What  *)
(* OVN knows of the routers is external: `active' is what GetState says.   *)
(***************************************************************************)
EXTENDS OVSFlows, VethLeak, PrefixList, PortForward, Integers, Sequences

CONSTANTS
  Router, IP, Net,
  OwnerOf,      \* router of each address
  NetOf,        \* provider network of each address
  NatIP, SNAT,  \* external addresses of NAT entries; those of type snat
  GatewayIP,    \* addresses of the router ports
  Config,       \* configurations the agent may run with
  Faults,       \* what may fail: a subset of FaultKinds
  MaxTrouble,   \* failing calls and interferences, in all
  MaxMoves, MaxExits

FaultKinds == {"bridge", "ovs", "veth", "vtysh", "forward"}

\* Without the OVN remotes the agent only forwards ports, and what needs OVN is refused.
validateMode(c) ==
  ~c.ovn => /\ c.forwards /\ ~c.routerMasquerade
            /\ c.hairpinMasquerade => c.networkCIDR # {}

\* Of validateConfig what relates two features to each other.
validateConfig(c) == c.forwards => c.vethLeak

ASSUME HostAssumption ==
  /\ IsFiniteSet(Net)
  /\ OwnerOf \in [IP -> Router] /\ NetOf \in [IP -> Net]
  /\ SNAT \subseteq NatIP /\ NatIP \subseteq IP /\ GatewayIP \subseteq IP
  /\ Config \subseteq [ovn : BOOLEAN, networkCIDR : SUBSET Net, forwards : BOOLEAN,
                       vethLeak : BOOLEAN, hairpinMasquerade : BOOLEAN,
                       routerMasquerade : BOOLEAN, cleanup : BOOLEAN]
  /\ \A c \in Config : validateMode(c) /\ validateConfig(c)
  /\ Faults \subseteq FaultKinds
  /\ {MaxTrouble, MaxMoves, MaxExits} \subseteq Nat

VARIABLES
  cfg,      \* the configuration, which a restart keeps
  active,   \* routers OVN has bound to this chassis, as OVNState lists them
  bridge,   \* what has been set up on br-ex
  job,      \* what the main goroutine is at
  at,       \* which of the calls of the job comes next
  local,    \* LocalRouters in the cycle's copy of OVNState
  since,    \* faults + drifts when the job began
  faults, moves, drifts, exits

host     == <<patch, bridgeMAC, cachedPatch, cachedBridgeMAC, tweak, hairpin, leakVars,
              prefixes, forwardVars, bridge>>
control  == <<job, at, local, since>>
counters == <<faults, moves, drifts, exits>>
vars     == <<cfg, active, host, control, counters>>

Jobs == {"down", "setup", "ready", "active", "passive", "forward", "idle", "cleanup"}

TypeOK ==
  /\ cfg \in Config /\ active \subseteq Router /\ bridge \subseteq {"ip", "proxy_arp"}
  /\ job \in Jobs /\ at \in 1 .. 5 /\ local \subseteq Router
  /\ {since, faults, moves, drifts, exits} \subseteq Nat
  /\ OVSTypeOK(IP, Router) /\ LeakTypeOK(Net) /\ PrefixTypeOK(Net)
  /\ ForwardTypeOK(Net, IP)

Init ==
  /\ cfg \in Config /\ active \in (IF cfg.ovn THEN SUBSET Router ELSE {{}})
  /\ bridge = {}
  /\ job = "down" /\ at = 1 /\ local = {} /\ since = 0
  /\ faults = 0 /\ moves = 0 /\ drifts = 0 /\ exits = 0
  /\ OVSInit /\ LeakInit /\ PrefixInit /\ ForwardInit

-----------------------------------------------------------------------------
(* What a cycle works with, for the given local routers *)

LRPNetworks(routers) == {NetOf[a] : a \in {b \in GatewayIP : OwnerOf[b] \in routers}}

effectiveFilters(routers) ==
  IF cfg.networkCIDR # {} THEN cfg.networkCIDR ELSE LRPNetworks(routers)

NATIPs(routers) ==
  {a \in NatIP : /\ OwnerOf[a] \in routers
                 /\ effectiveFilters(routers) = {} \/ NetOf[a] \in effectiveFilters(routers)}

SNATIPs(routers) == SNAT \cap NATIPs(routers)

\* Each address that gets a hairpin flow, and the router whose MAC goes into it.
hairpinMACMap(routers) ==
  [a \in NATIPs(routers) \cup {b \in GatewayIP : OwnerOf[b] \in routers} |-> OwnerOf[a]]

\* Networks that get a leak route, a leak rule and a prefix-list entry.
WantedNets(routers) == IF routers = {} THEN {} ELSE effectiveFilters(routers)

Ruleset(routers) ==
  buildNftRuleset(cfg.hairpinMasquerade, cfg.routerMasquerade,
                  effectiveFilters(routers), SNATIPs(routers))

InitialRuleset == buildNftRuleset(cfg.hairpinMasquerade, cfg.routerMasquerade, {}, {})

-----------------------------------------------------------------------------
(* The calls of each job, in their order *)

SetupCalls ==
  IF cfg.ovn THEN <<"EnsureBridge", "SetupVethLeak", "SetupPortForward", "Connect">>
  ELSE <<"SetupVethLeak", "SetupPortForward">>

CycleCalls ==
  [active  |-> <<"EnsureOVSFlows", "ReconcileOVSHairpinFlows", "ReconcileVethLeakNetworks",
                 "ReconcileFRRPrefixList", "ReconcilePortForward">>,
   passive |-> <<"ReconcileVethLeakNetworks", "ReconcileFRRPrefixList",
                 "ReconcileOVSHairpinFlows", "ReconcilePortForward">>,
   forward |-> <<"ReconcilePortForward">>]

Mut_VethBeforeForward ==
  <<"ReconcileFRRPrefixList", "RemoveOVSFlows", "TeardownVethLeak", "TeardownPortForward",
    "RemoveBridgeIP">>
CleanupCalls ==
  IF cfg.ovn THEN <<"ReconcileFRRPrefixList", "RemoveOVSFlows", "TeardownPortForward",
                    "TeardownVethLeak", "RemoveBridgeIP">>
  ELSE <<"ReconcileFRRPrefixList", "TeardownPortForward", "TeardownVethLeak">>

Calls ==
  CASE job = "setup"   -> SetupCalls
    [] job = "cleanup" -> CleanupCalls
    [] job \in DOMAIN CycleCalls -> CycleCalls[job]
    [] OTHER -> <<>>

Begin(j) == job' = j /\ at' = 1 /\ since' = faults + drifts

After == CASE job = "setup" -> "ready" [] job = "cleanup" -> "down" [] OTHER -> "idle"

Proceed ==
  /\ IF at = Len(Calls) THEN job' = After /\ at' = 1 ELSE job' = job /\ at' = at + 1
  /\ UNCHANGED <<local, since>>

\* The process ends, by a kill or an error of the setup.
Die == job' = "down" /\ at' = 1 /\ local' = {} /\ since' = 0

\* An error is logged and the job goes on, but for one of the setup.
ReturnError == IF job = "setup" THEN Die ELSE Proceed

(***************************************************************************)
(* One call: `ok' is what it does when everything works, `fails' when a    *)
(* step of it fails, `cut' when the process is killed on the way.          *)
(***************************************************************************)
Call(name, kind, ok, fails, cut) ==
  /\ at \in DOMAIN Calls /\ Calls[at] = name
  /\ \/ ok /\ Proceed /\ UNCHANGED <<faults, exits>>
     \/ kind \in Faults /\ faults + drifts < MaxTrouble /\ faults' = faults + 1
        /\ fails /\ ReturnError /\ UNCHANGED exits
     \/ exits < MaxExits /\ exits' = exits + 1 /\ cut /\ Die /\ UNCHANGED faults
  /\ UNCHANGED <<cfg, active, bridgePort, moves, drifts>>

\* The device, its address, then proxy ARP.
EnsureBridge ==
  /\ Call("EnsureBridge", "bridge", bridge' = {"ip", "proxy_arp"},
          bridge' \in {bridge, bridge \cup {"ip"}}, bridge' = bridge \cup {"ip"})
  /\ UNCHANGED <<discovery, flows, leakVars, prefixes, forwardVars>>

SetupVeth ==
  /\ IF cfg.vethLeak
     THEN Call("SetupVethLeak", "veth", SetupVethLeak(cfg.networkCIDR),
               SetupVethLeakFails(cfg.networkCIDR), SetupVethLeakCut(cfg.networkCIDR))
     ELSE Call("SetupVethLeak", "veth", UNCHANGED leakVars, FALSE, FALSE)
  /\ UNCHANGED <<bridge, discovery, flows, prefixes, forwardVars>>

SetupForward ==
  /\ IF cfg.forwards
     THEN Call("SetupPortForward", "forward",
               veth /\ ApplyPortForward(InitialRuleset, DNATRouting),
               ApplyPortForwardCut(InitialRuleset), ApplyPortForwardCut(InitialRuleset))
     ELSE Call("SetupPortForward", "forward", UNCHANGED forwardVars, FALSE, FALSE)
  /\ UNCHANGED <<bridge, discovery, flows, leakVars, prefixes>>

\* The setup finds no veth pair and returns an error.
SetupForwardWithoutVeth ==
  /\ at \in DOMAIN Calls /\ Calls[at] = "SetupPortForward" /\ cfg.forwards /\ ~veth
  /\ ApplyPortForward(InitialRuleset, {}) /\ Die
  /\ UNCHANGED <<cfg, active, bridgePort, bridge, discovery, flows, leakVars, prefixes,
                 counters>>

\* connectWithRetry: it waits for OVN as long as it takes.
Connect ==
  /\ Call("Connect", "bridge", TRUE, FALSE, FALSE)
  /\ UNCHANGED <<bridge, discovery, flows, leakVars, prefixes, forwardVars>>

EnsureFlows ==
  /\ Call("EnsureOVSFlows", "ovs", EnsureOVSFlows, EnsureOVSFlowsFails,
          EnsureOVSFlowsCut /\ UNCHANGED discovery)
  /\ UNCHANGED <<bridge, hairpin, leakVars, prefixes, forwardVars>>

ReconcileHairpins ==
  /\ LET macs == hairpinMACMap(local)
     IN  Call("ReconcileOVSHairpinFlows", "ovs", ReconcileOVSHairpinFlows(macs),
              ReconcileOVSHairpinFlowsFails(macs), ReconcileOVSHairpinFlowsCut(macs))
  /\ UNCHANGED <<bridge, discovery, tweak, leakVars, prefixes, forwardVars>>

ReconcileLeak ==
  /\ LET want == WantedNets(local)
     IN  IF cfg.vethLeak
         THEN Call("ReconcileVethLeakNetworks", "veth", ReconcileVethLeakNetworks(want),
                   ReconcileVethLeakNetworksFails(want), ReconcileVethLeakNetworksCut(want))
         ELSE Call("ReconcileVethLeakNetworks", "veth", UNCHANGED nets, FALSE, FALSE)
  /\ UNCHANGED <<bridge, discovery, flows, veth, leakRoute, prefixes, forwardVars>>

\* In a cycle, or with no network when the agent cleans up.
ReconcilePrefixes ==
  /\ LET want == IF job = "cleanup" THEN {} ELSE WantedNets(local)
     IN  Call("ReconcileFRRPrefixList", "vtysh", ReconcileFRRPrefixList(want),
              ReconcileFRRPrefixListCut(want), ReconcileFRRPrefixListCut(want))
  /\ UNCHANGED <<bridge, discovery, flows, leakVars, forwardVars>>

\* Without the veth pair the reply route is missed, which is only logged.
ReconcileForward ==
  /\ LET table == Ruleset(local)
         reply == IF veth THEN {} ELSE {"reply route"}
     IN  IF cfg.forwards
         THEN Call("ReconcilePortForward", "forward",
                   ApplyPortForward(table, DNATRouting \ reply),
                   ApplyPortForwardCut(table), ApplyPortForwardCut(table))
         ELSE Call("ReconcilePortForward", "forward", UNCHANGED forwardVars, FALSE, FALSE)
  /\ UNCHANGED <<bridge, discovery, flows, leakVars, prefixes>>

RemoveFlows ==
  /\ Call("RemoveOVSFlows", "ovs", RemoveOVSFlows, RemoveOVSFlowsFails, RemoveOVSFlowsCut)
  /\ UNCHANGED <<bridge, discovery, leakVars, prefixes, forwardVars>>

TeardownForward ==
  /\ IF cfg.forwards
     THEN Call("TeardownPortForward", "forward", TeardownPortForward,
               TeardownPortForwardFails, TeardownPortForwardCut)
     ELSE Call("TeardownPortForward", "forward", UNCHANGED forwardVars, FALSE, FALSE)
  /\ UNCHANGED <<bridge, discovery, flows, leakVars, prefixes>>

\* With the pair goes what routes there are across it.
TeardownVeth ==
  /\ IF cfg.vethLeak
     THEN Call("TeardownVethLeak", "veth", TeardownVethLeak, TeardownVethLeakFails,
               TeardownVethLeakCut)
     ELSE Call("TeardownVethLeak", "veth", UNCHANGED leakVars, FALSE, FALSE)
  /\ dnat' = IF veth' THEN dnat ELSE dnat \ {"reply route"}
  /\ UNCHANGED <<bridge, discovery, flows, prefixes, vips, nft>>

RemoveBridge ==
  /\ Call("RemoveBridgeIP", "bridge", bridge' = bridge \ {"ip"}, UNCHANGED bridge, FALSE)
  /\ UNCHANGED <<discovery, flows, leakVars, prefixes, forwardVars>>

-----------------------------------------------------------------------------
(* The life of the process *)

Start ==
  /\ job = "down" /\ Begin("setup")
  /\ cachedPatch' = None /\ cachedBridgeMAC' = None
  /\ UNCHANGED <<cfg, active, local, bridgePort, flows, leakVars, prefixes, forwardVars, bridge,
                 counters>>

\* The initial cycle, or one an event or the ticker starts.
Reconcile ==
  /\ job \in {"ready", "idle"}
  /\ local' = IF cfg.ovn THEN active ELSE {}
  /\ Begin(CASE ~cfg.ovn -> "forward" [] cfg.ovn /\ active # {} -> "active"
             [] OTHER -> "passive")
  /\ UNCHANGED <<cfg, active, host, counters>>

\* SIGTERM, seen by the main loop.
Stop ==
  /\ job = "idle" /\ exits < MaxExits /\ exits' = exits + 1
  /\ IF cfg.cleanup THEN Begin("cleanup") /\ local' = {} ELSE Die
  /\ UNCHANGED <<cfg, active, host, faults, moves, drifts>>

\* Between two calls; or SIGTERM while it waits for OVN, when Run returns at once.
Kill ==
  /\ job # "down" /\ exits < MaxExits /\ exits' = exits + 1 /\ Die
  /\ UNCHANGED <<cfg, active, host, faults, moves, drifts>>

-----------------------------------------------------------------------------
(* The others *)

Move(routers) ==
  /\ cfg.ovn /\ moves < MaxMoves /\ moves' = moves + 1
  /\ routers # active /\ active' = routers
  /\ UNCHANGED <<cfg, host, control, faults, drifts, exits>>

Drift ==
  /\ faults + drifts < MaxTrouble /\ drifts' = drifts + 1
  /\ UNCHANGED <<cfg, active, discovery, bridge, control, faults, moves, exits>>

DriftOVS ==
  /\ Drift /\ cfg.ovn
  /\ \/ (\E p \in PatchPort \cup {None} : PatchChanges(p)) /\ UNCHANGED flows
     \/ (\E m \in MAC : MACChanges(m)) /\ UNCHANGED flows
     \/ FlowsLost /\ UNCHANGED bridgePort
  /\ UNCHANGED <<leakVars, prefixes, forwardVars>>

DriftLeak ==
  /\ Drift /\ \E n \in Net : RouteLost(n) \/ RuleLost(n)
  /\ UNCHANGED <<bridgePort, flows, prefixes, forwardVars>>

DriftVeth ==
  /\ Drift /\ VethLost /\ dnat' = dnat \ {"reply route"}
  /\ UNCHANGED <<bridgePort, flows, prefixes, vips, nft>>

DriftPrefix ==
  /\ Drift /\ \E n \in Net : PrefixLost(n)
  /\ UNCHANGED <<bridgePort, flows, leakVars, forwardVars>>

DriftTable ==
  /\ Drift /\ TableLost
  /\ UNCHANGED <<bridgePort, flows, leakVars, prefixes>>

-----------------------------------------------------------------------------
Setup   == EnsureBridge \/ SetupVeth \/ SetupForward \/ SetupForwardWithoutVeth \/ Connect
Cycle   == EnsureFlows \/ ReconcileHairpins \/ ReconcileLeak \/ ReconcilePrefixes
           \/ ReconcileForward
Cleanup == RemoveFlows \/ TeardownForward \/ TeardownVeth \/ RemoveBridge
Step    == Setup \/ Cycle \/ Cleanup

Others == (\E routers \in SUBSET Router : Move(routers)) \/ DriftOVS \/ DriftLeak
          \/ DriftVeth \/ DriftPrefix \/ DriftTable

Next == Step \/ Start \/ Reconcile \/ Stop \/ Kill \/ Others

Spec == Init /\ [][Next]_vars

\* Calls return, or fail; systemd starts the agent again; the ticker keeps
\* starting cycles.  That OVN can be reached in the end is part of it.
FairSpec == Spec /\ WF_vars(Step) /\ WF_vars(Start) /\ WF_vars(Reconcile)

-----------------------------------------------------------------------------
(* Safety *)

\* Nothing failed and nobody interfered since the current job began.
Smooth == since = faults + drifts

FlowsExact ==
  /\ local # {} => /\ cachedPatch = patch
                   /\ patch # None =>
                        tweak = MACTweakFlows(patch, cachedBridgeMAC, Family)
  /\ cachedPatch # None =>
       hairpin = HairpinFlows(cachedPatch, cachedBridgeMAC, hairpinMACMap(local))

LeakExact ==
  cfg.vethLeak /\ veth => vrfRoutes = WantedNets(local) /\ leakRules = WantedNets(local)

PrefixExact == Listed = WantedNets(local)

ForwardExact ==
  cfg.forwards => /\ vips = VIP /\ nft = Ruleset(local)
                  /\ DNATRouting \ {"reply route"} \subseteq dnat
                  /\ veth => "reply route" \in dnat

(***************************************************************************)
(* A cycle in which nothing fails leaves on the host exactly what OVNState *)
(* asks for, from whatever state failed calls, kills, drift and moves have *)
(* left behind: the flows name the patch port there is, each network has   *)
(* its route, its rule, its prefix-list entry and its place in the guard   *)
(* of the veth pair (reconcile, agent.go).                                 *)
(***************************************************************************)
CycleExact ==
  job = "idle" /\ Smooth =>
    /\ cfg.ovn => FlowsExact /\ LeakExact /\ PrefixExact
    /\ ForwardExact

(***************************************************************************)
(* No two networks of the prefix list share a number, since FRR replaces   *)
(* an entry by the next one of its number: whatever calls fail and however *)
(* often networks come and go (ReconcileFRRPrefixList).                    *)
(***************************************************************************)
NumbersDistinct == IsInjective(prefixes)

(***************************************************************************)
(* Replies of forwarded connections leave through the veth pair: with      *)
(* nothing failing and nobody interfering there is no moment, a kill       *)
(* between any two steps of setup and clean-up included, at which the host *)
(* forwards without it (agent.go:665).                                     *)
(***************************************************************************)
ForwardingNeedsVeth ==
  faults + drifts = 0 /\ (nft # NoTable \/ dnat # {}) => veth

Removed ==
  /\ tweak = {} /\ hairpin = {} /\ Listed = {}
  /\ ~veth /\ ~leakRoute /\ vrfRoutes = {} /\ leakRules = {}
  /\ vips = {} /\ nft = NoTable /\ dnat = {}
  /\ "ip" \notin bridge

(***************************************************************************)
(* A clean-up in which no call fails takes everything along, also what     *)
(* earlier lives of the agent, other sets of local routers and other hands *)
(* have left (cleanup, agent.go).                                          *)
(***************************************************************************)
CleanShutdown ==
  [][job = "cleanup" /\ job' = "down" /\ exits' = exits /\ since = faults' + drifts'
     => Removed']_vars

-----------------------------------------------------------------------------
(* The networks are made before they are broken *)

Wanted ==
  CASE job = "setup" -> cfg.networkCIDR
    [] job \in {"active", "passive"} -> WantedNets(local)
    [] OTHER -> {}

Rules  == INSTANCE DesiredSet WITH table <- leakRules, want <- Wanted, lost <- drifts
Routes == INSTANCE DesiredSet WITH table <- vrfRoutes, want <- Wanted, lost <- drifts
Prefix == INSTANCE DesiredSet WITH table <- Listed, want <- Wanted, lost <- drifts

(***************************************************************************)
(* The leak rules, the leak routes and the prefix list implement           *)
(* DesiredSet: no call, failed and interrupted ones included, takes away   *)
(* what is wanted or takes anything away while something wanted is missing *)
(* (ReconcileVethLeakNetworks; routing.go:390 "to avoid a window with no   *)
(* entries").                                                              *)
(***************************************************************************)
MakeBeforeBreak == Rules!Spec /\ Routes!Spec /\ Prefix!Spec

-----------------------------------------------------------------------------
(* Liveness *)

\* The MAC is whatever was found: see the README for the bridge that changes its
\* own, and for the veth pair, which only a start brings back.
Settled ==
  /\ cfg.ovn =>
       /\ active # {} /\ patch # None =>
            \E m \in MAC : /\ tweak = MACTweakFlows(patch, m, Family)
                           /\ hairpin = HairpinFlows(patch, m, hairpinMACMap(active))
       /\ active = {} /\ cachedPatch # None => hairpin = {}
       /\ cfg.vethLeak /\ veth =>
            vrfRoutes = WantedNets(active) /\ leakRules = WantedNets(active)
       /\ Listed = WantedNets(active)
  /\ cfg.forwards =>
       /\ vips = VIP /\ nft = Ruleset(IF cfg.ovn THEN active ELSE {})
       /\ veth => dnat = DNATRouting

(***************************************************************************)
(* Once calls no longer fail and nobody interferes any more, the host ends *)
(* with what the routers now local ask for, whatever happened before       *)
(* (the periodic cycle of Agent.Run).                                      *)
(***************************************************************************)
Converges == <>[]Settled
=============================================================================
