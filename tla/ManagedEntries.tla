--------------------------- MODULE ManagedEntries ---------------------------
(***************************************************************************)
(* The rows the agents write into OVN NB for a router without a gateway: a *)
(* managed default route, tagged with the chassis of its writer, and a     *)
(* static MAC binding that points to the writer's bridge (ovn_gateway.go,  *)
(* cleanupStaleChassis and the shutdown of agent.go).                      *)
(*                                                                         *)
(* The rows are shared.  The agent of the chassis a router is bound to     *)
(* takes them over by changing them in place; a leaving agent removes      *)
(* those of the routers it still holds; and any agent removes those of a   *)
(* chassis that stays away from the SB Chassis table.  All of them decide  *)
(* on rows read earlier, and address the rows by their id.                 *)
(***************************************************************************)
EXTENDS Integers, FiniteSets

CONSTANTS
  Chassis, Router,
  Hosts,             \* the chassis that may hold each router's gateway port
  RealGateway,       \* routers with a default route that is not the agent's
  OtherBindings,     \* MAC bindings that somebody else keeps on the same ports
  DrainOnShutdown, CleanupOnShutdown,
  Faults, MaxFaults, \* kinds of failure that occur, and their bound
  MaxMoves,          \* bound: ports that move by themselves
  MaxExits           \* bound: shutdowns, kills and node deaths

FaultKinds ==
  { "txn",       \* an NB transaction fails
    "list",      \* a cachedList fails
    "select",    \* its direct select fails, so that it trusts the cache
    "monitor",   \* an NB monitor drops an INSERT or an UPDATE of a row
    "refresh",   \* refreshState returns early, or its event is lost
    "drain",     \* the refreshState after the drain returns early
    "bridge" }   \* the MAC of the bridge is unknown

Other    == 0
RouteRow == [id : Nat, router : Router, tag : Chassis]
MacRow   == [id : Nat, router : Router, mac : Chassis \cup {Other}]

ASSUME EntriesAssumption ==
  /\ Chassis \subseteq Nat \ {Other} /\ IsFiniteSet(Chassis)
  /\ Hosts \in [Router -> (SUBSET Chassis) \ {{}}]
  /\ RealGateway \subseteq Router
  /\ OtherBindings \subseteq MacRow /\ IsFiniteSet(OtherBindings)
  /\ \A x \in OtherBindings : x.mac = Other
  /\ DrainOnShutdown \in BOOLEAN /\ CleanupOnShutdown \in BOOLEAN
  /\ Faults \subseteq FaultKinds
  /\ MaxFaults \in Nat /\ MaxMoves \in Nat /\ MaxExits \in Nat

VARIABLES
  routes,    \* NB: managed default routes
  macs,      \* NB: static MAC bindings
  bound,     \* SB: the chassis each router's gateway port is bound to
  sb,        \* SB: the Chassis table
  pc,        \* phase of each agent
  cache,     \* each agent's monitor cache of routes and macs
  missed,    \* ids of the rows each monitor has dropped a change of
  state,     \* OVNState: LocalRouters and AllChassisNames
  refresh,   \* refreshState: an event waits for it ("due"), the last one
             \* worked ("done"), or it failed and nothing repeats it ("failed")
  todo,      \* a reconcile: its copy of AllChassisNames, the routers still to
             \* do, and in mac the one that only lacks its MAC binding
  missing,   \* missingChassis: "no", "new", or "due" after the grace period
  plan,      \* a removal: the stale chassis, ids of routes to delete, ports
             \* whose bindings are to be listed, ids of bindings to delete
  drained,   \* history: agents without a port at the refresh after their drain
  faults, moves, exits

nb       == <<routes, macs>>
ovn      == <<bound, sb>>
monitor  == <<cache, missed>>
snapshot == <<state, refresh>>
agent    == <<todo, missing, plan, drained>>
counters == <<faults, moves, exits>>
vars     == <<nb, ovn, pc, monitor, snapshot, agent, counters>>

Live    == {"idle", "ensure", "collect", "stale"}
Leaving == {"drain", "leaving", "remove"}
Phase   == Live \cup Leaving \cup {"down"}

NoTodo   == [chassis |-> {}, routers |-> {}, mac |-> {}]
NoPlan   == [chassis |-> {}, routes |-> {}, ports |-> {}, macs |-> {}]
NoState  == [local |-> {}, chassis |-> {}]
NoRows   == [routes |-> {}, macs |-> {}]

TypeOK ==
  /\ routes \subseteq RouteRow /\ macs \subseteq MacRow
  /\ bound \in [Router -> Chassis] /\ sb \subseteq Chassis
  /\ pc \in [Chassis -> Phase]
  /\ \A c \in Chassis :
       /\ cache[c].routes \subseteq RouteRow /\ cache[c].macs \subseteq MacRow
       /\ missed[c].routes \subseteq Nat /\ missed[c].macs \subseteq Nat
       /\ state[c].local \subseteq Router /\ state[c].chassis \subseteq Chassis
       /\ todo[c].chassis \subseteq Chassis
       /\ todo[c].routers \subseteq Router /\ todo[c].mac \subseteq Router
       /\ plan[c].chassis \subseteq Chassis /\ plan[c].ports \subseteq Router
       /\ plan[c].routes \subseteq Nat /\ plan[c].macs \subseteq Nat
  /\ refresh \in [Chassis -> {"due", "done", "failed"}]
  /\ missing \in [Chassis -> [Chassis -> {"no", "new", "due"}]]
  /\ drained \subseteq Chassis
  /\ faults \in 0 .. MaxFaults /\ moves \in 0 .. MaxMoves /\ exits \in 0 .. MaxExits

Init ==
  /\ routes = {}
  /\ macs = OtherBindings
  /\ bound \in {b \in [Router -> Chassis] : \A r \in Router : b[r] \in Hosts[r]}
  /\ sb = Chassis
  /\ pc = [c \in Chassis |-> "down"]
  /\ cache = [c \in Chassis |-> NoRows]
  /\ missed = [c \in Chassis |-> NoRows]
  /\ state = [c \in Chassis |-> NoState]
  /\ refresh = [c \in Chassis |-> "done"]
  /\ todo = [c \in Chassis |-> NoTodo]
  /\ missing = [c \in Chassis |-> [d \in Chassis |-> "no"]]
  /\ plan = [c \in Chassis |-> NoPlan]
  /\ drained = {}
  /\ faults = 0 /\ moves = 0 /\ exits = 0

-----------------------------------------------------------------------------
(* Helpers *)

Goto(c, phase) == pc' = [pc EXCEPT ![c] = phase]

Fault(kind) ==
  /\ kind \in Faults /\ faults < MaxFaults
  /\ faults' = faults + 1 /\ UNCHANGED <<moves, exits>>

Local(c) == {r \in Router : bound[r] = c}
Current(c) == [local |-> Local(c), chassis |-> sb]

Server == [routes |-> routes, macs |-> macs]

\* A row id that nobody has or remembers.
Ids(rows)  == {x.id : x \in rows}
Free(used) == CHOOSE i \in 1 .. Cardinality(used) + 1 : i \notin used
FreshRoute ==
  Free(Ids(routes) \cup UNION {Ids(cache[c].routes) \cup plan[c].routes : c \in Chassis})
FreshMac ==
  Free(Ids(macs) \cup UNION {Ids(cache[c].macs) \cup plan[c].macs : c \in Chassis})

\* What a monitor shows of the server's rows: a row it dropped a change of is
\* missing or stale for good, and goes when the server deletes it.
Seen(rows, old, lost) ==
  {x \in rows : x.id \notin lost} \cup {x \in old : x.id \in lost \cap Ids(rows)}
View(c, newRoutes, newMacs) ==
  [routes |-> Seen(newRoutes, cache[c].routes, missed[c].routes),
   macs   |-> Seen(newMacs, cache[c].macs, missed[c].macs)]

(***************************************************************************)
(* transactOps: an update or a delete of a row that is gone succeeds, and  *)
(* changes nothing.  With the reply the agent's cache has everything that  *)
(* its monitor delivers.                                                   *)
(***************************************************************************)
Transact(c, newRoutes, newMacs) ==
  /\ routes' = newRoutes /\ macs' = newMacs
  /\ cache' = [cache EXCEPT ![c] = View(c, newRoutes, newMacs)]
  /\ missed' = [d \in Chassis |-> [routes |-> missed[d].routes \cap Ids(newRoutes),
                                   macs   |-> missed[d].macs \cap Ids(newMacs)]]
  /\ UNCHANGED counters

\* The SB event handlers: a change of a port or of the Chassis table asks every
\* refresh loop that runs for a refresh.
Notify ==
  refresh' = [c \in Chassis |-> IF pc'[c] \notin Live THEN "done"
                                ELSE IF ovn' # ovn THEN "due" ELSE refresh[c]]

Without(rows, ids) == {x \in rows : x.id \notin ids}

\* cachedList: what the server has, or the cache when it cannot be asked.
CachedRows(c, rows) ==
  \/ rows = Server /\ UNCHANGED counters
  \/ Fault("select") /\ rows = cache[c]

-----------------------------------------------------------------------------
(* OVN *)

Draining(c) == DrainOnShutdown /\ pc[c] \in Leaving
MayHold(r, c) == c \in Hosts[r] \cap sb

\* A port moves by itself, perhaps to a chassis that drains.
Move(r, c) ==
  /\ MayHold(r, c) /\ bound[r] # c /\ moves < MaxMoves
  /\ bound' = [bound EXCEPT ![r] = c]
  /\ moves' = moves + 1
  /\ UNCHANGED <<nb, sb, pc, monitor, state, agent, faults, exits>>
  /\ Notify

\* It leaves a chassis that is gone or drains, for one that does not.
Failover(r, c) ==
  /\ MayHold(r, c) /\ ~Draining(c) /\ (bound[r] \notin sb \/ Draining(bound[r]))
  /\ bound' = [bound EXCEPT ![r] = c]
  /\ UNCHANGED <<nb, sb, pc, monitor, state, agent, counters>>
  /\ Notify

\* The NB monitor delivers what it has not delivered yet ...
MonitorUpdate(c) ==
  /\ pc[c] # "down" /\ cache[c] # View(c, routes, macs)
  /\ cache' = [cache EXCEPT ![c] = View(c, routes, macs)]
  /\ UNCHANGED <<nb, ovn, pc, missed, snapshot, agent, counters>>

\* ... or drops it: an INSERT or an UPDATE of a row is lost.
MonitorDrops(c) ==
  /\ pc[c] # "down" /\ Fault("monitor")
  /\ \/ \E x \in routes \ cache[c].routes :
          missed' = [missed EXCEPT ![c].routes = @ \cup {x.id}]
     \/ \E x \in macs \ cache[c].macs :
          missed' = [missed EXCEPT ![c].macs = @ \cup {x.id}]
  /\ UNCHANGED <<nb, ovn, pc, cache, snapshot, agent>>

\* What an agent that ends takes with it.
Forget(c) ==
  /\ Goto(c, "down")
  /\ cache' = [cache EXCEPT ![c] = NoRows]
  /\ missed' = [missed EXCEPT ![c] = NoRows]
  /\ state' = [state EXCEPT ![c] = NoState]
  /\ todo' = [todo EXCEPT ![c] = NoTodo]
  /\ missing' = [missing EXCEPT ![c] = [d \in Chassis |-> "no"]]
  /\ plan' = [plan EXCEPT ![c] = NoPlan]
  /\ drained' = drained \ {c}

\* The agent is killed; alone, or with its node, whose Chassis row goes too.  The
\* last node survives.
Crash(c) ==
  /\ pc[c] # "down" /\ exits < MaxExits
  /\ exits' = exits + 1
  /\ sb' \in {sb, sb \ {c}} \ {{}}
  /\ Forget(c)
  /\ UNCHANGED <<nb, bound, faults, moves>>
  /\ Notify

NodeReturns(c) ==
  /\ c \notin sb /\ moves < MaxMoves
  /\ sb' = sb \cup {c} /\ moves' = moves + 1
  /\ UNCHANGED <<nb, bound, pc, monitor, state, agent, faults, exits>>
  /\ Notify

-----------------------------------------------------------------------------
(* The agent: snapshots *)

\* refreshState replaces the snapshot, or returns early and leaves it as it is;
\* its callers do not learn which.
RefreshState(c, kind) ==
  \/ /\ state' = [state EXCEPT ![c] = Current(c)]
     /\ refresh' = [refresh EXCEPT ![c] = "done"] /\ UNCHANGED counters
  \/ /\ Fault(kind) /\ UNCHANGED state
     /\ refresh' = [refresh EXCEPT ![c] = "failed"]

\* Connect: the monitor delivers all rows, or all but one, and refreshState takes
\* the first snapshot; the signals so far are dropped.
Connect(c) ==
  /\ pc[c] = "down" /\ c \in sb
  /\ Goto(c, "idle")
  /\ \/ cache' = [cache EXCEPT ![c] = Server] /\ UNCHANGED missed /\ RefreshState(c, "refresh")
     \/ /\ Fault("monitor")
        /\ \/ \E x \in routes :
                /\ cache' = [cache EXCEPT ![c] = [Server EXCEPT !.routes = @ \ {x}]]
                /\ missed' = [missed EXCEPT ![c].routes = {x.id}]
           \/ \E x \in macs :
                /\ cache' = [cache EXCEPT ![c] = [Server EXCEPT !.macs = @ \ {x}]]
                /\ missed' = [missed EXCEPT ![c].macs = {x.id}]
        /\ state' = [state EXCEPT ![c] = Current(c)]
        /\ UNCHANGED refresh
  /\ UNCHANGED <<nb, ovn, agent>>

\* refreshLoop handles an SB event, or one of another table.
Refresh(c) ==
  /\ pc[c] \in Live /\ (refresh[c] = "due" \/ state[c] # Current(c))
  /\ RefreshState(c, "refresh")
  /\ UNCHANGED <<nb, ovn, pc, monitor, agent>>

-----------------------------------------------------------------------------
(* The agent: EnsureGatewayRouting *)

\* reconcile, on a copy of OVNState; without the MAC of the bridge the rows of
\* its routers have to wait.
Reconcile(c) ==
  /\ pc[c] = "idle"
  /\ Goto(c, "ensure")
  /\ \E mine \in {state[c].local, {}} :
       /\ IF mine = state[c].local THEN UNCHANGED counters ELSE Fault("bridge")
       /\ todo' = [todo EXCEPT ![c] =
                     [chassis |-> state[c].chassis, routers |-> mine, mac |-> {}]]
  /\ UNCHANGED <<nb, ovn, monitor, snapshot, missing, plan, drained>>

RouterDone(c, r) == todo' = [todo EXCEPT ![c].routers = @ \ {r}, ![c].mac = {}]
RouteDone(c, r)  == todo' = [todo EXCEPT ![c].mac = {r}]

(***************************************************************************)
(* ensureDefaultRoute: a route that is not managed is left alone, a        *)
(* managed one is tagged, and otherwise one is created.  A failure skips   *)
(* the MAC binding of the router.                                          *)
(***************************************************************************)
Mut_TagsPort(c, x) ==
  {IF y.id = x.id THEN [y EXCEPT !.tag = y.router] ELSE y : y \in routes}
Retag(c, x) == {IF y.id = x.id THEN [y EXCEPT !.tag = c] ELSE y : y \in routes}

EnsureDefaultRoute(c, r) ==
  LET known == {x \in cache[c].routes : x.router = r}
      new   == [id |-> FreshRoute, router |-> r, tag |-> c]
  IN  /\ pc[c] = "ensure" /\ todo[c].mac = {} /\ r \in todo[c].routers
      /\ \/ /\ r \in RealGateway \/ \E x \in known : x.tag = c
            /\ RouteDone(c, r) /\ UNCHANGED <<nb, monitor, counters>>
         \/ /\ r \notin RealGateway
            /\ \E x \in known : x.tag # c /\ Transact(c, Retag(c, x), macs)
            /\ RouteDone(c, r)
         \/ /\ r \notin RealGateway /\ known = {}
            /\ Transact(c, routes \cup {new}, macs)
            /\ RouteDone(c, r)
         \/ /\ r \notin RealGateway /\ (known = {} \/ \E x \in known : x.tag # c)
            /\ Fault("txn")
            /\ RouterDone(c, r) /\ UNCHANGED <<nb, monitor>>
      /\ UNCHANGED <<ovn, pc, snapshot, missing, plan, drained>>

\* ensureStaticMACBinding: the binding of the virtual gateway address.
Mut_KeepsOldMAC(c, x) == macs
Repoint(c, x) == {IF y.id = x.id THEN [y EXCEPT !.mac = c] ELSE y : y \in macs}

Gateway(rows, r) == {x \in rows : x.router = r /\ x.mac # Other}

EnsureStaticMACBinding(c, r) ==
  LET known == Gateway(cache[c].macs, r)
      new   == [id |-> FreshMac, router |-> r, mac |-> c]
  IN  /\ pc[c] = "ensure" /\ todo[c].mac = {r}
      /\ \/ /\ \E x \in known : x.mac = c
            /\ UNCHANGED <<nb, monitor, counters>>
         \/ \E x \in known : x.mac # c /\ Transact(c, routes, Repoint(c, x))
         \/ /\ known = {} /\ Gateway(macs, r) = {}
            /\ Transact(c, routes, macs \cup {new})
         \/ /\ known = {} /\ Gateway(macs, r) # {}  \* refused: the row is unique
            /\ UNCHANGED <<nb, monitor, counters>>
         \/ /\ \A x \in known : x.mac # c
            /\ Fault("txn") /\ UNCHANGED <<nb, monitor>>
      /\ RouterDone(c, r)
      /\ UNCHANGED <<ovn, pc, snapshot, missing, plan, drained>>

-----------------------------------------------------------------------------
(* The agent: entries of stale chassis *)

\* now.Sub(firstSeen) reaches the grace period and the jitter.
GraceOver(c, d) ==
  /\ pc[c] # "down" /\ missing[c][d] = "new"
  /\ missing' = [missing EXCEPT ![c][d] = "due"]
  /\ UNCHANGED <<nb, ovn, pc, monitor, snapshot, todo, plan, drained, counters>>

\* missingChassis after one look at the tags.
Mut_TrackRestarts(c, tags) ==
  [d \in Chassis |->
     IF d \notin tags \/ d \in todo[c].chassis \/ missing[c][d] = "due" THEN "no" ELSE "new"]
Track(c, tags) ==
  [d \in Chassis |->
     IF d \notin tags \/ d \in todo[c].chassis THEN "no"
     ELSE IF missing[c][d] = "no" THEN "new" ELSE missing[c][d]]

(***************************************************************************)
(* cleanupStaleChassis: the tags that ListManagedRouteChassis reads are    *)
(* held against the reconcile's copy of AllChassisNames.                   *)
(***************************************************************************)
CleanupStaleChassis(c) ==
  /\ pc[c] = "ensure" /\ todo[c].routers = {}
  /\ \/ Fault("list") /\ Goto(c, "idle") /\ UNCHANGED <<missing, plan>>
     \/ \E rows \in {Server, cache[c]} :
          LET tracked == Track(c, {x.tag : x \in rows.routes})
              stale   == {d \in Chassis : tracked[d] = "due"}
          IN  /\ CachedRows(c, rows)
              /\ missing' = [missing EXCEPT ![c] = tracked]
              /\ plan' = [plan EXCEPT ![c].chassis = stale]
              /\ Goto(c, IF stale = {} THEN "idle" ELSE "collect")
  /\ todo' = [todo EXCEPT ![c] = NoTodo]
  /\ UNCHANGED <<nb, ovn, monitor, snapshot, drained>>

StalePlan(stale, rows) ==
  LET old == {x \in rows : x.tag \in stale}
  IN  [chassis |-> stale,
       routes  |-> Ids(old),
       ports   |-> {x.router : x \in old} \ {x.router : x \in rows \ old},
       macs    |-> {}]

\* CleanupStaleChassisManagedEntries, up to the first delete: it reads the rows
\* itself.  When it fails the chassis stay tracked.
CleanupStaleChassisManagedEntries(c) ==
  /\ pc[c] = "collect"
  /\ \/ Fault("list") /\ Goto(c, "idle") /\ plan' = [plan EXCEPT ![c] = NoPlan]
     \/ \E rows \in {Server, cache[c]} :
          /\ CachedRows(c, rows)
          /\ plan' = [plan EXCEPT ![c] = StalePlan(plan[c].chassis, rows.routes)]
          /\ Goto(c, "stale")
  /\ UNCHANGED <<nb, ovn, monitor, snapshot, todo, missing, drained>>

-----------------------------------------------------------------------------
(* The agent: deleting rows, of stale chassis or at shutdown *)

\* One transaction per route ...
DeleteRoute(c, i) ==
  /\ pc[c] \in {"stale", "remove"} /\ i \in plan[c].routes
  /\ \/ Transact(c, Without(routes, {i}), macs)
     \/ Fault("txn") /\ UNCHANGED <<nb, monitor>>
  /\ plan' = [plan EXCEPT ![c].routes = @ \ {i}]
  /\ UNCHANGED <<ovn, pc, snapshot, todo, missing, drained>>

\* ... then the bindings are listed: by address for stale chassis, all those of
\* the port at shutdown ...
Doomed(c, rows) ==
  {x \in rows : x.router \in plan[c].ports /\ (x.mac = Other => pc[c] = "remove")}

ListBindings(c) ==
  /\ pc[c] \in {"stale", "remove"} /\ plan[c].routes = {} /\ plan[c].ports # {}
  /\ \E rows \in {Server, cache[c]} :
       /\ CachedRows(c, rows)
       /\ plan' = [plan EXCEPT ![c].ports = {}, ![c].macs = Ids(Doomed(c, rows.macs))]
  /\ UNCHANGED <<nb, ovn, pc, monitor, snapshot, todo, missing, drained>>

\* An error there ends the removal; the chassis stay tracked.
ListBindingsFails(c) ==
  /\ pc[c] \in {"stale", "remove"} /\ plan[c].routes = {} /\ plan[c].ports # {}
  /\ Fault("list")
  /\ Goto(c, IF pc[c] = "stale" THEN "idle" ELSE "remove")
  /\ plan' = [plan EXCEPT ![c] = NoPlan]
  /\ UNCHANGED <<nb, ovn, monitor, snapshot, todo, missing, drained>>

\* ... and deleted one by one.
DeleteBinding(c, i) ==
  /\ pc[c] \in {"stale", "remove"} /\ i \in plan[c].macs
  /\ \/ Transact(c, routes, Without(macs, {i}))
     \/ Fault("txn") /\ UNCHANGED <<nb, monitor>>
  /\ plan' = [plan EXCEPT ![c].macs = @ \ {i}]
  /\ UNCHANGED <<ovn, pc, snapshot, todo, missing, drained>>

Emptied(c) == plan[c].routes = {} /\ plan[c].ports = {} /\ plan[c].macs = {}

\* The removal is over, whatever failed in it, and the chassis are forgotten.
EndStaleCleanup(c) ==
  /\ pc[c] = "stale" /\ Emptied(c)
  /\ Goto(c, "idle")
  /\ missing' = [missing EXCEPT ![c] =
       [d \in Chassis |-> IF d \in plan[c].chassis THEN "no" ELSE missing[c][d]]]
  /\ plan' = [plan EXCEPT ![c] = NoPlan]
  /\ UNCHANGED <<nb, ovn, monitor, snapshot, todo, drained, counters>>

-----------------------------------------------------------------------------
(* The agent: shutdown *)

\* SIGTERM, in the select of Run.
Stop(c) ==
  /\ pc[c] = "idle" /\ exits < MaxExits
  /\ exits' = exits + 1
  /\ Goto(c, IF DrainOnShutdown THEN "drain" ELSE "leaving")
  /\ UNCHANGED <<nb, ovn, monitor, state, agent, faults, moves>>
  /\ Notify

\* DrainGateways returns: no port is left, or its time is over.  With a context
\* of its own refreshState follows.
Mut_NoRefresh(c) ==
  /\ pc[c] = "drain" /\ Goto(c, "leaving")
  /\ drained' = IF Local(c) = {} THEN drained \cup {c} ELSE drained
  /\ UNCHANGED <<nb, ovn, monitor, snapshot, todo, missing, plan, counters>>
DrainEnds(c) ==
  /\ pc[c] = "drain" /\ Goto(c, "leaving")
  /\ RefreshState(c, "drain")
  /\ drained' = IF state'[c] = Current(c) /\ Local(c) = {} THEN drained \cup {c} ELSE drained
  /\ UNCHANGED <<nb, ovn, monitor, todo, missing, plan>>

\* cleanup, with RemoveManagedNBEntries: the rows of the routers OVNState has
\* as local, whoever wrote them.
RemoveManagedNBEntries(c) ==
  /\ pc[c] = "leaving" /\ CleanupOnShutdown /\ state[c].local # {}
  /\ \/ \E rows \in {Server, cache[c]} :
          /\ CachedRows(c, rows)
          /\ plan' = [plan EXCEPT ![c] =
               [chassis |-> {},
                routes  |-> Ids({x \in rows.routes : x.router \in state[c].local}),
                ports   |-> state[c].local, macs |-> {}]]
     \/ Fault("list") /\ UNCHANGED plan
  /\ Goto(c, "remove")
  /\ UNCHANGED <<nb, ovn, monitor, snapshot, todo, missing, drained>>

\* Run returns.
Leave(c) ==
  /\ \/ pc[c] = "leaving" /\ (CleanupOnShutdown => state[c].local = {})
     \/ pc[c] = "remove" /\ Emptied(c)
  /\ Forget(c)
  /\ UNCHANGED <<nb, ovn, counters>>
  /\ Notify

-----------------------------------------------------------------------------
AgentStep(c) ==
  \/ Connect(c) \/ Reconcile(c)
  \/ \E r \in Router : EnsureDefaultRoute(c, r) \/ EnsureStaticMACBinding(c, r)
  \/ CleanupStaleChassis(c) \/ CleanupStaleChassisManagedEntries(c)
  \/ \E i \in plan[c].routes : DeleteRoute(c, i)
  \/ ListBindings(c) \/ ListBindingsFails(c)
  \/ \E i \in plan[c].macs : DeleteBinding(c, i)
  \/ EndStaleCleanup(c)
  \/ DrainEnds(c) \/ RemoveManagedNBEntries(c) \/ Leave(c)

Next ==
  \/ \E c \in Chassis :
       \/ AgentStep(c) \/ MonitorUpdate(c) \/ MonitorDrops(c) \/ Refresh(c)
       \/ \E d \in Chassis : GraceOver(c, d)
       \/ \E r \in Router : Move(r, c) \/ Failover(r, c)
       \/ Stop(c) \/ Crash(c) \/ NodeReturns(c)

(***************************************************************************)
(* Fairness: agents take their steps (a reconcile at least every           *)
(* reconcile_interval, restarts by the service manager), monitors deliver  *)
(* what they do not drop, the refresh loop handles the events it has, time *)
(* passes, and OVN moves the ports of a dead or draining chassis.  A       *)
(* refresh that no event asks for is never forced to happen.               *)
(***************************************************************************)
Fairness ==
  /\ \A c \in Chassis :
       /\ WF_vars(AgentStep(c)) /\ WF_vars(MonitorUpdate(c))
       /\ WF_vars(refresh[c] = "due" /\ Refresh(c))
       /\ WF_vars(\E d \in Chassis : GraceOver(c, d))
  /\ \A r \in Router : WF_vars(\E c \in Chassis : Failover(r, c))

Spec     == Init /\ [][Next]_vars
FairSpec == Spec /\ Fairness

-----------------------------------------------------------------------------
(* Properties *)

(***************************************************************************)
(* An agent that had no port left at the refresh after its drain removes   *)
(* nothing, whatever its earlier snapshots said: the rows the chassis      *)
(* taking over depends on survive the shutdown (RemoveManagedNBEntries).   *)
(***************************************************************************)
DrainedRemovesNothing ==
  \A c \in drained : plan[c].routes = {} /\ plan[c].ports = {} /\ plan[c].macs = {}

(***************************************************************************)
(* Convergence: once nothing moves or fails any more, every router held by *)
(* a live chassis has a managed route with the tag of that chassis and a   *)
(* binding to its bridge, whoever created, took over or removed the rows   *)
(* in between (EnsureGatewayRouting, and the two removals).  It takes a    *)
(* monitor of the holder that dropped nothing about the router, and agents *)
(* that are not deceived about it: that take each other's routers for      *)
(* their own, or its chassis for gone, since their last refresh failed.    *)
(***************************************************************************)
Served(r) ==
  /\ r \notin RealGateway => \E x \in routes : x.router = r /\ x.tag = bound[r]
  /\ \E x \in macs : x.router = r /\ x.mac = bound[r]

Dropped(c, r) ==
  \/ \E x \in routes : x.router = r /\ x.id \in missed[c].routes
  \/ \E x \in macs : x.router = r /\ x.id \in missed[c].macs

Deceived(c, r) ==
  /\ pc[c] \in Live /\ refresh[c] = "failed"
  /\ (bound[r] = c) # (r \in state[c].local) \/ bound[r] \notin state[c].chassis

EntriesConverge ==
  <>[](\A r \in Router :
         bound[r] \in sb /\ ~Dropped(bound[r], r) /\ (\A c \in Chassis : ~Deceived(c, r))
         => Served(r))

(***************************************************************************)
(* A dead chassis leaves no route behind: whatever fails in the clean-up,  *)
(* and whichever cleaner dies over it, no route keeps the tag of a chassis *)
(* that is gone for good (cleanupStaleChassis,                             *)
(* CleanupStaleChassisManagedEntries).  One live agent is enough whose     *)
(* last refresh did not fail.                                              *)
(***************************************************************************)
StaleRoutesGone ==
  <>[]((\E c \in Chassis : pc[c] \in Live /\ refresh[c] # "failed")
       => \A x \in routes : x.tag \in sb)

=============================================================================
