# ovn-network-agent in TLA+

TLA+ modules, TLC configurations and TLAPS proofs kept beside the Go source of
the agent (`src/`). They model what makes the agent hard to get right: several
agents that share two OVN databases, two goroutines that share one snapshot,
calls that fail half way, processes that die between two calls, and host state
that outlives the process.

1. [The system](#the-system)
2. [Modules](#modules)
3. [Runs](#runs)
4. [Fairness](#fairness)
5. [Proofs](#proofs)
6. [Where the code and its documents disagree](#where-the-code-and-its-documents-disagree)
7. [What is abstracted, and what is not modelled](#what-is-abstracted-and-what-is-not-modelled)
8. [Further work](#further-work)

## The system

The agent runs on every network node of an OpenStack deployment without
centralised gateways. OVN binds the gateway port of each router to one chassis;
the agent of that chassis makes the router's addresses reachable from outside.

| Part | State | Operations | Source |
| --- | --- | --- | --- |
| OVN client: event path | monitor caches, `OVNState`, three signal channels, two timers | `Connect`, event handlers, `refreshLoop`, `refreshState`, `GetState`, `Close` | `ovn.go`, `ovn_cache.go` |
| Main loop | phase, `reconcileCh`, the ticker | `Run`, `reconcile`, `cleanup` | `agent.go`, `main.go` |
| Gateway HA | NB `Gateway_Chassis.priority`, SB bindings | `EnsureActivePriorityLead`, `DrainGateways`, `RestoreDrainedGateways` | `ovn_gateway.go` |
| Managed NB entries | default routes with a chassis tag, static MAC bindings, `missingChassis` | `EnsureGatewayRouting`, `RemoveManagedNBEntries`, `cleanupStaleChassis` | `ovn_gateway.go`, `agent.go` |
| Route synchronisation | kernel routes, ip rules, FRR routes, `effectiveFilters`, `consecutiveReAdds` | `ensureRoutes`, `removeAllRoutes`, `verifyRoutes` | `agent.go`, `routing*.go` |
| OVS flows | cached patch port, ofport and MAC; the flow table | `EnsureOVSFlows`, `ReconcileOVSHairpinFlows`, `RemoveOVSFlows` | `ovs.go` |
| Veth leak | the pair, its default route, a route and a rule per network | `SetupVethLeak`, `ReconcileVethLeakNetworks`, `TeardownVethLeak` | `routing_linux.go` |
| Prefix list | FRR entries with their sequence numbers | `ReconcileFRRPrefixList` | `routing.go` |
| Bridge | address and proxy ARP of the provider bridge | `EnsureBridgeIP`, `EnableProxyARP`, `RemoveBridgeIP` | `routing_linux.go` |
| Port forwarding | nftables ruleset, VIP addresses, DNAT routing | `SetupPortForward`, `ReconcilePortForward`, `TeardownPortForward` | `nftables*.go` |
| Configuration, metrics | read once; written only | `loadConfig`; counters | `config.go`, `metrics.go` |

How they interact:

- OVSDB monitors call the event handlers from goroutines of libovsdb. A handler
  puts a token into a channel of capacity 1 and never blocks.
- The refresh loop turns tokens into calls of `refreshState`, which replaces
  `OVNState` under a mutex, and then into a token for the main loop
  (`triggerReconcile`).
- The main loop reconciles on a copy of `OVNState`: OVS flows, the managed NB
  entries, the priorities, the veth leak, the prefix list, port forwarding, the
  routes, and the cleanup after dead chassis, in this order.
- Agents never talk to each other. They meet in the rows of NB and in what OVN
  makes of them: priorities decide which chassis is elected, and the election
  decides whose agent writes next.

What is hard about it, each with its place, is the list of hazards in
`PROJECT.json`; in short:

- decisions on rows read earlier: a lagging monitor cache, or one that has lost a
  row or an update for good, a snapshot that an election has overtaken or whose
  refresh failed, ids of rows that changed hands;
- agents that act at the same time on the same rows, without a lock and without
  conditions in their transactions;
- wake-ups: a token that is thrown away, a timer that is cancelled, a refresh
  that began too early;
- two tables, kernel and FRR, that no transaction spans, under failing calls and
  kills;
- shutdown: drain, refresh and cleanup in an order on which the successor's
  rows depend;
- host state in five places (flows, links, rules, FRR, nftables) that earlier
  lives of the agent have left, and that others change under its caches.

What makes each part correct:

- *Gateway HA*: the active gateway stays active as long as its agent lives; what
  was drained stays away, and no drain is skipped in silence; priorities settle,
  and do not run away.
- *Event path*: no change is forgotten, and the last reconcile is based on what
  the databases hold.
- *Managed entries*: the router's route and binding end with the chassis that
  holds it; a leaving agent does not remove its successor's; a dead chassis
  leaves nothing behind.
- *Routes*: what is announced has a route under it; an undisturbed cycle brings
  both tables exactly to what is wanted; stale addresses are withdrawn.
- *Host*: an undisturbed cycle leaves exactly what the local routers ask for; a
  table that others use is made before it is broken; the host forwards only with
  its veth pair; a clean-up takes along whatever is there.

## Modules

Every component has a module, an `MC` module that only gives constants their
values, and, where there are proofs, a module of its own for them. The four
parts of the host (`OVSFlows`, `VethLeak`, `PrefixList`, `PortForward`) own their
variables and their operations; `HostCycle` composes them into the life of one
agent, in the order in which `Agent.Run` calls them.

| Module | Models | Abstract counterpart of |
| --- | --- | --- |
| `GatewayHA` | the priority protocol of all agents, with OVN's elections | `ovn_gateway.go` 91-224, 655-1026 and the phases of `Run` |
| `RefreshLoop` | one agent's two goroutines, its monitors and channels | `ovn.go` 225-411, 422-830, `ovn_cache.go` 116-222, `agent.go` 76-226 |
| `RouteSync` | one agent's routes in the kernel and FRR | `agent.go` 230-379, 473-798, `routing.go`, `routing_linux.go` 139-333 |
| `ManagedEntries` | the NB rows all agents write, take over and remove | `ovn_gateway.go` 67-85, 227-653, `agent.go` 397-464 |
| `OVSFlows` | the discovery cache and the flows of the bridge | `ovs.go` |
| `VethLeak` | the veth pair and the route and rule of each network | `routing_linux.go` 348-724 |
| `PrefixList` | the entries of the FRR prefix list | `routing.go` 327-422 |
| `PortForward` | VIP addresses, nftables table, policy routing | `nftables.go`, `nftables_linux.go` |
| `HostCycle` | setup, cycles, clean-up, kills and restarts of one host | `agent.go` 107-370, 647-685, `config.go` 391-421, 495-508 |
| `Follower` | abstract: copies of versioned data that only move forward | what a reconcile expects of `OVNState` (`GetState`, `authoritativeList`) |
| `DesiredSet` | abstract: a table that is made before it is broken | what the comment at `routing.go` 390 and the order of `ReconcileVethLeakNetworks` promise |

The modules divide the system along its shared state and meet in it:
`GatewayHA` says when a port does not come back to a draining chassis
(`DrainedStaysAway`), which `ManagedEntries` does not rely on: its ports may;
`RefreshLoop` justifies the one-step `Refresh` of `GatewayHA` and
`ManagedEntries` and the `Move` of `RouteSync`: `OVNState` changes in one step, at
any time after an event. `RouteSync` takes the set of local routers as given.

**Snapshots** (`GatewayHA`, `ManagedEntries`). `refresh[c]` says what became of the
last `refreshState`: an event waits for one (`"due"`, set by `Notify` in every step
that changes what the handlers watch), it worked (`"done"`), or one of its lists
failed (`"failed"`). A failed one leaves the snapshot as it was, after `Connect`
an empty one, and nothing repeats it: the signals before it are drained
(`ovn.go:333`), the event is used up, and the ticker reconciles without
refreshing (`agent.go:221-223`). It takes a further event. One of another table
will do, so a refresh may always happen, but only one that is due must.

### GatewayHA

`prio[l][c]` is the priority of chassis `c`'s row for port `l`, `bound[l]` the
chassis that holds it. Each agent has a phase (`pc`), a monitor cache
(`nbCache`, with `hidden` rows it never gets), and `local`, its
`OVNState.LocalRouters`. `OwnRow` is an own row as the code gets it: from the cache,
and by the direct select only when the cache has no row of the chassis at all
(`HasLocalRow`). `Reached` says whether a drain gets at a row by one of the two. `CheckLead` is the reading half of
`EnsureActivePriorityLead`, up to the SB confirmation; `BoostPriorities` is its
transaction. Between the two anything may happen: that is the race the module
is about. `LowerPriorities`, `PollEmpty`, `PollFails`, `DrainEnds` are
`DrainGateways`; a drain starts from the main loop's select, so a shutdown
during a reconcile waits for it. OVN elects the live chassis of highest priority (`Winners`);
`TieFlaps` lets it pick any chassis of a tie, `ReleaseFirst` lets the old holder
give a port up before the new one claims it, `PromptElections` makes
elections fast.

### RefreshLoop

The content of a table is the number of its last change, so that "behind" is an
inequality. A change travels `server` - `cache` and `events` - a token in
`debounceCh` or `immediateCh` - `debounceTimer` - a scan (`todo`, `got`) -
`state` - `reconcileTimer` - `reconcileCh` - `snap` - `applied`, and each arrow
is an action. `refreshState` is one step per table and one for the swap, for
both goroutines that run it. The chassisredirect rows of Port_Binding, whose events bypass
the debounce, are a table of their own; Gateway_Chassis, which
`EnsureActivePriorityLead` lists from the cache itself, is not read by the scan
(`Direct`). A reconcile ends, for this module, when it has read those rows: what it
does afterwards takes nothing from the event path.

**Refinement.** `Follower` is the abstract specification of a reader that keeps
copies of versioned sources: a copy is never ahead of its source and never goes
back, unless the reader is leaving. `RefreshLoop` implements it twice, with
`OVNState` as the copy of the tables it lists (`Snapshot`) and with what the last
reconcile was based on as the copy of all tables (`Applied`); *leaving* is a
cancelled context. `applied` outlives the process, as the routes do, so that the
second one spans restarts. `FollowsServer` is the conjunction, checked by TLC
as a property and proved by TLAPS.

### RouteSync

A cycle is `Reconcile` (decide what is wanted), `List`, `AddKernelRoute` per
address, `AddFRRRoutes`, `DelFRRRoutes`, `DelKernelRoute` per address,
`EndRoutes`, and once more for `verifyRoutes` when FRR changed. `job` says which
of the three functions runs. A killed agent may leave the kernel call it was in
half done. `Flush` is `CleanupRoutingTable`, the rules before the routes; it may
fail at its list or at a rule or route, or be killed anywhere. An
`AddKernelRoute` whose rule fails takes its route back, or fails at that too. `since` is a history variable: the failures and drifts before the
cycle began, so that a property can speak of undisturbed cycles.

### ManagedEntries

`routes` and `macs` are the managed rows, with ids as OVSDB has them: a rewrite
keeps the id and a removal names it. `EnsureDefaultRoute` and
`EnsureStaticMACBinding` work on the agent's cache, one transaction each. That
cache need not become the server's: a monitor may drop the INSERT or an UPDATE
of a row (`MonitorDrops`, or `Connect`), and then shows no row or an old one until
the row is deleted or the agent connects anew (`missed`, `Seen`). A binding it
does not show is created again, which the unique index of the table refuses; a
route it does not show is created twice. Without the MAC of the bridge a
reconcile leaves the rows alone.
`CleanupStaleChassis` reads the tags and does the bookkeeping of
`missingChassis`; `CleanupStaleChassisManagedEntries` reads the rows again and
collects the ids of doomed ones in `plan`; each of the two reads is of the server or, when
it cannot be asked, of the cache (`CachedRows`). `DeleteRoute`, `ListBindings`, `DeleteBinding`
carry it out one call at a time; `RemoveManagedNBEntries` fills a plan of the
same form at shutdown. Time is `GraceOver`: the grace period of a tracked
chassis may end at any moment after the tracking began.

### HostCycle and its parts

`job` is what the main goroutine is at: the setup, an active, passive or
port-forward-only cycle, or the clean-up; `at` is the next call of the job, and
`SetupCalls`, `CycleCalls` and `CleanupCalls` are the calls in the order of the
source. A call is one operation of a part, and has three outcomes (`Call`): it
works, one of its steps fails, or the process is killed on the way. Each part
says what that leaves: `ReconcileVethLeakNetworks` is the call without trouble,
`...Fails` what an error leaves, `...Cut` what a kill leaves. A failing call of
the setup ends the process and systemd starts it again; a failing call elsewhere
is logged and the job goes on. `cfg` is chosen once: `validateMode` and
`validateConfig` say which configurations start at all.

- `OVSFlows`: `patch` and `bridgeMAC` are what the bridge has, `cachedPatch` and
  `cachedBridgeMAC` what the agent believes. `refreshOVSDiscovery` keeps the cache as
  long as the cached port has the cached number. A flow is a record of what it
  matches and writes.
- `VethLeak`: the pair, the default route across it, and the sets of networks
  with a route (protocol 44) and with a rule. Deleting the pair deletes the
  routes, not the rules.
- `PrefixList`: a function from listed networks to sequence numbers.
- `PortForward`: the VIPs on the device, the table (`buildNftRuleset` keeps what
  depends on OVN), and the two rules and the route of the policy routing.

Other hands: the patch port is recreated or goes, the bridge gets another MAC,
flows are lost with ovs-vswitchd, a leak route or rule, the pair, a prefix-list
entry or the nftables table is removed.

**Refinement.** `DesiredSet` is the abstract specification of a table others rely
on: an entry is added only when it is wanted, and removed only when no wanted one
is missing. `HostCycle` implements it three times, for the leak rules, the leak
routes and the prefix list (`Rules`, `Routes`, `Prefix`: `INSTANCE ... WITH`, `want`
mapped to what the current job works towards); `MakeBeforeBreak` is the
conjunction, checked by TLC as a property and proved by TLAPS.

## Runs

All bounds are CONSTANTS: `MaxFaults` failures of the kinds in `Faults`,
`MaxExits` shutdowns, kills and node deaths, `MaxMoves` ports that move by
themselves, `MaxChanges` row changes, `MaxDrifts` routes removed by others. Two
agents suffice for most races, since all of them are between one writer and one
reader of the same row; the one of a cleaner, a dead chassis and its successor
takes three and has its own run. One failure or two at any place of a cycle
reach every error path, because the paths do not depend on how many failures
came before. Deadlock is checked in every run: nothing in the models may stop,
and `Close` waiting for the refresh loop is part of that.

| Run | Shows |
| --- | --- |
| `ha_lead` | `NoReverseFailover`, `DrainedStaysAway`, `DrainNotSkipped`, `BoostRaises` with one port, flapping ties, slow elections, caches that miss any rows of it, failed transactions, reads and refreshes, two exits, all initial priorities of {0, 1, 2} |
| `ha_ports` | `DrainedStaysAway` with two ports, where the monitor of the draining chassis misses none, one or both of its rows; flapping ties let it hold one port and not the other when it drains |
| `ha_converge` | `LeadEstablished`, `ShutdownEnds`, `PriorityGrowth` under fairness, with every kind of failure, lost replies and unrepeated refreshes included, and complete caches |
| `refresh_loop` | `ChangeCovered`, `WakeupPending`, `QuietIsCurrent`: two changes against every interleaving of the main loop, the refresh loop and the monitors, with a failed connection or select |
| `refresh_converge` | `RefreshHeals`, `Converges`, `FollowsServer` through a shutdown, a restart and a change a monitor lost |
| `routes_converge` | `NoBlackHole`, `SmoothCycleExact` and `Converges` with two routers, a VIP, two failures, a drift, two moves and an exit, on one provider network and with a dedicated routing table |
| `entries_converge` | `EntriesConverge`, `StaleRoutesGone`, `DrainedRemovesNothing`: two agents that drain and clean up at shutdown; one refresh that fails and is not repeated, failed drain refresh or failed transaction, one move or return of a node, one exit |
| `entries_stale` | `EntriesConverge`, `StaleRoutesGone`: three chassis, one of which only cleans up, and a binding somebody else keeps; one change that a monitor drops, or one failed transaction, list, select or MAC lookup; two exits, no drain or cleanup at shutdown |
| `host_converge` | `CycleExact`, `NumbersDistinct`, `ForwardingNeedsVeth`, `CleanShutdown`, `MakeBeforeBreak`, `Converges`: two routers with a network each; one failure or interference, one move, two exits; three configurations: everything on with automatic networks, manual networks without forwarding or clean-up, and port forwarding only |

The remaining three runs, `ha_restore`, `refresh_signals` and `routes_failover`, end in a
counterexample; see [below](#where-the-code-and-its-documents-disagree).

Both runs of `ManagedEntries` start with the router on chassis 1 (`FromFirst`), and lose
nothing by it: no action distinguishes 1 from 2. They share the failures among them,
because a refresh that fails makes an agent's snapshot a free choice from then on: with
three chassis the states are too many.

The actions of `GatewayHA` treat ports independently but for two things: the
transaction, and the row-present test, which asks for any row of the chassis. With
one port the test is about that port; `ha_ports` has two, so that a cache may
hold one row of the draining chassis and miss the other. That row the drain does not
reach (further observations), and `DrainedStaysAway` does not speak of it. The theorems hold for
any set of ports, with the same exception for `DrainIsFinal` and `DrainNeverSilent`.
The two ports of `ha_ports` are interchangeable, and TLC uses it (`SYMMETRY`); the run
checks no liveness.

Some runs leave a case out on purpose, because the property is false with it:

- `ha_lead` has neither a lost reply nor a failed SB read. With a lost reply a
  boost may lower the row it writes. With a failed SB read the code trusts its
  snapshot by design (comment at `ovn_gateway.go:176-178`) and may overtake the
  new holder. `ha_converge` includes both and shows that the system settles.
- `ha_converge` has complete caches. An agent whose monitor misses a peer's row for
  good cannot see how high that row is, and one that misses its own row while it has
  another of its chassis never boosts it: no lead is established there, and nothing in the
  code repairs it but a new connection. It has failing refreshes: `LeadEstablished`
  then excuses the agent that does not know of its port (`Unaware`), whose chassis holds the
  port without a lead.
- `ha_converge` has `PromptElections`. With elections that lag behind the
  agents' reads two agents may each find the port unbound or their own, and top
  each other as long as that lasts; `PriorityGrowth` then has no bound but the
  schema's. The bound allows one step per chassis for each exit or failure, and
  for the start. Less is not enough: with three chassis, and without any exit or
  failure, a port may pass through all hands before the first agent writes. All
  three boosts are then on their way at once and end in a tie, and of those who
  tie all but one may go a step higher before an election follows.
- `refresh_loop` and `refresh_converge` let OVN change rows only after `Connect`
  (`ChangePhases`), because of `refresh_signals`; `refresh_loop` only in the main loop, because of
  the flush of `reconcileCh` that ends the start-up. A failing List is excluded as
  well: a refresh that fails is not repeated, and its change waits for the next event.
- `FollowsServer` needs the direct select: when it fails, `authoritativeList` falls
  back on a cache that may be older than what an earlier refresh listed from the
  server, and `OVNState` goes back until the next refresh. That is the price of going
  on without the server. It needs List, too: one that fails during `Connect` leaves
  `OVNState` empty, and the first reconcile withdraws what an earlier life applied.
- `Converges` of `RefreshLoop` leaves out a cache that stays behind for good: the
  periodic reconcile does not refresh. `RefreshHeals` says what helps.
- `NoBlackHole` speaks of the time before the first failure or drift: after a failed
  call the order is lost, and a route somebody else removes is
  announced until the next cycle. With a dedicated table it needs every address,
  the VIP included, to be in a provider network: the shutdown flushes that
  table whatever is still announced (further observations).
- `routes_converge` has one network, because of `routes_failover`.
- `ForwardingNeedsVeth` speaks of the time before the first failure or
  interference: a teardown of the forwarding that fails does not keep the
  clean-up from removing the pair.
- In `HostCycle`, `CycleExact` and `Converges` compare the flows with the MAC the
  discovery found, and ask for leak routes only where the pair is: a new MAC
  under the same port is not noticed, and only a start makes the pair again.
- `DrainedRemovesNothing` speaks of drains whose refresh succeeded: without it the
  agent removes what it still takes for its own.
- `EntriesConverge` speaks of routers of which the holder's monitor has dropped
  nothing (`Dropped`) and about which no live agent is deceived (`Deceived`: its last refresh
  failed, and it takes the router for its own, does not know that it is, or takes the holder
  for gone). Otherwise the binding may stay wrong, or two agents tag the
  route in turn (further observations). `entries_converge` reaches the second condition and
  `entries_stale` the first, and they show that nothing else keeps the rows from converging.
- `StaleRoutesGone` needs one live agent whose last refresh did not fail: the others do
  not know that the chassis is gone. `entries_converge`, where refreshes fail, has one
  survivor, which may be deceived for a while or for good.

## Fairness

`WF` throughout, of actions that the code cannot put off for ever:

- *Agents*: the main goroutine reconciles at least every `reconcile_interval`,
  its waits have deadlines (`drain_timeout`, the 10 s of the refresh after the
  drain and of the cleanup), and the service manager starts the
  process again (`Restart=` in `ovn-network-agent.service`).
- *Time*: an agent whose grace periods wait to end sees one of them end (`GraceOver`); nothing
  is said of which.
- *Monitors and handlers*: libovsdb delivers updates and calls handlers in order;
  what a monitor drops it never delivers.
- *The refresh loop*: a goroutine with a select that is never blocked by a send. In
  `GatewayHA` and `ManagedEntries` it is fair to a refresh that an event has asked for
  (`refresh[c] = "due" /\ ...`), and not to one that would only repeat a failed one.
- In `HostCycle`: `WF` of `Step` (a call returns, also `Connect`: OVN can be
  reached in the end), of `Start` (the service manager) and of `Reconcile` (the
  ticker).
- *OVN*: the elected chassis claims a port (`Claim`, `Failover`); released ports
  need nothing more.
- `SF_vars(BeginDrain)` in `RefreshLoop`: the select of `Run` may find
  `ctx.Done()` ready together with `reconcileCh` and the ticker, which are ready
  again and again. Go picks among ready cases uniformly at random, so the
  branch is not passed over for ever; weak fairness of the goroutine alone would
  allow it.
- Failures, exits, moves, drifts and changes are never fair: they may stop, and
  the bounds make them stop. Convergence is stated for what follows.

## Proofs

`tlapm` checks every theorem; none assumes anything but the named ASSUMEs of its
modules and the hypotheses it states.

**GatewayHAProofs**, for any finite set of chassis, any set of ports, any
priorities and bounds (`HAAssumption`):

- `TypeCorrect`: `Spec => []TypeOK`. The interesting part is that priorities stay
  within the schema's range, since a transaction above it is refused as a whole. It
  rests on `BoundedMax`: the maximum `Max` of the community modules chooses exists for a
  nonempty bounded set of integers (by well-founded induction).
- `BoostsOnlyRaise`: `[]BoostRaises` if no reply is lost. The inductive invariant
  is `LeadInv == TypeOK /\ OwnRowsExact /\ BoostRaises`: nobody but the agent
  writes a chassis' rows, and its cache has seen its own writes, so a
  boost above the cached row is above the real one.
- `LeadIsKept`: `NoReverseFailover`, if in addition the SB confirmation read does
  not fail. Under `LeadInv` every action keeps `Leads`: an election cannot pick anybody
  else, peers' rows change only by restores (to 1, below 2), drains (to 0) and
  pending boosts (below the lead by the definition of `Leads`), and a new boost of a peer is
  stopped by the confirmation, because the port is bound to the leader.
- `DrainIsFinal`: `DrainedStaysAway`, if no reply is lost, whatever rows the monitors
  miss. `DrainInv` adds that no row of a draining chassis that the drain can reach
  (`Reached`) is above 0; a port can then come back only in an election in which nobody is
  above 0. The row-present test depends on all rows of the chassis, so that the
  lowering of one might change what is in reach of the others; it does not, because a drain
  neither makes nor removes rows (`ReachedStable`).
- `DrainNeverSilent`: `DrainNotSkipped`, if no reply is lost. It follows from
  `OwnRowsExact`: what the drain gets of the rows in its reach is what they are.

**GatewayGrowthProofs**: `PrioritiesBounded`, `[]PriorityGrowth`, for any finite set
of chassis, any ports, initial priorities and bounds, every kind of failure,
caches that miss rows and ports that are released before they are claimed, if
ties do not flap and elections end before the agents read them (`TieFlaps = FALSE`,
`PromptElections = TRUE`; without these two agents may top each other without end).
The property is far from inductive: it says nothing of boosts that are decided
and not yet written, of which every agent may have one in flight. `GrowthInv` gives
every chassis a ceiling of its own. `Base` is the highest initial priority and, for
each exit or failure so far, as many steps as there are chassis. A row of
chassis `c`, and a boost of it in flight, are at most `Base + Rank(c)` (`RanksKept`),
where the rank counts the chassis with smaller ids. OVN breaks ties in favour of
the greatest id, so that an agent that is elected sees peers of higher rank
below its own row, and peers of lower rank at a lower ceiling (`WinnerAhead`,
`ElectedBoost`); and with prompt elections an agent that boosts on a confirmed read
is elected. A boost on an unconfirmed read is a failure, which raises `Base` by more than
any rank (`AnyBoost`, `CostStep`). The rest of the invariant keeps below `Base` whatever
takes no part in elections but may still be read: rows of dead nodes and of agents
about to drain (`AwayBelow`), cached values above the row (`CacheBelow`), and rows their own
agent misreads after a lost reply (`OwnBelow`, `BoostBelow`).

**RefreshLoopProofs**, for any tables, order of reading and bounds
(`RefreshAssumption`):

- `NoChangeForgotten`, `[]ChangeCovered`, for any tables and order of reading,
  if no monitor loses a change, no List fails and OVN is quiet during `Connect`.
  `ChangeCovered` is not inductive: a scan replaces `state` by what it listed a
  while ago. `CInv` adds that whatever a scan has listed too early is on its way
  again (`ScanCovered`), that the cache is what the monitor has seen, and that
  the first snapshot is current when the loop takes over (`StartsCurrent`).
- `TypeCorrect`: `Spec => []TypeOK`; that events stay within their bound is
  `EventsBounded`: one event per change, and the one of `Connect`.
- `NoWakeupLost`: `[]WakeupPending`, whatever monitors lose and whichever
  selects, connections and shutdowns fail or happen, if no List fails and OVN is
  quiet until the main loop begins: the code empties `reconcileCh` after the
  initial reconcile, and with it a wake-up for anything that changed since its
  snapshot (`StartsStable` says that then nothing has).
- `QuietAgentIsCurrent`: `[]QuietIsCurrent`, the safety half of `Converges`,
  under the hypotheses of both. For the tables of `OVNState` it follows from the
  two invariants; for `Gateway_Chassis`, which only the reconcile reads,
  `DirectCovered` adds that as long as the last reconcile came too early,
  something is on its way that ends in another.
- `NoReconcileGoesBack`: `Spec => FollowsServer`, the refinement, whatever
  monitors lose, whichever connections fail and whenever the agent is stopped,
  if List and the direct select work. The invariant is the order in which
  versions travel: until the context is cancelled, what a scan has listed is at
  least as new as `OVNState` (`ScanAhead`), `OVNState` as the copy a reconcile
  works on, and this copy as what was applied (`StateAhead`), across `Connect`
  too; and nothing is ahead of the databases (`CacheBehind`, `CopiesBehind`).
  `LoopServes` adds that the two goroutines do not scan at the same time before
  the shutdown.

**RouteSyncProofs**: `TypeCorrect`; `AnnouncedHasRoute`, `[]NoBlackHole`, for any
routers, addresses, networks and filters, unless the shutdown flushes a dedicated
table (`~RouteTable \/ ~CleanupOnShutdown`). `OrderInv` says, phase by phase, what
stands between the two tables: what is to be announced is in the kernel or in
the queue, and what is in the queue of removals is not announced.
`SmoothCyclesExact`: `[]SmoothCycleExact`, without that restriction. The property
speaks of the end of a cycle only; `Progress` says of each phase of each job what a
smooth cycle has already added, and what it would miss if its lists were stale,
and `SinceInv` that troubles are only counted up, so that a cycle that is smooth now has
been so at each earlier step.

**ManagedEntriesProofs**, for any finite set of chassis, any routers, other bindings
(finitely many) and bounds: `TypeCorrect`: `Spec => []TypeOK`. `TypeInv` adds that the
agents' variables are functions on the chassis and that all sets of rows and ids are
finite: a new row takes an id that nobody has or remembers, and that there is one
is a pigeonhole argument (`FreeIsFree`, `FreshIds`). `DrainedLeavesRows`:
`[]DrainedRemovesNothing`. `DrainedInv` adds that only a removal in progress has a plan, and
that a drained agent is past its last refresh with no router in its snapshot.

**HostCycleProofs**, for any finite set of networks, any routers, addresses, patch
ports, MACs, VIPs, configurations the code accepts, kinds of failures and bounds
(`HostAssumption`, `PatchAssumption`):

- `TypeCorrect`: `Spec => []TypeOK`. That the hairpin flows are well typed needs
  that a cached port comes with a cached MAC.
- `NumbersStayDistinct`: `[]NumbersDistinct`. `HostInv` is `TypeOK` with
  `NumbersDistinct`. The step is about `ReconcileFRRPrefixList`: the new numbers are
  above all listed ones (`NumbersAbove`) and distinct among themselves, so that the
  union stays injective (`WithDistinct`), and so do its restrictions.
- `TablesMadeBeforeBroken`: `Spec => MakeBeforeBreak`, the refinement: `Init`
  implies the initial predicate of each `DesiredSet`, and under `HostInv` each call, with
  all its outcomes, is a `Sync` of each of the three tables, each interference a
  `Lose`, and everything else a stutter (`TablesStep`). No fairness is involved.
- `ForwardingKeepsVeth`: `[]ForwardingNeedsVeth`. By itself the property is not
  inductive: in the middle of a clean-up it depends on which calls are over.
  `ForwardInv` adds, for each place in the setup and in the clean-up, what is
  already there and what is already gone: before the first forwarding of a setup
  there is the pair, and when the pair goes the table and the routing have
  gone. That all setups come back to the same configuration is part of it.

**HostExactProofs**, from the same assumptions:

- `CyclesExact`: `[]CycleExact`. `Holds` says of each call what it is there for, and
  `CycleInv` that as long as the cycle is `Smooth` all calls before `at` hold. A
  call does its part and disturbs no earlier one (`CycleCall`); only
  `EnsureOVSFlows` could, through the cache, and it comes first. At the end of
  each of the three kinds of cycle the parts add up (`CycleDone`).
- `CleanUpComplete`: `CleanShutdown`. The clean-up skips what is not configured, so
  `FeatureInv` says that a feature that is not configured has left nothing;
  `CleanInv` says what the calls before `at` have taken away (`GoneBefore`), and
  that troubles are only ever counted up, so that a smooth job has been smooth all along.

Only model-checked: all liveness (`LeadEstablished`, `ShutdownEnds`,
`RefreshHeals`, the three `Converges`, `EntriesConverge`, `StaleRoutesGone`), because
ENABLED and fairness are out of the prover's reach. Every safety property that a
passing run checks is stated by a theorem.

## Where the code and its documents disagree

Each of three runs checks one statement of a comment or a page and finds a
counterexample; the quotes are in `PROJECT.json`.

| Run | Statement | What happens |
| --- | --- | --- |
| `ha_restore` | on restart the active chassis is already at 2 | a quick restart restores to a tie with a peer still at 1 |
| `refresh_signals` | signals before `drainSignals` are redundant | a change after its table was listed is lost with them |
| `routes_failover` | on failover the router's routes are removed | not when its network leaves the auto-discovered filters with it |

### Further observations

No run checks these; the models contain the steps, and the properties that do
hold are stated around them.

- `ovn_gateway.go:984-985` calls boosting a port that is bound nowhere "an
  in-progress election, where a boost is harmless". The election may be of
  another chassis, which the boost of the old holder then overtakes (`Boosts` with
  `bound[l] = None`).
- `ovn_gateway.go:655-656`: a drain sets the priority to 0 "for this chassis on all
  locally-active router ports". Not on a port whose row the cache lacks while it has another row
  of the chassis (868-879): the fallback select is for a cache without any (`OwnRow`).
- `ovn_gateway.go:347-348`: "ensures a static MAC binding exists" that points to the local
  bridge. When the monitor missed the binding it is created again in every cycle, which the
  unique index refuses, and it never points to the new holder (the last branch but one of
  `EnsureStaticMACBinding`, `Dropped`).
- `ovn_gateway.go:524-526` cleans up "chassis that no longer exist in the SB Chassis
  table". An agent whose first `refreshState` failed knows of no chassis at all; after the
  grace period it removes the routes and bindings of living ones, which write them again in
  their next cycle (`Track` with an empty snapshot).
- `how-it-works.md:71-75`: surviving agents clean up the "static routes and MAC bindings" of a
  dead chassis. Bindings are reached through tagged routes only, and a router with a gateway of
  its own (`RealGateway`) has none: its binding stays until a new holder repoints it.
- `how-it-works.md:44-45`: kernel routes "with IP rules when using a dedicated routing
  table". A kill between the two calls leaves a route without its rule, and later cycles
  compare routes only (`Kill` at `addKernel`).
- `ovn_gateway.go:655-659`: the drain "polls the SB Port_Binding table until all
  gateways have moved away". With `gateway_port` set `countLocalCRPorts` (969)
  counts one port, while the rows of all were lowered (`LocalRouters` against
  `DrainCandidates`).
- `agent.go:162-163`: the signals flushed before the main loop are stale, as "the
  initial reconcile already handled the current state". A refresh that ended
  during that reconcile is not in the copy it worked on; it waits for the ticker.
- `how-it-works.md:70`: the agent "Reconciles periodically as a safety net". The
  periodic reconcile (`agent.go:221-223`) uses `OVNState` as it is; a change a monitor
  lost waits for an event, of whatever table.
- `agent.go:198-204`: "The OVN refresh loop stopped the moment ctx was
  cancelled". Its last `refreshState` may still be on its way and may put the older
  snapshot back after the one that follows the drain. It would have to outlast
  the whole drain with reads that succeeded before the cancellation.
- `agent.go:546`: "Remove FRR first to stop attracting traffic before tearing
  down the data plane". A failed `DelFRRRoutes` is logged (562-574), and the
  kernel routes go all the same.
- `routing_linux.go:171` rolls a route back to "avoid an orphaned route without a
  matching rule". The result of the `RouteDel` that does it is ignored (174); when
  it fails too, the orphan stays, like that of the kill above.
- `ovn_gateway.go:801-805`: the restore has the row-present test of the drain, and
  leaves a row at 0 that the cache lacks beside another (`OwnRow` in
  `RestoreDrainedGateways`).
- `EnsureActivePriorityLead` compares with the peers the cache shows. A peer's row
  that is missing there may be as high, and the boost then ends below it.
- `refreshState` (`ovn.go:422`) returns nothing, and its callers go on as if it had
  worked. An agent whose snapshot still has a router that moved away keeps tagging its
  route and repointing its binding, and the new holder takes them back in each of
  its cycles, until the next event (`Deceived`).
- `metrics.md:35`: the "Number of consecutive reconcile cycles that required
  route re-adds". Cycles that changed no FRR route do not reset it
  (`agent.go:593`).
- `how-it-works.md:87-88`: shutdown "removes all managed routes". Those outside the
  networks of the last cycle, such as a VIP, are not managed (`agent.go:608`).
- `how-it-works.md:71-75`: also the deletion of a binding that fails
  (`ovn_gateway.go:642`) is not tried again; the route that led to it is gone.
- `ovn_gateway.go:226` adds a default route "if not already present", on the
  agent's cache and without a condition in the transaction: two agents may add
  one each.
- `ovn_gateway.go:527-528`: only entries with "a matching chassis tag are
  removed". They are deleted by UUID (609), also when the successor has re-tagged
  them since the list.
- `ovn_gateway.go:392` removes entries "created by this agent instance". All
  static bindings of the port go (478-482).
- A VIP outside the provider networks of the last cycle stays announced in FRR
  after the clean-up (`isManaged`, `agent.go:792`), while `CleanupRoutingTable` flushes
  its kernel route with the dedicated table (`agent.go:661`).
- `ovs.go:84-85`: `refreshOVSDiscovery` makes the cached values "reflect the current
  br-ex state". The fast path (98-100) looks at the ofport only; another MAC of
  the bridge is found when the port changes or the agent restarts.
- `gatewayless-networks.md:113-115`: hairpin flows go when no router is locally active
  any more. After a restart without local routers nothing has been
  discovered, and `ReconcileOVSHairpinFlows` returns early (`ovs.go:178`); the flows of
  the earlier life stay. The passive cycle never removes MAC-tweak flows.
- `architecture.md:194`: "On shutdown, all resources are cleaned up". A stop that comes
  while `connectWithRetry` waits for OVN (`agent.go:148-150`) returns before the
  clean-up, whatever an earlier life has left (`Kill` at `Connect`).
- `RemoveOVSFlows` (`ovs.go`) returns when it cannot delete the tweak flows, and leaves the
  hairpin flows; `proxy_arp` is never reset; and a feature that is switched off between two
  lives leaves its state, since the clean-up of a feature asks for its configuration.
- `SetupPortForward` (`nftables_linux.go:48`) puts up the guard of the veth pair without
  networks, before OVN is connected: until the first cycle it drops the return traffic of
  the leak rules an earlier life left.
- The veth pair and its default route are made in the setup only; when others
  delete them the cycles go on without (`VethLost`), until the agent restarts.
- `frr-prefix-list.md` describes the entries of manual networks as static. Without a
  local router they are removed as well, and the port-forward-only mode makes none.

## What is abstracted, and what is not modelled

- Names, addresses, MACs and rows are members of small sets. A static route of
  `ManagedEntries` is its id, router and tag; the branch of `ensureDefaultRoute`
  that corrects a next hop writes the same row and tag as the one that re-tags it.
- A binding is matched by port and gateway address; `Other` stands for one of
  another address.
- A grace period of 0 switches the stale cleanup off in the code; the model has
  it on. The jitter is part of `GraceOver`.
- In `ManagedEntries` the last node survives, and the refresh after the drain is
  one step; the race it may lose is among the further observations.
- In `GatewayHA` the drain's settle hold and its timeout are one action that may
  happen at any time: nothing depends on how long they take.
- `removeAllRoutes` lists FRR and, after the withdrawal, the kernel; the model
  lists both at once. Between the two the agent changes FRR only, so the lists
  are the same but for a drift in between.
- `PortForwardOnly` is in `RouteSync` as the code has it, but no run sets it.
- A failed first refresh leaves `OVNState` empty: the first reconcile then
  withdraws the routes of an earlier life of the process until an event comes.
  `GatewayHA` and `ManagedEntries` have such refreshes (`Fault("refresh")`), and their
  properties say for whom they hold nevertheless. `RefreshLoop` has failing Lists
  (`Fault("list")`); its properties that need List to work are named under
  [Runs](#runs) and [Proofs](#proofs).
- `refreshState` of `GatewayHA` and `ManagedEntries` reads its tables at one moment. That
  it reads one after the other, and that `OVNState` may combine tables of different
  moments, is in `RefreshLoop`; there `ChangeCovered` says that another refresh follows,
  and no property forbids the combination. `FollowsServer` does not see it, since it speaks
  of each table by itself; nor does it see the shutdown, which it leaves out.
- A monitor that drops a change of a managed row (`ManagedEntries`) or of a
  `Gateway_Chassis` row (`GatewayHA`) is in the models; one that drops a Logical_Router row,
  which `ensureDefaultRoute` looks up as well (`ovn_gateway.go:235`), is not: that
  router then has no managed route until the row is seen.
- `cachedList` of `RefreshLoop` compares whole tables. The code compares the check
  columns (`ovn_cache.go:48-56`), which leave out some that `refreshState` uses, among them the
  name of a port or chassis and the options and external ids of a port binding (`ovn.go:591`,
  598). An update of those alone that a monitor drops is not found; `RefreshHeals` is about the
  columns that are compared.
- With manual networks `SetupVethLeak` ends with `ReconcileVethLeakNetworks`, whose failing
  deletes are logged and go on. In the setup the model has the call work or end at a
  step; in the cycles it has these failures too.
- `PrefixList` has entries as the agent makes them: one for each network. Duplicates are
  not represented, nor are entries of another shape, which `ListFRRPrefixListEntries` skips
  (`routing.go:341-353`): a new entry may get the number of one of those and replace it.
- In `HostCycle` the calls of the routes and of the NB entries, which the same cycle
  makes, are left out: they are `RouteSync` and `ManagedEntries`, and share no variable
  with the host's other tables. So are `dry_run`, which makes every
  call a no-op, and the connectivity checks, which only read.
- A call of the setup that fails in the middle of `EnsureBridge` or of the veth pair
  leaves any of its prefixes; addresses and neighbour entries of the pair are part of
  the pair.
- In `HostCycle` the configuration does not change between two lives of the agent.

Not modelled, and why:

- Metrics: written, never read by the agent; the one that depends on a sequence of
  cycles, the consecutive re-adds, is in `RouteSync`.
- The rest of the configuration: flags, environment and file are merged and checked
  once, before anything runs.
- The joins of `refreshState` over the rows of one snapshot: total functions without state or
  order. When they run and on which rows is `RefreshLoop`.
- The text of the nftables ruleset: a function of the configuration, formatted once.
- The documentation generator, the stubs for other systems, packaging, the test
  environment and the CI: not part of the running agent.

## Further work

- An election register (one holder per port, changed only by failure or drain) that
  `GatewayHA` implements.
- The safety halves of `EntriesConverge` and `StaleRoutesGone`, for an agent whose
  cycle nobody disturbs, as `QuietIsCurrent` is for `RefreshLoop`.
