------------------------ MODULE ManagedEntriesProofs ------------------------
(***************************************************************************)
(* Proofs about ManagedEntries, for any chassis, routers and bounds: type  *)
(* correctness, and that an agent without a port left removes nothing.     *)
(***************************************************************************)
EXTENDS ManagedEntries, FiniteSetTheorems, FunctionTheorems, TLAPS

(***************************************************************************)
(* TypeOK in the form the proof needs: the agents' variables are functions *)
(* on the chassis, and sets of rows and of ids are finite, so that there   *)
(* is always a new id.                                                     *)
(***************************************************************************)
RouteRows == {s \in SUBSET RouteRow : IsFiniteSet(s)}
MacRows   == {s \in SUBSET MacRow : IsFiniteSet(s)}
IdSets    == {s \in SUBSET Nat : IsFiniteSet(s)}

Rows  == [routes : RouteRows, macs : MacRows]
Plans == [chassis : SUBSET Chassis, routes : IdSets, ports : SUBSET Router, macs : IdSets]
Todos == [chassis : SUBSET Chassis, routers : SUBSET Router, mac : SUBSET Router]
States == [local : SUBSET Router, chassis : SUBSET Chassis]
Waits == [Chassis -> {"no", "new", "due"}]
Misses == [routes : SUBSET Nat, macs : SUBSET Nat]

NBTypes ==
  /\ routes \in RouteRows /\ macs \in MacRows
  /\ cache \in [Chassis -> Rows] /\ missed \in [Chassis -> Misses]

OVNTypes == bound \in [Router -> Chassis] /\ sb \in SUBSET Chassis

AgentTypes ==
  /\ state \in [Chassis -> States] /\ refresh \in [Chassis -> {"due", "done", "failed"}]
  /\ todo \in [Chassis -> Todos]
  /\ missing \in [Chassis -> Waits] /\ plan \in [Chassis -> Plans]
  /\ drained \in SUBSET Chassis

CounterTypes == faults \in 0 .. MaxFaults /\ moves \in 0 .. MaxMoves /\ exits \in 0 .. MaxExits

TypeInv == NBTypes /\ OVNTypes /\ AgentTypes /\ CounterTypes /\ pc \in [Chassis -> Phase]

-----------------------------------------------------------------------------
(* Rows and ids *)

\* Among one number more than there are used ones, one is free.
LEMMA FreeIsFree ==
  ASSUME NEW used, IsFiniteSet(used)
  PROVE  Free(used) \in Nat /\ Free(used) \notin used
  <1> DEFINE n == Cardinality(used)
  <1>1. n \in Nat
    BY FS_CardinalityType
  <1>2. IsFiniteSet(1 .. n + 1) /\ Cardinality(1 .. n + 1) = n + 1
    BY <1>1, FS_Interval
  <1>3. ~ (1 .. n + 1) \subseteq used
    BY <1>1, <1>2, FS_Subset
  <1>4. \E i \in 1 .. n + 1 : i \notin used
    BY <1>3
  <1> QED
    BY <1>1, <1>4 DEF Free

\* The image of a finite set is finite.
LEMMA ImageIsFinite ==
  ASSUME NEW S, IsFiniteSet(S), NEW f, f = [x \in S |-> f[x]]
  PROVE  IsFiniteSet({f[x] : x \in S})
  <1> DEFINE T == {f[x] : x \in S}
  <1>1. f \in [S -> T] /\ \A t \in T : \E x \in S : f[x] = t
    OBVIOUS
  <1> HIDE DEF T
  <1>2. f \in Surjection(S, T)
    BY <1>1, Fun_IsSurj
  <1>3. IsFiniteSet(T)
    BY <1>2, FS_Surjection
  <1> QED
    BY <1>3 DEF T

LEMMA IdsAreIds ==
  ASSUME NEW rows, rows \in RouteRows \/ rows \in MacRows
  PROVE  Ids(rows) \in IdSets
  <1> DEFINE f == [x \in rows |-> x.id]
  <1>1. IsFiniteSet(Ids(rows))
    <2>1. IsFiniteSet({f[x] : x \in rows})
      BY ImageIsFinite DEF RouteRows, MacRows
    <2>2. {f[x] : x \in rows} = Ids(rows)
      BY DEF Ids
    <2> QED
      BY <2>1, <2>2
  <1>2. \A x \in rows : x.id \in Nat
    BY DEF RouteRows, MacRows, RouteRow, MacRow
  <1> QED
    BY <1>1, <1>2 DEF Ids, IdSets

LEMMA SubRows ==
  /\ \A rows \in RouteRows : \A s \in SUBSET rows : s \in RouteRows
  /\ \A rows \in MacRows : \A s \in SUBSET rows : s \in MacRows
  /\ \A ids \in IdSets : \A s \in SUBSET ids : s \in IdSets
  BY FS_Subset DEF RouteRows, MacRows, IdSets

LEMMA NoneIsTyped ==
  /\ {} \in RouteRows /\ {} \in MacRows /\ {} \in IdSets
  /\ NoRows \in Rows /\ NoRows \in Misses
  /\ NoPlan \in Plans /\ NoTodo \in Todos /\ NoState \in States
  <1>1. {} \in RouteRows /\ {} \in MacRows /\ {} \in IdSets
    BY FS_EmptySet DEF RouteRows, MacRows, IdSets
  <1> QED
    BY <1>1 DEF NoRows, NoPlan, NoTodo, NoState, Rows, Misses, Plans, Todos, States

LEMMA ServerRows == NBTypes => Server \in Rows
  BY DEF NBTypes, Server, Rows

\* What a monitor shows of typed rows is typed rows.
LEMMA ViewRows ==
  ASSUME NBTypes, NEW c \in Chassis, NEW r \in RouteRows, NEW m \in MacRows
  PROVE  View(c, r, m) \in Rows
  <1>1. cache[c].routes \in RouteRows /\ cache[c].macs \in MacRows
    BY DEF NBTypes, Rows
  <1>2. ASSUME NEW a \in RouteRows, NEW b \in RouteRows, NEW lost
        PROVE  Seen(a, b, lost) \in RouteRows
    <2>1. a \cup b \in RouteRows
      BY FS_Union DEF RouteRows
    <2> QED
      BY <2>1, SubRows DEF Seen
  <1>3. ASSUME NEW a \in MacRows, NEW b \in MacRows, NEW lost
        PROVE  Seen(a, b, lost) \in MacRows
    <2>1. a \cup b \in MacRows
      BY FS_Union DEF MacRows
    <2> QED
      BY <2>1, SubRows DEF Seen
  <1> QED
    BY <1>1, <1>2, <1>3 DEF View, Rows

\* A new id is a number.
LEMMA FreshIds ==
  ASSUME EntriesAssumption, NBTypes, AgentTypes
  PROVE  FreshRoute \in Nat /\ FreshMac \in Nat
  <1>1. \A c \in Chassis : /\ cache[c].routes \in RouteRows /\ cache[c].macs \in MacRows
                           /\ plan[c].routes \in IdSets /\ plan[c].macs \in IdSets
    BY DEF NBTypes, AgentTypes, Rows, Plans
  <1> DEFINE R(c) == Ids(cache[c].routes) \cup plan[c].routes
             M(c) == Ids(cache[c].macs) \cup plan[c].macs
  <1>2. \A c \in Chassis : IsFiniteSet(R(c)) /\ IsFiniteSet(M(c))
    BY <1>1, IdsAreIds, FS_Union DEF IdSets
  <1> HIDE DEF R, M
  <1>3. IsFiniteSet({R(c) : c \in Chassis}) /\ IsFiniteSet({M(c) : c \in Chassis})
    <2> DEFINE f == [c \in Chassis |-> R(c)]
               g == [c \in Chassis |-> M(c)]
    <2>1. IsFiniteSet(Chassis)
      BY DEF EntriesAssumption
    <2>2. IsFiniteSet({f[c] : c \in Chassis}) /\ IsFiniteSet({g[c] : c \in Chassis})
      <3>1. f = [c \in Chassis |-> f[c]] /\ g = [c \in Chassis |-> g[c]]
        OBVIOUS
      <3> HIDE DEF f, g
      <3>2. IsFiniteSet({f[c] : c \in Chassis})
        BY <2>1, <3>1, ImageIsFinite
      <3>3. IsFiniteSet({g[c] : c \in Chassis})
        BY <2>1, <3>1, ImageIsFinite
      <3> QED
        BY <3>2, <3>3
    <2>3. /\ {f[c] : c \in Chassis} = {R(c) : c \in Chassis}
          /\ {g[c] : c \in Chassis} = {M(c) : c \in Chassis}
      OBVIOUS
    <2> QED
      BY <2>2, <2>3
  <1>4. IsFiniteSet(UNION {R(c) : c \in Chassis}) /\ IsFiniteSet(UNION {M(c) : c \in Chassis})
    BY <1>2, <1>3, FS_UNION
  <1>5. IsFiniteSet(Ids(routes)) /\ IsFiniteSet(Ids(macs))
    BY IdsAreIds DEF NBTypes, IdSets
  <1>6. /\ IsFiniteSet(Ids(routes) \cup UNION {R(c) : c \in Chassis})
        /\ IsFiniteSet(Ids(macs) \cup UNION {M(c) : c \in Chassis})
    BY <1>4, <1>5, FS_Union
  <1> USE DEF R, M
  <1> QED
    BY <1>6, FreeIsFree DEF FreshRoute, FreshMac

LEMMA Rewritten ==
  ASSUME NBTypes, NEW c \in Chassis, NEW x
  PROVE  Retag(c, x) \in RouteRows /\ Repoint(c, x) \in MacRows
  <1> DEFINE f == [y \in routes |-> IF y.id = x.id THEN [y EXCEPT !.tag = c] ELSE y]
             g == [y \in macs |-> IF y.id = x.id THEN [y EXCEPT !.mac = c] ELSE y]
  <1>1. IsFiniteSet(Retag(c, x)) /\ IsFiniteSet(Repoint(c, x))
    <2>1. IsFiniteSet({f[y] : y \in routes}) /\ IsFiniteSet({g[y] : y \in macs})
      <3>1. /\ f = [y \in routes |-> f[y]] /\ g = [y \in macs |-> g[y]]
            /\ IsFiniteSet(routes) /\ IsFiniteSet(macs)
        BY DEF NBTypes, RouteRows, MacRows
      <3> HIDE DEF f, g
      <3>2. IsFiniteSet({f[y] : y \in routes})
        BY <3>1, ImageIsFinite
      <3>3. IsFiniteSet({g[y] : y \in macs})
        BY <3>1, ImageIsFinite
      <3> QED
        BY <3>2, <3>3
    <2>2. {f[y] : y \in routes} = Retag(c, x) /\ {g[y] : y \in macs} = Repoint(c, x)
      BY DEF Retag, Repoint
    <2> QED
      BY <2>1, <2>2
  <1>2. Retag(c, x) \subseteq RouteRow
    BY DEF NBTypes, RouteRows, RouteRow, Retag
  <1>3. Repoint(c, x) \subseteq MacRow
    BY DEF NBTypes, MacRows, MacRow, Repoint
  <1> QED
    BY <1>1, <1>2, <1>3 DEF RouteRows, MacRows

-----------------------------------------------------------------------------
(* Steps *)

LEMMA TransactTypes ==
  ASSUME NBTypes, CounterTypes, NEW c \in Chassis, NEW r \in RouteRows, NEW m \in MacRows,
         Transact(c, r, m)
  PROVE  NBTypes' /\ CounterTypes'
  <1>1. View(c, r, m) \in Rows
    BY ViewRows
  <1>2. missed' \in [Chassis -> Misses]
    BY DEF NBTypes, Misses, Transact
  <1>3. NBTypes'
    BY <1>1, <1>2 DEF NBTypes, Transact
  <1>4. CounterTypes'
    BY DEF Transact, CounterTypes, counters
  <1> QED
    BY <1>3, <1>4

LEMMA FaultTypes ==
  ASSUME EntriesAssumption, CounterTypes, NEW kind, Fault(kind)
  PROVE  CounterTypes'
  BY DEF EntriesAssumption, CounterTypes, Fault

LEMMA NotifyTypes ==
  ASSUME AgentTypes, Notify
  PROVE  refresh' \in [Chassis -> {"due", "done", "failed"}]
  BY DEF AgentTypes, Notify

LEMMA ForgetTypes ==
  ASSUME AgentTypes, NBTypes, pc \in [Chassis -> Phase], NEW c \in Chassis, Forget(c), Notify
  PROVE  /\ AgentTypes' /\ pc' \in [Chassis -> Phase]
         /\ cache' \in [Chassis -> Rows] /\ missed' \in [Chassis -> Misses]
  <1>1. /\ NoRows \in Rows /\ NoRows \in Misses
        /\ NoPlan \in Plans /\ NoTodo \in Todos /\ NoState \in States
        /\ [d \in Chassis |-> "no"] \in Waits
    BY NoneIsTyped DEF Waits
  <1>2. refresh' \in [Chassis -> {"due", "done", "failed"}]
    BY NotifyTypes
  <1> QED
    BY <1>1, <1>2 DEF Forget, Goto, AgentTypes, NBTypes, Phase

\* A snapshot is one of OVN's state, or stays.
LEMMA RefreshTypes ==
  ASSUME EntriesAssumption, OVNTypes, AgentTypes, CounterTypes, NEW c \in Chassis, NEW kind,
         RefreshState(c, kind)
  PROVE  /\ state' \in [Chassis -> States] /\ CounterTypes'
         /\ refresh' \in [Chassis -> {"due", "done", "failed"}]
  <1>1. Current(c) \in States
    BY DEF Current, States, Local, OVNTypes
  <1>2. CounterTypes'
    BY FaultTypes DEF RefreshState, CounterTypes, counters
  <1> QED
    BY <1>1, <1>2 DEF RefreshState, AgentTypes

\* A monitor that has dropped a change of one more row.
LEMMA MissTypes ==
  ASSUME NBTypes, NEW c \in Chassis, NEW i \in Nat,
         \/ missed' = [missed EXCEPT ![c].routes = @ \cup {i}]
         \/ missed' = [missed EXCEPT ![c].macs = @ \cup {i}]
  PROVE  missed' \in [Chassis -> Misses]
  <1>1. missed \in [Chassis -> Misses]
    BY DEF NBTypes
  <1>2. /\ [missed[c] EXCEPT !.routes = @ \cup {i}] \in Misses
        /\ [missed[c] EXCEPT !.macs = @ \cup {i}] \in Misses
    BY <1>1 DEF Misses
  <1>3. \/ missed' = [missed EXCEPT ![c] = [missed[c] EXCEPT !.routes = @ \cup {i}]]
        \/ missed' = [missed EXCEPT ![c] = [missed[c] EXCEPT !.macs = @ \cup {i}]]
    BY <1>1
  <1> QED
    BY <1>1, <1>2, <1>3

LEMMA OVNStep ==
  ASSUME EntriesAssumption, TypeInv, NEW c \in Chassis,
         \/ \E r \in Router : Move(r, c) \/ Failover(r, c)
         \/ NodeReturns(c) \/ MonitorUpdate(c) \/ MonitorDrops(c)
  PROVE  TypeInv'
  <1> USE DEF TypeInv, NBTypes, OVNTypes, AgentTypes, CounterTypes
  <1>1. ASSUME NEW r \in Router, Move(r, c) PROVE TypeInv'
    <2>1. refresh' \in [Chassis -> {"due", "done", "failed"}]
      BY <1>1, NotifyTypes DEF Move
    <2> QED
      BY <1>1, <2>1 DEF Move, nb, agent, EntriesAssumption, monitor
  <1>2. ASSUME NEW r \in Router, Failover(r, c) PROVE TypeInv'
    <2>1. refresh' \in [Chassis -> {"due", "done", "failed"}]
      BY <1>2, NotifyTypes DEF Failover
    <2> QED
      BY <1>2, <2>1 DEF Failover, nb, agent, counters, monitor
  <1>3. CASE NodeReturns(c)
    <2>1. refresh' \in [Chassis -> {"due", "done", "failed"}]
      BY <1>3, NotifyTypes DEF NodeReturns
    <2> QED
      BY <1>3, <2>1 DEF NodeReturns, nb, agent, EntriesAssumption, monitor
  <1>4. CASE MonitorUpdate(c)
    <2>1. View(c, routes, macs) \in Rows
      BY ViewRows
    <2> QED
      BY <1>4, <2>1 DEF MonitorUpdate, nb, ovn, agent, counters, snapshot
  <1>5. CASE MonitorDrops(c)
    <2>1. \A x \in routes : x.id \in Nat
      BY DEF RouteRows, RouteRow
    <2>2. \A x \in macs : x.id \in Nat
      BY DEF MacRows, MacRow
    <2>3. missed' \in [Chassis -> Misses]
      <3>1. CASE \E x \in routes : missed' = [missed EXCEPT ![c].routes = @ \cup {x.id}]
        <4>1. PICK i \in Nat : missed' = [missed EXCEPT ![c].routes = @ \cup {i}]
          BY <2>1, <3>1
        <4> QED
          BY <4>1, MissTypes
      <3>2. CASE \E x \in macs : missed' = [missed EXCEPT ![c].macs = @ \cup {x.id}]
        <4>1. PICK i \in Nat : missed' = [missed EXCEPT ![c].macs = @ \cup {i}]
          BY <2>2, <3>2
        <4> QED
          BY <4>1, MissTypes
      <3> QED
        BY <1>5, <3>1, <3>2 DEF MonitorDrops
    <2>4. CounterTypes'
      BY <1>5, FaultTypes DEF MonitorDrops
    <2> QED
      BY <1>5, <2>3, <2>4 DEF MonitorDrops, nb, ovn, agent, snapshot
  <1> QED
    BY <1>1, <1>2, <1>3, <1>4, <1>5

\* Start, reconcile, shutdown, kill.
LEMMA LifeStep ==
  ASSUME EntriesAssumption, TypeInv, NEW c \in Chassis,
         \/ Connect(c) \/ Refresh(c) \/ Reconcile(c) \/ EndStaleCleanup(c)
         \/ Stop(c) \/ DrainEnds(c) \/ Leave(c) \/ Crash(c)
         \/ \E d \in Chassis : GraceOver(c, d)
  PROVE  TypeInv'
  <1> USE DEF TypeInv
  <1>1. CASE Connect(c)
    <2>1. /\ state' \in [Chassis -> States] /\ CounterTypes'
          /\ refresh' \in [Chassis -> {"due", "done", "failed"}]
      <3>1. CASE RefreshState(c, "refresh")
        BY <3>1, RefreshTypes
      <3>2. CASE /\ Fault("monitor") /\ UNCHANGED refresh
                 /\ state' = [state EXCEPT ![c] = Current(c)]
        <4>1. Current(c) \in States
          BY DEF Current, States, Local, OVNTypes
        <4> QED
          BY <3>2, <4>1, FaultTypes DEF AgentTypes
      <3> QED
        BY <1>1, <3>1, <3>2 DEF Connect
    <2>2. /\ Server \in Rows
          /\ \A x \in routes : [Server EXCEPT !.routes = @ \ {x}] \in Rows /\ x.id \in Nat
          /\ \A x \in macs : [Server EXCEPT !.macs = @ \ {x}] \in Rows /\ x.id \in Nat
      <3>1. \A x \in routes : routes \ {x} \in RouteRows /\ x.id \in Nat
        BY SubRows DEF NBTypes, RouteRows, RouteRow
      <3>2. \A x \in macs : macs \ {x} \in MacRows /\ x.id \in Nat
        BY SubRows DEF NBTypes, MacRows, MacRow
      <3> QED
        BY <3>1, <3>2 DEF Server, NBTypes, Rows
    <2>3. cache' \in [Chassis -> Rows]
      <3>1. \E v \in Rows : cache' = [cache EXCEPT ![c] = v]
        BY <1>1, <2>2 DEF Connect
      <3> QED
        BY <3>1 DEF NBTypes
    <2>4. missed' \in [Chassis -> Misses]
      <3>1. \A x \in routes : [missed[c] EXCEPT !.routes = {x.id}] \in Misses
        BY <2>2 DEF NBTypes, Misses
      <3>2. \A x \in macs : [missed[c] EXCEPT !.macs = {x.id}] \in Misses
        BY <2>2 DEF NBTypes, Misses
      <3>3. missed' = missed \/ \E v \in Misses : missed' = [missed EXCEPT ![c] = v]
        BY <1>1, <3>1, <3>2 DEF Connect
      <3> QED
        BY <3>3 DEF NBTypes
    <2> QED
      BY <1>1, <2>1, <2>3, <2>4 DEF Connect, Goto, Phase, Live, NBTypes, OVNTypes, AgentTypes,
                                    nb, ovn, agent
  <1>2. CASE Refresh(c)
    <2>1. /\ state' \in [Chassis -> States] /\ CounterTypes'
          /\ refresh' \in [Chassis -> {"due", "done", "failed"}]
      BY <1>2, RefreshTypes DEF Refresh
    <2> QED
      BY <1>2, <2>1 DEF Refresh, NBTypes, OVNTypes, AgentTypes, nb, ovn, monitor, agent
  <1>3. CASE Reconcile(c)
    <2>1. PICK mine \in {state[c].local, {}} :
            /\ IF mine = state[c].local THEN UNCHANGED counters ELSE Fault("bridge")
            /\ todo' = [todo EXCEPT ![c] =
                          [chassis |-> state[c].chassis, routers |-> mine, mac |-> {}]]
      BY <1>3 DEF Reconcile
    <2>2. [chassis |-> state[c].chassis, routers |-> mine, mac |-> {}] \in Todos
      BY DEF AgentTypes, States, Todos
    <2>3. CounterTypes'
      BY <2>1, FaultTypes DEF CounterTypes, counters
    <2> QED
      BY <1>3, <2>1, <2>2, <2>3 DEF Reconcile, Goto, Phase, Live, NBTypes, OVNTypes, AgentTypes,
                                    nb, ovn, monitor, snapshot
  <1>4. CASE EndStaleCleanup(c)
    <2>1. [d \in Chassis |-> IF d \in plan[c].chassis THEN "no" ELSE missing[c][d]] \in Waits
      BY DEF AgentTypes, Waits
    <2> QED
      BY <1>4, <2>1, NoneIsTyped
         DEF EndStaleCleanup, Goto, Phase, Live, NBTypes, OVNTypes, AgentTypes, CounterTypes,
             nb, ovn, counters, monitor, snapshot
  <1>5. CASE Stop(c)
    <2>1. refresh' \in [Chassis -> {"due", "done", "failed"}]
      BY <1>5, NotifyTypes DEF Stop
    <2>2. pc' \in [Chassis -> Phase]
      BY <1>5 DEF Stop, Goto, Phase, Leaving
    <2>3. CounterTypes'
      BY <1>5 DEF Stop, CounterTypes, EntriesAssumption
    <2>4. UNCHANGED <<nb, ovn, monitor, state, agent>>
      BY <1>5 DEF Stop
    <2> QED
      BY <2>1, <2>2, <2>3, <2>4 DEF NBTypes, OVNTypes, AgentTypes, nb, ovn, agent, monitor
  <1>6. CASE DrainEnds(c)
    <2>1. /\ state' \in [Chassis -> States] /\ CounterTypes'
          /\ refresh' \in [Chassis -> {"due", "done", "failed"}]
      BY <1>6, RefreshTypes DEF DrainEnds
    <2> QED
      BY <1>6, <2>1 DEF DrainEnds, Goto, Phase, Leaving, NBTypes, OVNTypes, AgentTypes, nb, ovn,
                        monitor
  <1>7. CASE Leave(c)
    BY <1>7, ForgetTypes DEF Leave, NBTypes, OVNTypes, CounterTypes, nb, ovn, counters
  <1>8. CASE Crash(c)
    BY <1>8, ForgetTypes DEF Crash, NBTypes, OVNTypes, CounterTypes, nb, EntriesAssumption
  <1>9. ASSUME NEW d \in Chassis, GraceOver(c, d) PROVE TypeInv'
    <2>1. [missing[c] EXCEPT ![d] = "due"] \in Waits
      BY DEF AgentTypes, Waits
    <2>2. missing' \in [Chassis -> Waits]
      BY <1>9, <2>1 DEF GraceOver, AgentTypes
    <2> QED
      BY <1>9, <2>2 DEF GraceOver, NBTypes, OVNTypes, AgentTypes, CounterTypes, nb, ovn, monitor,
                        snapshot, counters
  <1> QED
    BY <1>1, <1>2, <1>3, <1>4, <1>5, <1>6, <1>7, <1>8, <1>9

\* Steps of EnsureGatewayRouting.
LEMMA TodoTypes ==
  ASSUME AgentTypes, NEW c \in Chassis, NEW r \in Router, RouterDone(c, r) \/ RouteDone(c, r)
  PROVE  todo' \in [Chassis -> Todos]
  <1>1. todo \in [Chassis -> Todos] /\ todo[c] \in Todos
    BY DEF AgentTypes
  <1>2. /\ [todo[c] EXCEPT !.mac = {r}] \in Todos
        /\ [todo[c] EXCEPT !.routers = @ \ {r}, !.mac = {}] \in Todos
    BY <1>1 DEF Todos
  <1>3. \/ todo' = [todo EXCEPT ![c] = [todo[c] EXCEPT !.mac = {r}]]
        \/ todo' = [todo EXCEPT ![c] = [todo[c] EXCEPT !.routers = @ \ {r}, !.mac = {}]]
    BY <1>1 DEF RouterDone, RouteDone
  <1> QED
    BY <1>1, <1>2, <1>3

LEMMA EnsureStep ==
  ASSUME EntriesAssumption, TypeInv, NEW c \in Chassis, NEW r \in Router,
         EnsureDefaultRoute(c, r) \/ EnsureStaticMACBinding(c, r)
  PROVE  TypeInv'
  <1> USE DEF TypeInv
  <1>1. FreshRoute \in Nat /\ FreshMac \in Nat
    BY FreshIds
  <1>2. todo' \in [Chassis -> Todos]
    BY TodoTypes DEF EnsureDefaultRoute, EnsureStaticMACBinding
  <1>3. /\ UNCHANGED <<bound, sb, pc, snapshot, missing, plan, drained>>
    BY DEF EnsureDefaultRoute, EnsureStaticMACBinding, ovn
  <1>4. NBTypes' /\ CounterTypes'
    <2>1. routes \in RouteRows /\ macs \in MacRows
      BY DEF NBTypes
    <2>2. ASSUME UNCHANGED <<nb, monitor, counters>> PROVE NBTypes' /\ CounterTypes'
      BY <2>2 DEF NBTypes, CounterTypes, nb, counters, monitor
    <2>3. ASSUME Fault("txn"), UNCHANGED <<nb, monitor>> PROVE NBTypes' /\ CounterTypes'
      BY <2>3, FaultTypes DEF NBTypes, nb, monitor
    <2>4. CASE EnsureDefaultRoute(c, r)
      <3> DEFINE new == [id |-> FreshRoute, router |-> r, tag |-> c]
      <3>1. routes \cup {new} \in RouteRows
        <4>1. new \in RouteRow
          BY <1>1 DEF RouteRow
        <4> HIDE DEF new
        <4>2. IsFiniteSet(routes \cup {new})
          BY <2>1, FS_AddElement DEF RouteRows
        <4> QED
          BY <2>1, <4>1, <4>2 DEF RouteRows
      <3>2. ASSUME NEW x, Transact(c, Retag(c, x), macs) PROVE NBTypes' /\ CounterTypes'
        BY <2>1, <3>2, Rewritten, TransactTypes
      <3>3. ASSUME Transact(c, routes \cup {new}, macs) PROVE NBTypes' /\ CounterTypes'
        BY <2>1, <3>1, <3>3, TransactTypes
      <3> HIDE DEF new
      <3> QED
        BY <2>2, <2>3, <2>4, <3>2, <3>3 DEF EnsureDefaultRoute, new
    <2>5. CASE EnsureStaticMACBinding(c, r)
      <3> DEFINE new == [id |-> FreshMac, router |-> r, mac |-> c]
      <3>1. macs \cup {new} \in MacRows
        <4>1. new \in MacRow
          BY <1>1 DEF MacRow
        <4> HIDE DEF new
        <4>2. IsFiniteSet(macs \cup {new})
          BY <2>1, FS_AddElement DEF MacRows
        <4> QED
          BY <2>1, <4>1, <4>2 DEF MacRows
      <3>2. ASSUME NEW x, Transact(c, routes, Repoint(c, x)) PROVE NBTypes' /\ CounterTypes'
        BY <2>1, <3>2, Rewritten, TransactTypes
      <3>3. ASSUME Transact(c, routes, macs \cup {new}) PROVE NBTypes' /\ CounterTypes'
        BY <2>1, <3>1, <3>3, TransactTypes
      <3> HIDE DEF new
      <3> QED
        BY <2>2, <2>3, <2>5, <3>2, <3>3 DEF EnsureStaticMACBinding, new
    <2> QED
      BY <2>4, <2>5
  <1> QED
    BY <1>2, <1>3, <1>4 DEF OVNTypes, AgentTypes, snapshot

\* Steps of the two removals.
LEMMA ReadRows ==
  ASSUME EntriesAssumption, TypeInv, NEW c \in Chassis, NEW rows \in {Server, cache[c]},
         CachedRows(c, rows)
  PROVE  rows \in Rows /\ CounterTypes'
  <1>1. rows \in Rows
    BY ServerRows DEF TypeInv, NBTypes
  <1>2. CounterTypes'
    BY FaultTypes DEF TypeInv, CachedRows, CounterTypes, counters
  <1> QED
    BY <1>1, <1>2

LEMMA TrackTypes ==
  ASSUME AgentTypes, NEW c \in Chassis, NEW tags
  PROVE  Track(c, tags) \in Waits
  BY DEF AgentTypes, Waits, Track

LEMMA StalePlanTypes ==
  ASSUME NEW stale \in SUBSET Chassis, NEW rows \in RouteRows
  PROVE  StalePlan(stale, rows) \in Plans
  <1> DEFINE old == {x \in rows : x.tag \in stale}
  <1>1. Ids(old) \in IdSets
    BY SubRows, IdsAreIds
  <1>2. {x.router : x \in old} \ {x.router : x \in rows \ old} \in SUBSET Router
    BY DEF RouteRows, RouteRow
  <1> QED
    BY <1>1, <1>2, NoneIsTyped DEF StalePlan, Plans

LEMMA CleanupStep ==
  ASSUME EntriesAssumption, TypeInv, NEW c \in Chassis, CleanupStaleChassis(c)
  PROVE  TypeInv'
  <1> USE DEF TypeInv
  <1>1. /\ UNCHANGED <<nb, ovn, monitor, snapshot, drained>>
        /\ todo' = [todo EXCEPT ![c] = NoTodo]
    BY DEF CleanupStaleChassis
  <1>2. todo' \in [Chassis -> Todos]
    BY <1>1, NoneIsTyped DEF AgentTypes
  <1>3. /\ CounterTypes' /\ pc' \in [Chassis -> Phase]
        /\ missing' \in [Chassis -> Waits] /\ plan' \in [Chassis -> Plans]
    <2>1. CASE Fault("list") /\ Goto(c, "idle") /\ UNCHANGED <<missing, plan>>
      BY <2>1, FaultTypes DEF Goto, Phase, Live, AgentTypes
    <2>2. CASE \E rows \in {Server, cache[c]} :
          LET tracked == Track(c, {x.tag : x \in rows.routes})
              stale   == {d \in Chassis : tracked[d] = "due"}
          IN  /\ CachedRows(c, rows)
              /\ missing' = [missing EXCEPT ![c] = tracked]
              /\ plan' = [plan EXCEPT ![c].chassis = stale]
              /\ Goto(c, IF stale = {} THEN "idle" ELSE "collect")
      <3> DEFINE Tracked(rows) == Track(c, {x.tag : x \in rows.routes})
                 Stale(rows)   == {d \in Chassis : Tracked(rows)[d] = "due"}
      <3>1. PICK rows \in {Server, cache[c]} :
              /\ CachedRows(c, rows)
              /\ missing' = [missing EXCEPT ![c] = Tracked(rows)]
              /\ plan' = [plan EXCEPT ![c].chassis = Stale(rows)]
              /\ Goto(c, IF Stale(rows) = {} THEN "idle" ELSE "collect")
        BY <2>2
      <3>2. CounterTypes'
        BY <3>1, ReadRows
      <3>3. Tracked(rows) \in Waits
        BY TrackTypes
      <3>4. Stale(rows) \in SUBSET Chassis
        OBVIOUS
      <3> HIDE DEF Tracked, Stale
      <3>5. plan' \in [Chassis -> Plans]
        <4>1. plan[c] \in Plans
          BY DEF AgentTypes
        <4>2. [plan[c] EXCEPT !.chassis = Stale(rows)] \in Plans
          BY <3>4, <4>1 DEF Plans
        <4>3. plan' = [plan EXCEPT ![c] = [plan[c] EXCEPT !.chassis = Stale(rows)]]
          BY <3>1 DEF AgentTypes
        <4> QED
          BY <4>2, <4>3 DEF AgentTypes
      <3> QED
        BY <3>1, <3>2, <3>3, <3>5 DEF Goto, Phase, Live, AgentTypes
    <2> QED
      BY <2>1, <2>2 DEF CleanupStaleChassis
  <1> QED
    BY <1>1, <1>2, <1>3 DEF NBTypes, OVNTypes, AgentTypes, nb, ovn, monitor, snapshot

LEMMA CollectStep ==
  ASSUME EntriesAssumption, TypeInv, NEW c \in Chassis, CleanupStaleChassisManagedEntries(c)
  PROVE  TypeInv'
  <1> USE DEF TypeInv
  <1>1. UNCHANGED <<nb, ovn, monitor, snapshot, todo, missing, drained>>
    BY DEF CleanupStaleChassisManagedEntries
  <1>2. CounterTypes' /\ pc' \in [Chassis -> Phase] /\ plan' \in [Chassis -> Plans]
    <2>1. CASE Fault("list") /\ Goto(c, "idle") /\ plan' = [plan EXCEPT ![c] = NoPlan]
      BY <2>1, FaultTypes, NoneIsTyped DEF Goto, Phase, Live, AgentTypes
    <2>2. ASSUME NEW rows \in {Server, cache[c]}, CachedRows(c, rows),
                 plan' = [plan EXCEPT ![c] = StalePlan(plan[c].chassis, rows.routes)],
                 Goto(c, "stale")
          PROVE  CounterTypes' /\ pc' \in [Chassis -> Phase] /\ plan' \in [Chassis -> Plans]
      <3>1. rows \in Rows /\ CounterTypes'
        BY <2>2, ReadRows
      <3>2. plan[c].chassis \in SUBSET Chassis
        BY DEF AgentTypes, Plans
      <3>3. StalePlan(plan[c].chassis, rows.routes) \in Plans
        BY <3>1, <3>2, StalePlanTypes DEF Rows
      <3> QED
        BY <2>2, <3>1, <3>3 DEF Goto, Phase, Live, AgentTypes
    <2> QED
      BY <2>1, <2>2 DEF CleanupStaleChassisManagedEntries
  <1> QED
    BY <1>1, <1>2 DEF NBTypes, OVNTypes, AgentTypes, nb, ovn, monitor, snapshot

LEMMA DeleteStep ==
  ASSUME EntriesAssumption, TypeInv, NEW c \in Chassis, NEW i,
         DeleteRoute(c, i) \/ DeleteBinding(c, i)
  PROVE  TypeInv'
  <1> USE DEF TypeInv
  <1>1. /\ Without(routes, {i}) \in RouteRows /\ routes \in RouteRows
        /\ Without(macs, {i}) \in MacRows /\ macs \in MacRows
    BY SubRows DEF Without, NBTypes
  <1>2. NBTypes' /\ CounterTypes'
    <2>1. ASSUME Fault("txn"), UNCHANGED <<nb, monitor>> PROVE NBTypes' /\ CounterTypes'
      BY <2>1, FaultTypes DEF NBTypes, nb, monitor
    <2> QED
      BY <1>1, <2>1, TransactTypes DEF DeleteRoute, DeleteBinding
  <1>3. /\ plan[c].routes \ {i} \in IdSets /\ plan[c].macs \ {i} \in IdSets
        /\ plan[c] \in Plans
    BY SubRows DEF AgentTypes, Plans
  <1>4. plan' \in [Chassis -> Plans]
    <2> DEFINE p == [plan[c] EXCEPT !.routes = @ \ {i}]
               q == [plan[c] EXCEPT !.macs = @ \ {i}]
    <2>1. p \in Plans /\ q \in Plans
      BY <1>3 DEF Plans
    <2>2. plan' = [plan EXCEPT ![c] = p] \/ plan' = [plan EXCEPT ![c] = q]
      BY DEF DeleteRoute, DeleteBinding, AgentTypes
    <2> HIDE DEF p, q
    <2> QED
      BY <2>1, <2>2 DEF AgentTypes
  <1> QED
    BY <1>2, <1>4 DEF DeleteRoute, DeleteBinding, OVNTypes, AgentTypes, ovn, snapshot

LEMMA ListStep ==
  ASSUME EntriesAssumption, TypeInv, NEW c \in Chassis,
         ListBindings(c) \/ ListBindingsFails(c) \/ RemoveManagedNBEntries(c)
  PROVE  TypeInv'
  <1> USE DEF TypeInv
  <1>1. UNCHANGED <<nb, ovn, monitor, snapshot, todo, missing, drained>>
    BY DEF ListBindings, ListBindingsFails, RemoveManagedNBEntries
  <1>2. pc' \in [Chassis -> Phase]
    BY DEF ListBindings, ListBindingsFails, RemoveManagedNBEntries, Goto, Phase, Live, Leaving
  <1>3. CounterTypes' /\ plan' \in [Chassis -> Plans]
    <2>1. CASE ListBindings(c)
      <3>1. PICK rows \in {Server, cache[c]} :
              /\ CachedRows(c, rows)
              /\ plan' = [plan EXCEPT ![c].ports = {}, ![c].macs = Ids(Doomed(c, rows.macs))]
        BY <2>1 DEF ListBindings
      <3>2. rows \in Rows /\ CounterTypes'
        BY <3>1, ReadRows
      <3>3. Ids(Doomed(c, rows.macs)) \in IdSets
        BY <3>2, SubRows, IdsAreIds DEF Rows, Doomed
      <3>4. [plan[c] EXCEPT !.ports = {}, !.macs = Ids(Doomed(c, rows.macs))] \in Plans
        <4>1. plan[c] \in Plans
          BY DEF AgentTypes
        <4> QED
          BY <3>3, <4>1 DEF Plans
      <3>5. plan' = [plan EXCEPT ![c] =
                      [plan[c] EXCEPT !.ports = {}, !.macs = Ids(Doomed(c, rows.macs))]]
        BY <3>1 DEF AgentTypes
      <3> QED
        BY <3>2, <3>4, <3>5 DEF AgentTypes
    <2>2. CASE ListBindingsFails(c)
      BY <2>2, FaultTypes, NoneIsTyped DEF ListBindingsFails, AgentTypes
    <2>3. CASE RemoveManagedNBEntries(c)
      <3>1. CASE Fault("list") /\ UNCHANGED plan
        BY <3>1, FaultTypes DEF AgentTypes
      <3> DEFINE Mine(rows) == {x \in rows.routes : x.router \in state[c].local}
      <3>2. CASE \E rows \in {Server, cache[c]} :
                   /\ CachedRows(c, rows)
                   /\ plan' = [plan EXCEPT ![c] =
                        [chassis |-> {}, routes |-> Ids(Mine(rows)),
                         ports |-> state[c].local, macs |-> {}]]
        <4>1. PICK rows \in {Server, cache[c]} :
                /\ CachedRows(c, rows)
                /\ plan' = [plan EXCEPT ![c] =
                     [chassis |-> {}, routes |-> Ids(Mine(rows)),
                      ports |-> state[c].local, macs |-> {}]]
          BY <3>2
        <4>2. rows \in Rows /\ CounterTypes'
          BY <4>1, ReadRows
        <4>3. Ids(Mine(rows)) \in IdSets
          BY <4>2, SubRows, IdsAreIds DEF Rows
        <4> HIDE DEF Mine
        <4>4. [chassis |-> {}, routes |-> Ids(Mine(rows)),
               ports |-> state[c].local, macs |-> {}] \in Plans
          BY <4>3, NoneIsTyped DEF AgentTypes, States, Plans
        <4> QED
          BY <4>1, <4>2, <4>4 DEF AgentTypes
      <3> QED
        BY <2>3, <3>1, <3>2 DEF RemoveManagedNBEntries
    <2> QED
      BY <2>1, <2>2, <2>3
  <1> QED
    BY <1>1, <1>2, <1>3 DEF NBTypes, OVNTypes, AgentTypes, nb, ovn, monitor, snapshot

-----------------------------------------------------------------------------
(* Theorems *)

LEMMA TypeInvInit == Init => TypeInv
  <1> SUFFICES ASSUME Init PROVE TypeInv
    OBVIOUS
  <1> USE EntriesAssumption DEF Init
  <1>1. NBTypes
    BY NoneIsTyped DEF NBTypes, EntriesAssumption, MacRows
  <1>2. OVNTypes
    BY DEF OVNTypes, EntriesAssumption
  <1>3. AgentTypes
    BY NoneIsTyped DEF AgentTypes, Waits
  <1>4. CounterTypes
    BY DEF CounterTypes, EntriesAssumption
  <1>5. pc \in [Chassis -> Phase]
    BY DEF Phase
  <1> HIDE DEF Init
  <1> QED
    BY <1>1, <1>2, <1>3, <1>4, <1>5 DEF TypeInv

LEMMA TypeInvStep ==
  ASSUME EntriesAssumption, TypeInv, [Next]_vars
  PROVE  TypeInv'
  <1>1. ASSUME NEW c \in Chassis, AgentStep(c) PROVE TypeInv'
    BY <1>1, LifeStep, EnsureStep, CleanupStep, CollectStep, DeleteStep, ListStep DEF AgentStep
  <1>2. ASSUME NEW c \in Chassis, NEW r \in Router, Move(r, c) \/ Failover(r, c) PROVE TypeInv'
    BY <1>2, OVNStep
  <1>3. ASSUME NEW c \in Chassis, MonitorUpdate(c) \/ MonitorDrops(c) \/ NodeReturns(c)
        PROVE  TypeInv'
    BY <1>3, OVNStep
  <1>4. ASSUME NEW c \in Chassis,
               Refresh(c) \/ Stop(c) \/ Crash(c) \/ \E d \in Chassis : GraceOver(c, d)
        PROVE  TypeInv'
    BY <1>4, LifeStep
  <1>5. CASE UNCHANGED vars
    BY <1>5 DEF TypeInv, NBTypes, OVNTypes, AgentTypes, CounterTypes, vars, nb, ovn, monitor,
                snapshot, agent, counters
  <1> QED
    BY <1>1, <1>2, <1>3, <1>4, <1>5 DEF Next

(***************************************************************************)
(* Every reachable state of the managed entries is well typed, for any     *)
(* finite set of chassis: the rows in NB, what the agents remember of them *)
(* and what they plan to delete (EnsureGatewayRouting,                     *)
(* CleanupStaleChassisManagedEntries, RemoveManagedNBEntries).             *)
(***************************************************************************)
THEOREM TypeCorrect ==
  Spec => []TypeOK
  <1>1. Init => TypeInv
    BY TypeInvInit
  <1>2. TypeInv /\ [Next]_vars => TypeInv'
    BY TypeInvStep, EntriesAssumption
  <1>3. TypeInv => TypeOK
    <2> SUFFICES ASSUME TypeInv PROVE TypeOK
      OBVIOUS
    <2>1. NBTypes => /\ routes \subseteq RouteRow /\ macs \subseteq MacRow
                     /\ \A c \in Chassis :
                          /\ cache[c].routes \subseteq RouteRow /\ cache[c].macs \subseteq MacRow
                          /\ missed[c].routes \subseteq Nat /\ missed[c].macs \subseteq Nat
      BY DEF NBTypes, Rows, Misses, RouteRows, MacRows
    <2>2. AgentTypes =>
            \A c \in Chassis :
              /\ state[c].local \subseteq Router /\ state[c].chassis \subseteq Chassis
              /\ todo[c].chassis \subseteq Chassis
              /\ todo[c].routers \subseteq Router /\ todo[c].mac \subseteq Router
              /\ plan[c].chassis \subseteq Chassis /\ plan[c].ports \subseteq Router
              /\ plan[c].routes \subseteq Nat /\ plan[c].macs \subseteq Nat
      BY DEF AgentTypes, States, Todos, Plans, IdSets
    <2>3. AgentTypes => /\ missing \in [Chassis -> [Chassis -> {"no", "new", "due"}]]
                        /\ refresh \in [Chassis -> {"due", "done", "failed"}]
      BY DEF AgentTypes, Waits
    <2>4. AgentTypes => drained \subseteq Chassis
      BY DEF AgentTypes
    <2> QED
      BY <2>1, <2>2, <2>3, <2>4 DEF TypeInv, OVNTypes, CounterTypes, TypeOK
  <1> QED
    BY <1>1, <1>2, <1>3, PTL DEF Spec

(***************************************************************************)
(* Only a removal in progress has a plan, and from the refresh after the   *)
(* drain to the end of the process nothing puts a router back into the     *)
(* snapshot of a drained agent.                                            *)
(***************************************************************************)
DrainedInv ==
  /\ \A c \in Chassis : pc[c] \notin {"collect", "stale", "remove"} => plan[c] = NoPlan
  /\ \A c \in drained : pc[c] = "leaving" /\ state[c].local = {}

LEMMA DrainedStep ==
  ASSUME TypeInv, DrainedInv, [Next]_vars
  PROVE  DrainedInv'
  <1> USE DEF DrainedInv, TypeInv, AgentTypes
  <1>1. ASSUME NEW c \in Chassis, Connect(c) \/ Refresh(c) \/ Reconcile(c) PROVE DrainedInv'
    <2>1. /\ UNCHANGED <<plan, drained>> /\ pc[c] \in Live \cup {"down"}
          /\ pc' = pc \/ (pc' = [pc EXCEPT ![c] = pc'[c]] /\ pc[c] \in {"down", "idle"})
          /\ \A d \in Chassis \ {c} : state'[d] = state[d]
      BY <1>1 DEF Connect, Refresh, Reconcile, RefreshState, Goto, Live, agent, snapshot
    <2> QED
      BY <2>1 DEF Live
  <1>2. ASSUME NEW c \in Chassis, NEW r \in Router,
               EnsureDefaultRoute(c, r) \/ EnsureStaticMACBinding(c, r)
        PROVE  DrainedInv'
    BY <1>2 DEF EnsureDefaultRoute, EnsureStaticMACBinding, snapshot
  <1>3. ASSUME NEW c \in Chassis, CleanupStaleChassis(c) PROVE DrainedInv'
    <2>1. /\ pc[c] = "ensure" /\ UNCHANGED <<state, drained>>
          /\ \/ plan' = plan /\ Goto(c, "idle")
             \/ plan' = [plan EXCEPT ![c].chassis = {}] /\ Goto(c, "idle")
             \/ (\E p : plan' = [plan EXCEPT ![c] = p]) /\ Goto(c, "collect")
      BY <1>3 DEF CleanupStaleChassis, snapshot
    <2>2. [plan EXCEPT ![c].chassis = {}] = plan
      BY <2>1 DEF NoPlan
    <2> QED
      BY <2>1, <2>2 DEF Goto
  <1>4. ASSUME NEW c \in Chassis, CleanupStaleChassisManagedEntries(c) PROVE DrainedInv'
    BY <1>4 DEF CleanupStaleChassisManagedEntries, Goto, snapshot
  <1>5. ASSUME NEW c \in Chassis, NEW i, DeleteRoute(c, i) \/ DeleteBinding(c, i)
        PROVE  DrainedInv'
    BY <1>5 DEF DeleteRoute, DeleteBinding, snapshot
  <1>6. ASSUME NEW c \in Chassis,
               ListBindings(c) \/ ListBindingsFails(c) \/ RemoveManagedNBEntries(c)
        PROVE  DrainedInv'
    BY <1>6 DEF ListBindings, ListBindingsFails, RemoveManagedNBEntries, Goto, snapshot
  <1>7. ASSUME NEW c \in Chassis, EndStaleCleanup(c) \/ Leave(c) \/ Crash(c) PROVE DrainedInv'
    BY <1>7 DEF EndStaleCleanup, Leave, Crash, Forget, Goto, snapshot
  <1>8. ASSUME NEW c \in Chassis, Stop(c) PROVE DrainedInv'
    BY <1>8 DEF Stop, Goto, agent
  <1>9. ASSUME NEW c \in Chassis, DrainEnds(c) PROVE DrainedInv'
    BY <1>9 DEF DrainEnds, RefreshState, Current, Goto
  <1>10. ASSUME NEW c \in Chassis, NEW r \in Router,
               Move(r, c) \/ Failover(r, c) PROVE DrainedInv'
    BY <1>10 DEF Move, Failover, agent
  <1>11. ASSUME NEW c \in Chassis,
               \/ MonitorUpdate(c) \/ MonitorDrops(c) \/ NodeReturns(c)
               \/ \E d \in Chassis : GraceOver(c, d)
         PROVE DrainedInv'
    BY <1>11 DEF MonitorUpdate, MonitorDrops, NodeReturns, GraceOver, agent, snapshot
  <1>12. CASE UNCHANGED vars
    BY <1>12 DEF vars, agent, snapshot
  <1> QED
    BY <1>1, <1>2, <1>3, <1>4, <1>5, <1>6, <1>7, <1>8, <1>9, <1>10, <1>11, <1>12
    DEF Next, AgentStep

(***************************************************************************)
(* An agent that had no port left at the refresh after its drain plans no  *)
(* removal until it ends, for any chassis, routers, configurations and     *)
(* failures, and however the ports move meanwhile (DrainGateways and the   *)
(* refreshState after it in agent.go, RemoveManagedNBEntries).             *)
(***************************************************************************)
THEOREM DrainedLeavesRows ==
  Spec => []DrainedRemovesNothing
  <1>1. Init => TypeInv /\ DrainedInv
    BY TypeInvInit DEF Init, DrainedInv
  <1>2. TypeInv /\ DrainedInv /\ [Next]_vars => TypeInv' /\ DrainedInv'
    BY TypeInvStep, DrainedStep, EntriesAssumption
  <1>3. TypeInv /\ DrainedInv => DrainedRemovesNothing
    BY DEF TypeInv, AgentTypes, DrainedInv, DrainedRemovesNothing, NoPlan
  <1> QED
    BY <1>1, <1>2, <1>3, PTL DEF Spec
=============================================================================
