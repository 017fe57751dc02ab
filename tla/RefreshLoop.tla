---------------------------- MODULE RefreshLoop ----------------------------
(***************************************************************************)
(* From a row that changes in an OVN database to a reconcile that uses it: *)
(* the monitor caches, the event handlers, Connect, refreshLoop and        *)
(* refreshState of ovn.go, the guarded read of ovn_cache.go and the main   *)
(* goroutine of Agent.Run in agent.go.                                     *)
(*                                                                         *)
(* Two goroutines run refreshState: the main one, at the end of Connect    *)
(* and after a drain, and the refresh loop.  They and the event handlers   *)
(* meet in three channels of capacity 1 and in OVNState.  The content of a *)
(* table is the number of the last change made to it.                      *)
(***************************************************************************)
EXTENDS Integers, Sequences, FiniteSets, Functions

CONSTANTS
  ReadOrder,     \* the tables refreshState lists, in its order
  Direct,        \* tables a reconcile reads by itself: Gateway_Chassis
  Urgent,        \* tables whose events bypass the debounce: the chassisredirect
                 \* rows of Port_Binding, which are a table of their own here
  ChangePhases,  \* phases of the main goroutine during which OVN changes rows
  MaxChanges,    \* bound: changes of rows
  DrainOnShutdown, CleanupOnShutdown,
  Faults,        \* kinds of failure that occur, a subset of FaultKinds
  MaxFaults,     \* bound: failures
  MaxStops       \* bound: shutdowns

FaultKinds ==
  { "connect",  \* a connection or a monitor request fails
    "list",     \* a List of refreshState fails
    "select",   \* the direct select of authoritativeList fails
    "miss" }    \* a monitor loses a change: no cache update and no event

Read    == Range(ReadOrder)
Table   == Read \cup Direct
Unknown == -1
Version == Unknown .. MaxChanges
Proc    == {"main", "loop"}

(***************************************************************************)
(* Phases of the main goroutine, in the order Run goes through them:       *)
(*   monitor    both databases are monitored, ready is not set             *)
(*   connect    ready is set, Connect runs refreshState                    *)
(*   signals    before drainSignals and the start of the refresh loop      *)
(*   startup    before the initial reconcile                               *)
(*   reconcile1 in the initial reconcile, flush: before reconcileCh is     *)
(*              emptied                                                    *)
(*   select, reconcile: the main loop                                      *)
(*   drain, rescan, cleanup, closing: the ctx.Done branch, and Close       *)
(***************************************************************************)
Starting  == {"monitor", "connect", "signals"}
Serving   == {"startup", "reconcile1", "flush", "select", "reconcile"}
Stopping  == {"drain", "rescan", "cleanup", "closing"}
MainPhase == {"down"} \cup Starting \cup Serving \cup Stopping
LoopPhase == {"off", "select", "scan", "notify"}

ASSUME RefreshAssumption ==
  /\ ReadOrder \in Seq(Table)
  /\ Urgent \subseteq Read
  /\ Direct \cap Read = {}
  /\ ChangePhases \subseteq MainPhase
  /\ DrainOnShutdown \in BOOLEAN /\ CleanupOnShutdown \in BOOLEAN
  /\ MaxChanges \in Nat /\ MaxFaults \in Nat /\ MaxStops \in Nat
  /\ Faults \subseteq FaultKinds

VARIABLES
  server,         \* OVN: content of each table
  seen,           \* the change up to which the monitor stream is consumed
  cache,          \* content of the monitor cache
  events,         \* cache events on their way to a handler
  main, loop,     \* phases of the two goroutines
  cancelled,      \* ctx is cancelled
  urgent,         \* the loop runs its immediateCh branch
  todo, got,      \* refreshState in progress: tables still to list, rows listed
  debounceCh, immediateCh, reconcileCh,  \* is a signal queued?
  debounceTimer, reconcileTimer,         \* is the timer running?
  state,          \* OVNState
  snap,           \* the copy of it a reconcile works on
  applied,        \* what the last reconcile was based on
  changes, faults, stops

ovnVars  == <<server, changes>>
monVars  == <<seen, cache, events>>
scanVars == <<todo, got>>
signals  == <<debounceCh, immediateCh>>
timers   == <<debounceTimer, reconcileTimer>>
data     == <<snap, applied>>
counters == <<faults, stops>>
vars == <<ovnVars, monVars, main, loop, cancelled, urgent, scanVars, signals,
          reconcileCh, timers, state, data, counters>>

NoVersion == [t \in Read |-> Unknown]

TypeOK ==
  /\ server \in [Table -> 0 .. MaxChanges] /\ changes \in 0 .. MaxChanges
  /\ seen \in [Table -> 0 .. MaxChanges] /\ cache \in [Table -> 0 .. MaxChanges]
  /\ events \in [Table -> 0 .. MaxChanges + 1]
  /\ main \in MainPhase /\ loop \in LoopPhase
  /\ {cancelled, urgent, reconcileCh} \subseteq BOOLEAN
  /\ {debounceCh, immediateCh, debounceTimer, reconcileTimer} \subseteq BOOLEAN
  /\ todo \in [Proc -> SUBSET Read] /\ got \in [Proc -> [Read -> Version]]
  /\ state \in [Read -> Version] /\ snap \in [Read -> Version]
  /\ applied \in [Table -> Version]
  /\ faults \in 0 .. MaxFaults /\ stops \in 0 .. MaxStops

Init ==
  /\ server = [t \in Table |-> 0] /\ changes = 0
  /\ seen = server /\ cache = server
  /\ events = [t \in Table |-> 0]
  /\ main = "down" /\ loop = "off"
  /\ cancelled = FALSE /\ urgent = FALSE
  /\ todo = [p \in Proc |-> {}] /\ got = [p \in Proc |-> NoVersion]
  /\ debounceCh = FALSE /\ immediateCh = FALSE /\ reconcileCh = FALSE
  /\ debounceTimer = FALSE /\ reconcileTimer = FALSE
  /\ state = NoVersion /\ snap = NoVersion
  /\ applied = [t \in Table |-> Unknown]
  /\ faults = 0 /\ stops = 0

Fault(kind) ==
  /\ kind \in Faults
  /\ faults < MaxFaults
  /\ faults' = faults + 1 /\ UNCHANGED stops

-----------------------------------------------------------------------------
(* OVN and the monitors of libovsdb *)

Change(t) ==
  /\ main \in ChangePhases /\ changes < MaxChanges
  /\ changes' = changes + 1
  /\ server' = [server EXCEPT ![t] = changes + 1]
  /\ UNCHANGED <<monVars, main, loop, cancelled, urgent, scanVars, signals,
                 reconcileCh, timers, state, data, counters>>

\* The monitor updates the cache and queues an event.  A cache that missed a
\* change before does not get it back.
Mut_EventPerColumn(t) ==
  /\ main # "down" /\ seen[t] # server[t]
  /\ seen'   = [seen EXCEPT ![t] = server[t]]
  /\ cache'  = IF cache[t] = seen[t] THEN [cache EXCEPT ![t] = server[t]] ELSE cache
  /\ events' = [events EXCEPT ![t] = @ + 2]
  /\ UNCHANGED <<ovnVars, main, loop, cancelled, urgent, scanVars, signals,
                 reconcileCh, timers, state, data, counters>>
Deliver(t) ==
  /\ main # "down" /\ seen[t] # server[t]
  /\ seen'   = [seen EXCEPT ![t] = server[t]]
  /\ cache'  = IF cache[t] = seen[t] THEN [cache EXCEPT ![t] = server[t]] ELSE cache
  /\ events' = [events EXCEPT ![t] = @ + 1]
  /\ UNCHANGED <<ovnVars, main, loop, cancelled, urgent, scanVars, signals,
                 reconcileCh, timers, state, data, counters>>

Miss(t) ==
  /\ main # "down" /\ seen[t] # server[t]
  /\ Fault("miss")
  /\ seen' = [seen EXCEPT ![t] = server[t]]
  /\ UNCHANGED <<ovnVars, cache, events, main, loop, cancelled, urgent, scanVars,
                 signals, reconcileCh, timers, state, data>>

(***************************************************************************)
(* sbEventHandler and nbEventHandler, with immediateStateRefresh and       *)
(* debounceStateRefresh: nothing before ready is set, else one signal.     *)
(***************************************************************************)
Ready == main \notin {"down", "monitor", "closing"}

Mut_NoGatewayChassis(t) ==
  /\ events[t] > 0
  /\ events' = [events EXCEPT ![t] = @ - 1]
  /\ immediateCh' = (immediateCh \/ (Ready /\ t \in Urgent))
  /\ debounceCh'  = (debounceCh \/ (Ready /\ t \in Read \ Urgent))
  /\ UNCHANGED <<ovnVars, seen, cache, main, loop, cancelled, urgent, scanVars,
                 reconcileCh, timers, state, data, counters>>
HandleEvent(t) ==
  /\ events[t] > 0
  /\ events' = [events EXCEPT ![t] = @ - 1]
  /\ immediateCh' = (immediateCh \/ (Ready /\ t \in Urgent))
  /\ debounceCh'  = (debounceCh \/ (Ready /\ t \notin Urgent))
  /\ UNCHANGED <<ovnVars, seen, cache, main, loop, cancelled, urgent, scanVars,
                 reconcileCh, timers, state, data, counters>>

-----------------------------------------------------------------------------
(* refreshState *)

BeginScan(p) ==
  /\ todo' = [todo EXCEPT ![p] = Read]
  /\ got'  = [got EXCEPT ![p] = NoVersion]

Scanning(p) ==
  IF p = "loop" THEN loop = "scan" ELSE main \in {"connect", "rescan"}

\* The calls of p run with a cancelled context.  The refresh after the drain
\* has a context of its own.
Cut(p) == cancelled /\ ~(p = "main" /\ main = "rescan")

IsNext(p, t) ==
  \E i \in DOMAIN ReadOrder :
    /\ ReadOrder[i] = t /\ t \in todo[p]
    /\ \A j \in 1 .. i - 1 : ReadOrder[j] \notin todo[p]

(***************************************************************************)
(* cachedList and authoritativeList: the rows of the cache if the server   *)
(* agrees, else the rows of the server, which is the same; the cache when  *)
(* the server cannot be asked.                                             *)
(***************************************************************************)
Mut_CacheOnly(p, t) ==
  got' = [got EXCEPT ![p][t] = cache[t]] /\ UNCHANGED counters
Mut_EitherList(p, t) ==
  /\ \E v \in {server[t], cache[t]} : got' = [got EXCEPT ![p][t] = v]
  /\ UNCHANGED counters
cachedList(p, t) ==
  \/ ~Cut(p) /\ got' = [got EXCEPT ![p][t] = server[t]] /\ UNCHANGED counters
  \/ Cut(p) /\ got' = [got EXCEPT ![p][t] = cache[t]] /\ UNCHANGED counters
  \/ ~Cut(p) /\ Fault("select") /\ got' = [got EXCEPT ![p][t] = cache[t]]

ReadTable(p, t) ==
  /\ Scanning(p) /\ IsNext(p, t)
  /\ cachedList(p, t)
  /\ todo' = [todo EXCEPT ![p] = @ \ {t}]
  /\ UNCHANGED <<ovnVars, monVars, main, loop, cancelled, urgent, signals,
                 reconcileCh, timers, state, data>>

\* All tables are read: OVNState is replaced in one step.  Or a List fails, and
\* OVNState stays as it is.  The caller goes on alike.
ScanEnds(p) ==
  /\ Scanning(p)
  /\ \/ todo[p] = {} /\ state' = got[p] /\ UNCHANGED counters
     \/ todo[p] # {} /\ Fault("list") /\ UNCHANGED state
     \/ todo[p] # {} /\ Cut(p) /\ UNCHANGED <<state, counters>>
  /\ IF p = "loop" THEN loop' = "notify" /\ UNCHANGED main
     ELSE /\ main' = IF main = "connect" THEN "signals" ELSE "cleanup"
          /\ UNCHANGED loop
  /\ todo' = [todo EXCEPT ![p] = {}]
  /\ got'  = [got EXCEPT ![p] = NoVersion]
  /\ UNCHANGED <<ovnVars, monVars, cancelled, urgent, signals, reconcileCh,
                 timers, data>>

-----------------------------------------------------------------------------
(* refreshLoop *)

LoopExit ==
  /\ loop = "select" /\ cancelled
  /\ loop' = "off"
  /\ debounceTimer' = FALSE /\ reconcileTimer' = FALSE
  /\ UNCHANGED <<ovnVars, monVars, main, cancelled, urgent, scanVars, signals,
                 reconcileCh, state, data, counters>>

ReceiveDebounce ==
  /\ loop = "select" /\ debounceCh
  /\ debounceCh' = FALSE /\ debounceTimer' = TRUE
  /\ UNCHANGED <<ovnVars, monVars, main, loop, cancelled, urgent, scanVars,
                 immediateCh, reconcileCh, reconcileTimer, state, data, counters>>

DebounceFire ==
  /\ loop = "select" /\ debounceTimer
  /\ debounceTimer' = FALSE
  /\ loop' = "scan" /\ urgent' = FALSE /\ BeginScan("loop")
  /\ UNCHANGED <<ovnVars, monVars, main, cancelled, signals, reconcileCh,
                 reconcileTimer, state, data, counters>>

\* The immediate refresh supersedes a pending debounce.
ReceiveImmediate ==
  /\ loop = "select" /\ immediateCh
  /\ immediateCh' = FALSE /\ debounceTimer' = FALSE
  /\ loop' = "scan" /\ urgent' = TRUE /\ BeginScan("loop")
  /\ UNCHANGED <<ovnVars, monVars, main, cancelled, debounceCh, reconcileCh,
                 reconcileTimer, state, data, counters>>

\* After the refresh: onChange, at once or through reconcileTimer.
Mut_NotifyDrains ==
  /\ loop = "notify" /\ loop' = "select" /\ urgent' = FALSE
  /\ reconcileCh' = (reconcileCh \/ urgent)
  /\ reconcileTimer' = (reconcileTimer \/ ~urgent)
  /\ debounceCh' = FALSE /\ immediateCh' = FALSE
  /\ UNCHANGED <<ovnVars, monVars, main, cancelled, scanVars,
                 debounceTimer, state, data, counters>>
Mut_NotifyByTimerOnly ==
  /\ loop = "notify" /\ loop' = "select" /\ urgent' = FALSE
  /\ reconcileTimer' = (reconcileTimer \/ ~urgent)
  /\ UNCHANGED <<ovnVars, monVars, main, cancelled, scanVars, signals,
                 reconcileCh, debounceTimer, state, data, counters>>
Notify ==
  /\ loop = "notify" /\ loop' = "select" /\ urgent' = FALSE
  /\ reconcileCh' = (reconcileCh \/ urgent)
  /\ reconcileTimer' = (reconcileTimer \/ ~urgent)
  /\ UNCHANGED <<ovnVars, monVars, main, cancelled, scanVars, signals,
                 debounceTimer, state, data, counters>>

ReconcileFire ==
  /\ loop = "select" /\ reconcileTimer
  /\ reconcileTimer' = FALSE /\ reconcileCh' = TRUE
  /\ UNCHANGED <<ovnVars, monVars, main, loop, cancelled, urgent, scanVars,
                 signals, debounceTimer, state, data, counters>>

-----------------------------------------------------------------------------
(* The main goroutine: Connect and start-up *)

\* Both Monitor calls return: the caches are complete, the events of their rows
\* are on their way.
Connect ==
  /\ main = "down" /\ main' = "monitor"
  /\ seen' = server /\ cache' = server
  /\ events' = [t \in Table |-> 1]
  /\ UNCHANGED <<ovnVars, loop, cancelled, urgent, scanVars, signals,
                 reconcileCh, timers, state, data, counters>>

\* An error before ready: the clients are closed, and Connect is tried again.
ConnectFails ==
  /\ main = "monitor" /\ main' = "down"
  /\ Fault("connect")
  /\ events' = [t \in Table |-> 0]
  /\ UNCHANGED <<ovnVars, seen, cache, loop, cancelled, urgent, scanVars, signals,
                 reconcileCh, timers, state, data>>

SetReady ==
  /\ main = "monitor" /\ main' = "connect"
  /\ BeginScan("main")
  /\ UNCHANGED <<ovnVars, monVars, loop, cancelled, urgent, signals,
                 reconcileCh, timers, state, data, counters>>

\* drainSignals, then the refresh loop starts.
DrainSignals ==
  /\ main = "signals" /\ main' = "startup"
  /\ debounceCh' = FALSE /\ immediateCh' = FALSE
  /\ loop' = "select"
  /\ UNCHANGED <<ovnVars, monVars, cancelled, urgent, scanVars, reconcileCh,
                 timers, state, data, counters>>

\* reconcile: on a copy of OVNState (GetState) ...
BeginReconcile(from, to) ==
  /\ main = from /\ main' = to
  /\ snap' = state
  /\ UNCHANGED <<ovnVars, monVars, loop, cancelled, urgent, scanVars, signals,
                 timers, state, applied, counters>>

StartupReconcile == BeginReconcile("startup", "reconcile1") /\ UNCHANGED reconcileCh

\* ... and on the cached Gateway_Chassis rows.
EndReconcile ==
  /\ main \in {"reconcile1", "reconcile"}
  /\ main' = IF main = "reconcile1" THEN "flush" ELSE "select"
  /\ applied' = [t \in Table |-> IF t \in Read THEN snap[t] ELSE cache[t]]
  /\ snap' = NoVersion
  /\ UNCHANGED <<ovnVars, monVars, loop, cancelled, urgent, scanVars, signals,
                 reconcileCh, timers, state, counters>>

FlushReconcileCh ==
  /\ main = "flush" /\ main' = "select"
  /\ reconcileCh' = FALSE
  /\ UNCHANGED <<ovnVars, monVars, loop, cancelled, urgent, scanVars, signals,
                 timers, state, data, counters>>

-----------------------------------------------------------------------------
(* The main goroutine: main loop and shutdown *)

EventReconcile ==
  /\ reconcileCh /\ reconcileCh' = FALSE
  /\ BeginReconcile("select", "reconcile")

PeriodicReconcile == BeginReconcile("select", "reconcile") /\ UNCHANGED reconcileCh

\* SIGTERM: ctx is cancelled, in whatever phase the goroutines are.
Stop ==
  /\ main \in Serving \cup {"connect", "signals"} /\ ~cancelled
  /\ stops < MaxStops
  /\ stops' = stops + 1 /\ UNCHANGED faults
  /\ cancelled' = TRUE
  /\ UNCHANGED <<ovnVars, monVars, main, loop, urgent, scanVars, signals,
                 reconcileCh, timers, state, data>>

\* The ctx.Done branch: DrainGateways, if configured, during which OVN moves the
\* ports ...
BeginDrain ==
  /\ main = "select" /\ cancelled
  /\ main' = IF DrainOnShutdown THEN "drain" ELSE "cleanup"
  /\ UNCHANGED <<ovnVars, monVars, loop, cancelled, urgent, scanVars, signals,
                 reconcileCh, timers, state, data, counters>>

\* ... a refreshState of its own ...
RefreshAfterDrain ==
  /\ main = "drain" /\ main' = "rescan"
  /\ BeginScan("main")
  /\ UNCHANGED <<ovnVars, monVars, loop, cancelled, urgent, signals, reconcileCh,
                 timers, state, data, counters>>

\* ... cleanup, if configured, on OVNState ...
Cleanup ==
  /\ main = "cleanup" /\ main' = "closing"
  /\ snap' = IF CleanupOnShutdown THEN state ELSE snap
  /\ UNCHANGED <<ovnVars, monVars, loop, cancelled, urgent, scanVars, signals,
                 reconcileCh, timers, state, applied, counters>>

\* ... and Close, which waits for the refresh loop.  The process exits and is
\* started again; the routes it wrote remain.
Close ==
  /\ main = "closing" /\ loop = "off"
  /\ main' = "down" /\ cancelled' = FALSE /\ urgent' = FALSE
  /\ events' = [t \in Table |-> 0]
  /\ todo' = [p \in Proc |-> {}] /\ got' = [p \in Proc |-> NoVersion]
  /\ debounceCh' = FALSE /\ immediateCh' = FALSE /\ reconcileCh' = FALSE
  /\ debounceTimer' = FALSE /\ reconcileTimer' = FALSE
  /\ state' = NoVersion /\ snap' = NoVersion
  /\ UNCHANGED <<ovnVars, seen, cache, loop, applied, counters>>

-----------------------------------------------------------------------------
MainStep ==
  \/ Connect \/ ConnectFails \/ SetReady \/ DrainSignals
  \/ StartupReconcile \/ EndReconcile \/ FlushReconcileCh
  \/ EventReconcile \/ PeriodicReconcile
  \/ BeginDrain \/ RefreshAfterDrain \/ Cleanup \/ Close

LoopStep ==
  \/ LoopExit \/ ReceiveDebounce \/ DebounceFire \/ ReceiveImmediate
  \/ Notify \/ ReconcileFire

ScanStep(p) == ScanEnds(p) \/ \E t \in Read : ReadTable(p, t)

Next ==
  \/ MainStep \/ LoopStep \/ Stop
  \/ \E p \in Proc : ScanStep(p)
  \/ \E t \in Table : Change(t) \/ Deliver(t) \/ Miss(t) \/ HandleEvent(t)

(***************************************************************************)
(* Fairness: both goroutines run, the monitors deliver and call the        *)
(* handlers, timers and the ticker fire.  A select picks at random among   *)
(* the branches that are ready, so that of Run does not pass over ctx.Done *)
(* for ever.                                                               *)
(***************************************************************************)
Fairness ==
  /\ WF_vars(MainStep \/ ScanStep("main"))
  /\ SF_vars(BeginDrain)
  /\ WF_vars(LoopStep \/ ScanStep("loop"))
  /\ \A t \in Table : WF_vars(Deliver(t)) /\ WF_vars(HandleEvent(t))

Spec     == Init /\ [][Next]_vars
FairSpec == Spec /\ Fairness

-----------------------------------------------------------------------------
(* Properties *)

\* A signal that leads to a refresh; for an urgent table, one without a delay.
SignalFor(t) == immediateCh \/ (t \notin Urgent /\ (debounceCh \/ debounceTimer))

\* The change is on its way to a signal, or is one.
OnItsWay(t) == seen[t] # server[t] \/ events[t] > 0 \/ SignalFor(t)

\* The refresh in progress will bring it.
InScan(t) == loop = "scan" /\ (t \in todo["loop"] \/ got["loop"][t] = server[t])

(***************************************************************************)
(* No change is forgotten: while the agent serves, every table of which    *)
(* OVNState is behind has something on its way that will refresh it, and a *)
(* chassisredirect change never waits for the debounce timer alone         *)
(* (refreshLoop, the capacity-1 channels, the cancelled debounce timer,    *)
(* the cache fallback of authoritativeList).                               *)
(***************************************************************************)
ChangeCovered ==
  main \in Serving /\ ~cancelled =>
    \A t \in Read : state[t] # server[t] => OnItsWay(t) \/ InScan(t)

(***************************************************************************)
(* No wake-up is lost: when OVNState is not what the main goroutine last   *)
(* worked on, a reconcile is queued, or a timer or a refresh about to      *)
(* queue one (refreshLoop, triggerReconcile, the select of Run).           *)
(***************************************************************************)
WorkedOn(t) == IF main = "select" THEN applied[t] ELSE snap[t]

WakeupPending ==
  main \in {"select", "reconcile"} /\ ~cancelled =>
    \A t \in Read : state[t] # WorkedOn(t) =>
      reconcileCh \/ reconcileTimer \/ loop = "notify"

(***************************************************************************)
(* Quiet means current: when nothing is on its way any more, no event, no  *)
(* signal, no timer, no refresh and no reconcile, the last reconcile was   *)
(* based on what the databases hold, Gateway_Chassis included.  Otherwise  *)
(* the agent sleeps on old data until the next event, whenever it comes    *)
(* (both event handlers, refreshLoop, Run).                                *)
(***************************************************************************)
Quiet ==
  /\ main = "select" /\ loop = "select" /\ ~cancelled
  /\ seen = server /\ \A t \in Table : events[t] = 0
  /\ TRUE \notin {debounceCh, immediateCh, reconcileCh, debounceTimer, reconcileTimer}

QuietIsCurrent == Quiet => applied = server

(***************************************************************************)
(* A refresh heals what the monitor lost: whatever it is started by, the   *)
(* loop's next refresh brings OVNState up to what the server held when it  *)
(* began, also for tables whose change produced no event (cachedList,      *)
(* authoritativeList).                                                     *)
(***************************************************************************)
RefreshHeals ==
  \A t \in Read, v \in 1 .. MaxChanges :
    (loop = "scan" /\ todo["loop"] = Read /\ server[t] = v) ~> (state[t] >= v)

(***************************************************************************)
(* Convergence: once the databases stop changing, the last reconcile is    *)
(* based on what they hold, unless a monitor cache stays behind for good   *)
(* (Run, refreshLoop).                                                     *)
(***************************************************************************)
Converges == <>[](cache = seen) => <>[](applied = server)

(***************************************************************************)
(* No reconcile goes back: from start to shutdown, OVNState and what the   *)
(* reconciles are based on only move forward and never get ahead of the    *)
(* databases; what was applied holds across restarts too.  Only an agent   *)
(* whose context is cancelled may fall back on an older cache, and forgets *)
(* OVNState when it exits (refreshState in both goroutines,                *)
(* authoritativeList, GetState, reconcile, Close).                         *)
(***************************************************************************)
OfRead(f) == [t \in Read |-> f[t]]

Snapshot == INSTANCE Follower
              WITH Item <- Read, source <- OfRead(server), copy <- state, leaving <- cancelled
Applied  == INSTANCE Follower
              WITH Item <- Table, source <- server, copy <- applied, leaving <- cancelled

FollowsServer == Snapshot!Spec /\ Applied!Spec

(***************************************************************************)
(* What a comment of the repository says, and the code does not guarantee: *)
(* a run expects a counterexample.                                         *)
(***************************************************************************)

\* Connect, on drainSignals: "refreshState already captured the current state, so
\* they would only cause redundant work".
DrainedSignalsRedundant ==
  [][main = "signals" /\ main' = "startup" =>
       \A t \in Read : state[t] # server[t] => seen[t] # server[t] \/ events[t] > 0]_vars

=============================================================================
