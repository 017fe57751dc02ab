------------------------- MODULE RefreshLoopProofs -------------------------
(***************************************************************************)
(* Proofs about RefreshLoop, for every set of tables and every bound: no   *)
(* change of the databases is forgotten by the event path, no wake-up of   *)
(* the main loop is lost, a quiet agent is current, and no reconcile goes  *)
(* back to older data.                                                     *)
(***************************************************************************)
EXTENDS RefreshLoop, TLAPS

(***************************************************************************)
(* The part of the types the argument needs.  Versions are bounded by the  *)
(* number of changes, so that a new one is always new to the monitor.      *)
(***************************************************************************)
Shape ==
  /\ server \in [Table -> Nat] /\ seen \in [Table -> Nat]
  /\ events \in [Table -> Nat]
  /\ changes \in Nat
  /\ \A t \in Table : server[t] <= changes /\ seen[t] <= changes
  /\ todo \in [Proc -> SUBSET Read] /\ got \in [Proc -> [Read -> Int]]
  /\ state \in [Read -> Int]
  /\ main \in MainPhase /\ loop \in LoopPhase

\* Start-up: the first OVNState is current when the loop takes over.
StartsCurrent ==
  /\ main \in Starting => seen = server
  /\ main = "connect" /\ ~cancelled =>
       \A t \in Read : t \notin todo["main"] => got["main"][t] = server[t]
  /\ main = "signals" /\ ~cancelled => \A t \in Read : state[t] = server[t]
  /\ main \in {"down"} \cup Starting => loop = "off"

\* What the refresh in progress has read too early is on its way again.
ScanCovered ==
  main \in Serving /\ ~cancelled /\ loop = "scan" =>
    \A t \in Read : t \notin todo["loop"] /\ got["loop"][t] # server[t] => OnItsWay(t)

CInv == Shape /\ cache = seen /\ StartsCurrent /\ ScanCovered /\ ChangeCovered

QuietStart == ChangePhases \cap Starting = {}

\* The constants of Proc and the tables refreshState reads.
LEMMA Basics ==
  /\ "main" \in Proc /\ "loop" \in Proc /\ "main" # "loop"
  /\ \A p \in Proc : p # "loop" => p = "main"
  /\ Read \subseteq Table
  /\ NoVersion \in [Read -> Int]
  BY DEF Proc, Table, NoVersion, Unknown

LEMMA ShapeInit == Init => CInv
  <1> SUFFICES ASSUME Init PROVE CInv
    OBVIOUS
  <1>1. Shape
    BY Basics DEF Init, Shape, Unknown, NoVersion, MainPhase, LoopPhase
  <1>2. cache = seen /\ main = "down" /\ loop = "off"
    BY DEF Init
  <1>3. StartsCurrent /\ ScanCovered /\ ChangeCovered
    BY <1>2 DEF StartsCurrent, ScanCovered, ChangeCovered, Starting, Serving
  <1> QED
    BY <1>1, <1>2, <1>3 DEF CInv

\* Every step keeps the types.
LEMMA ShapeStep ==
  ASSUME Shape, cache = seen, [Next]_vars PROVE Shape'
  <1> USE Basics
  <1> USE DEF Shape, MainPhase, LoopPhase, Starting, Serving, Stopping
  <1>1. CASE MainStep
    <2>1. CASE Connect
      BY <2>1 DEF Connect, ovnVars, scanVars
    <2>2. CASE ConnectFails
      BY <2>2 DEF ConnectFails, ovnVars, scanVars
    <2>3. CASE SetReady
      BY <2>3 DEF SetReady, BeginScan, ovnVars, monVars
    <2>4. CASE DrainSignals
      BY <2>4 DEF DrainSignals, ovnVars, monVars, scanVars
    <2>5. CASE StartupReconcile \/ EventReconcile \/ PeriodicReconcile
      BY <2>5 DEF StartupReconcile, EventReconcile, PeriodicReconcile, BeginReconcile,
                  ovnVars, monVars, scanVars
    <2>6. CASE EndReconcile
      BY <2>6 DEF EndReconcile, ovnVars, monVars, scanVars
    <2>7. CASE FlushReconcileCh
      BY <2>7 DEF FlushReconcileCh, ovnVars, monVars, scanVars
    <2>8. CASE BeginDrain \/ Cleanup
      BY <2>8 DEF BeginDrain, Cleanup, ovnVars, monVars, scanVars
    <2>9. CASE RefreshAfterDrain
      BY <2>9 DEF RefreshAfterDrain, BeginScan, ovnVars, monVars
    <2>10. CASE Close
      <3>1. todo' \in [Proc -> SUBSET Read] /\ got' \in [Proc -> [Read -> Int]]
        BY <2>10 DEF Close
      <3> QED
        BY <2>10, <3>1 DEF Close, ovnVars
    <2> QED
      BY <1>1, <2>1, <2>2, <2>3, <2>4, <2>5, <2>6, <2>7, <2>8, <2>9, <2>10 DEF MainStep
  <1>2. CASE LoopStep
    <2>1. CASE LoopExit \/ ReceiveDebounce \/ Notify \/ ReconcileFire
      BY <2>1 DEF LoopExit, ReceiveDebounce, Notify, ReconcileFire, ovnVars, monVars, scanVars
    <2>2. CASE DebounceFire
      BY <2>2 DEF DebounceFire, BeginScan, ovnVars, monVars
    <2>3. CASE ReceiveImmediate
      BY <2>3 DEF ReceiveImmediate, BeginScan, ovnVars, monVars
    <2> QED
      BY <1>2, <2>1, <2>2, <2>3 DEF LoopStep
  <1>3. CASE Stop
    BY <1>3 DEF Stop, ovnVars, monVars, scanVars
  <1>4. ASSUME NEW p \in Proc, ScanEnds(p) PROVE Shape'
    <2>1. state' \in [Read -> Int]
      BY <1>4 DEF ScanEnds
    <2>2. todo' \in [Proc -> SUBSET Read] /\ got' \in [Proc -> [Read -> Int]]
      BY <1>4 DEF ScanEnds
    <2>3. main' \in MainPhase /\ loop' \in LoopPhase
      BY <1>4 DEF ScanEnds
    <2> QED
      BY <1>4, <2>1, <2>2, <2>3 DEF ScanEnds, ovnVars, monVars
  <1>5. ASSUME NEW p \in Proc, NEW t \in Read, ReadTable(p, t) PROVE Shape'
    <2>1. server[t] \in Int /\ cache[t] \in Int
      OBVIOUS
    <2>2. PICK v \in Int : got' = [got EXCEPT ![p][t] = v]
      BY <1>5, <2>1 DEF ReadTable, cachedList
    <2>3. [got[p] EXCEPT ![t] = v] \in [Read -> Int]
      OBVIOUS
    <2>4. got' \in [Proc -> [Read -> Int]]
      BY <2>2, <2>3
    <2> QED
      BY <1>5, <2>4 DEF ReadTable, ovnVars, monVars
  <1>6. ASSUME NEW t \in Table, Change(t) PROVE Shape'
    BY <1>6 DEF Change, monVars, scanVars
  <1>7. ASSUME NEW t \in Table, Deliver(t) \/ Miss(t) \/ HandleEvent(t) PROVE Shape'
    <2>1. CASE Deliver(t)
      BY <2>1 DEF Deliver, ovnVars, scanVars
    <2>2. CASE Miss(t)
      BY <2>2 DEF Miss, ovnVars, scanVars
    <2>3. CASE HandleEvent(t)
      <3>1. events[t] - 1 \in Nat
        BY <2>3 DEF HandleEvent
      <3> QED
        BY <2>3, <3>1 DEF HandleEvent, ovnVars, scanVars
    <2> QED
      BY <1>7, <2>1, <2>2, <2>3
  <1>8. CASE UNCHANGED vars
    BY <1>8 DEF vars, ovnVars, monVars, scanVars
  <1> QED
    BY <1>1, <1>2, <1>3, <1>4, <1>5, <1>6, <1>7, <1>8 DEF Next, ScanStep

Covered == cache = seen /\ StartsCurrent /\ ScanCovered /\ ChangeCovered

\* A step that leaves all of this alone keeps the invariant.
LEMMA CoveredFrame ==
  ASSUME Covered, UNCHANGED <<ovnVars, monVars, main, loop, cancelled, scanVars,
                              signals, debounceTimer, state>>
  PROVE  Covered'
  BY DEF Covered, StartsCurrent, ScanCovered, ChangeCovered, OnItsWay, InScan, SignalFor,
         ovnVars, monVars, scanVars, signals

\* The main goroutine: from the first scan on, its steps do not touch what the
\* event path works with, and DrainSignals hands over a current state.
LEMMA CoveredMain ==
  ASSUME Shape, Covered, MainStep PROVE Covered'
  <1> USE Basics
  <1> USE DEF Covered, Starting, Serving, Stopping
  <1>1. CASE Connect
    BY <1>1 DEF Connect, StartsCurrent, ScanCovered, ChangeCovered, ovnVars
  <1>2. CASE ConnectFails
    BY <1>2 DEF ConnectFails, StartsCurrent, ScanCovered, ChangeCovered, ovnVars
  <1>3. CASE SetReady
    <2>1. \A t \in Read : t \in todo'["main"]
      BY <1>3 DEF SetReady, BeginScan, Shape
    <2> QED
      BY <1>3, <2>1 DEF SetReady, StartsCurrent, ScanCovered, ChangeCovered, ovnVars, monVars
  <1>4. CASE DrainSignals
    BY <1>4 DEF DrainSignals, StartsCurrent, ScanCovered, ChangeCovered, ovnVars, monVars
  <1>5. CASE StartupReconcile \/ EventReconcile \/ PeriodicReconcile
    BY <1>5 DEF StartupReconcile, EventReconcile, PeriodicReconcile, BeginReconcile,
                StartsCurrent, ScanCovered, ChangeCovered, OnItsWay, InScan, SignalFor,
                ovnVars, monVars, scanVars, signals, timers
  <1>6. CASE EndReconcile
    BY <1>6 DEF EndReconcile, StartsCurrent, ScanCovered, ChangeCovered,
                OnItsWay, InScan, SignalFor, ovnVars, monVars, scanVars, signals, timers
  <1>7. CASE FlushReconcileCh
    BY <1>7 DEF FlushReconcileCh, StartsCurrent, ScanCovered, ChangeCovered,
                OnItsWay, InScan, SignalFor, ovnVars, monVars, scanVars, signals, timers
  <1>8. CASE BeginDrain \/ RefreshAfterDrain \/ Cleanup
    BY <1>8 DEF BeginDrain, RefreshAfterDrain, Cleanup, StartsCurrent, ScanCovered,
                ChangeCovered, ovnVars, monVars
  <1>9. CASE Close
    BY <1>9 DEF Close, StartsCurrent, ScanCovered, ChangeCovered, ovnVars
  <1> QED
    BY <1>1, <1>2, <1>3, <1>4, <1>5, <1>6, <1>7, <1>8, <1>9 DEF MainStep

\* The refresh loop: a signal becomes a timer or a refresh that reads every table.
LEMMA CoveredLoop ==
  ASSUME Shape, Covered, LoopStep PROVE Covered'
  <1> USE Basics
  <1> USE DEF Covered, Starting, Serving
  <1>1. CASE LoopExit
    BY <1>1 DEF LoopExit, StartsCurrent, ScanCovered, ChangeCovered, ovnVars, monVars, scanVars
  <1>2. CASE ReceiveDebounce
    BY <1>2 DEF ReceiveDebounce, StartsCurrent, ScanCovered, ChangeCovered,
                OnItsWay, InScan, SignalFor, ovnVars, monVars, scanVars
  <1>3. CASE DebounceFire \/ ReceiveImmediate
    <2>1. /\ todo'["loop"] = Read /\ todo'["main"] = todo["main"]
          /\ got'["main"] = got["main"]
          /\ loop = "select" /\ loop' = "scan"
          /\ UNCHANGED <<server, seen, cache, events, main, cancelled, state>>
      BY <1>3 DEF DebounceFire, ReceiveImmediate, BeginScan, Shape, ovnVars, monVars
    <2> QED
      BY <2>1 DEF StartsCurrent, ScanCovered, ChangeCovered, InScan
  <1>4. CASE Notify
    BY <1>4 DEF Notify, StartsCurrent, ScanCovered, ChangeCovered,
                OnItsWay, InScan, SignalFor, ovnVars, monVars, scanVars, signals
  <1>5. CASE ReconcileFire
    BY <1>5, CoveredFrame DEF ReconcileFire
  <1> QED
    BY <1>1, <1>2, <1>3, <1>4, <1>5 DEF LoopStep

\* refreshState: what is read is current, or its change is still to be delivered.
LEMMA CoveredScan ==
  ASSUME "list" \notin Faults, Shape, Covered, NEW p \in Proc, ScanStep(p)
  PROVE  Covered'
  <1> USE Basics
  <1> USE DEF Covered, Starting, Serving
  <1>1. CASE ScanEnds(p) /\ p = "loop"
    <2>1. /\ loop = "scan" /\ loop' = "notify"
          /\ UNCHANGED <<server, seen, cache, events, main, cancelled, signals, timers>>
          /\ todo'["main"] = todo["main"] /\ got'["main"] = got["main"]
      BY <1>1 DEF ScanEnds, Scanning, Shape, ovnVars, monVars
    <2>2. StartsCurrent'
      BY <2>1 DEF StartsCurrent
    <2>3. ASSUME ~cancelled, NEW t \in Read
          PROVE  t \notin todo["loop"] /\ state'[t] = got["loop"][t]
      BY <1>1, <2>3 DEF ScanEnds, Fault, Cut
    <2> QED
      BY <2>1, <2>2, <2>3 DEF ScanCovered, ChangeCovered, OnItsWay, SignalFor, signals, timers
  <1>2. CASE ScanEnds(p) /\ p = "main"
    <2>1. /\ main \in {"connect", "rescan"}
          /\ main' = IF main = "connect" THEN "signals" ELSE "cleanup"
          /\ UNCHANGED <<server, seen, cache, events, loop, cancelled>>
      BY <1>2 DEF ScanEnds, Scanning, ovnVars, monVars
    <2>2. ASSUME ~cancelled, main = "connect", NEW t \in Read
          PROVE  state'[t] = server[t]
      BY <1>2, <2>2 DEF ScanEnds, Fault, Cut, StartsCurrent
    <2> QED
      BY <2>1, <2>2 DEF StartsCurrent, ScanCovered, ChangeCovered
  <1>3. ASSUME NEW t \in Read, ReadTable(p, t) PROVE Covered'
    <2> DEFINE q == IF p = "loop" THEN "main" ELSE "loop"
    <2>1. /\ UNCHANGED <<server, seen, cache, events, main, loop, cancelled, signals, timers, state>>
          /\ Scanning(p) /\ todo'[p] = todo[p] \ {t} /\ todo'[q] = todo[q]
      BY <1>3 DEF ReadTable, Shape, ovnVars, monVars
    <2>2. PICK v \in {server[t], cache[t]} : got' = [got EXCEPT ![p][t] = v]
      BY <1>3 DEF ReadTable, cachedList
    <2>3. \A u \in Read : got'[q][u] = got[q][u] /\ (u # t => got'[p][u] = got[p][u])
      BY <2>2 DEF Shape
    <2>4. got'[p][t] = v /\ (v # server[t] => seen[t] # server[t])
      BY <2>2 DEF Shape
    <2> HIDE DEF q
    <2>5. StartsCurrent'
      <3>1. main = "connect" /\ ~cancelled =>
              \A u \in Read : u \notin todo'["main"] => got'["main"][u] = server[u]
        BY <2>1, <2>3, <2>4 DEF StartsCurrent, q
      <3> QED
        BY <2>1, <3>1 DEF StartsCurrent
    <2>6. ScanCovered'
      BY <2>1, <2>3, <2>4 DEF ScanCovered, OnItsWay, SignalFor, signals, timers, q
    <2>7. ChangeCovered'
      BY <2>1, <2>3, <2>4 DEF ChangeCovered, InScan, OnItsWay, SignalFor, signals, timers, q
    <2> QED
      BY <2>1, <2>5, <2>6, <2>7
  <1> QED
    BY <1>1, <1>2, <1>3 DEF ScanStep

\* OVN and the monitors: a change is delivered, a delivery is an event, an event
\* is a signal.
LEMMA CoveredEnv ==
  ASSUME "miss" \notin Faults, QuietStart, Shape, Covered, NEW t \in Table,
         Change(t) \/ Deliver(t) \/ Miss(t) \/ HandleEvent(t)
  PROVE  Covered'
  <1> USE Basics
  <1> USE DEF Covered, Starting, Serving
  <1>1. CASE Change(t)
    <2>1. /\ main \notin Starting
          /\ server' = [server EXCEPT ![t] = changes + 1]
          /\ UNCHANGED <<seen, cache, events, main, loop, cancelled, scanVars, signals, timers, state>>
      BY <1>1 DEF Change, QuietStart, monVars
    <2>2. \A u \in Table : (u # t => server'[u] = server[u])
      BY <2>1 DEF Shape
    <2>3. seen[t] # server'[t]
      BY <2>1 DEF Shape
    <2>4. StartsCurrent'
      BY <2>1 DEF StartsCurrent
    <2>5. ScanCovered'
      BY <2>1, <2>2, <2>3 DEF ScanCovered, OnItsWay, SignalFor, scanVars, signals, timers
    <2>6. ChangeCovered'
      BY <2>1, <2>2, <2>3 DEF ChangeCovered, InScan, OnItsWay, SignalFor, scanVars, signals, timers
    <2> QED
      BY <2>1, <2>4, <2>5, <2>6
  <1>2. CASE Deliver(t)
    <2>1. /\ UNCHANGED <<server, main, loop, cancelled, scanVars, signals, timers, state>>
          /\ seen' = [seen EXCEPT ![t] = server[t]] /\ cache' = seen'
          /\ seen[t] # server[t]
      BY <1>2 DEF Deliver, ovnVars
    <2>2. \A u \in Table : u # t => seen'[u] = seen[u] /\ events'[u] = events[u]
      BY <1>2 DEF Deliver, Shape
    <2>3. events'[t] > 0
      BY <1>2 DEF Deliver, Shape
    <2>4. StartsCurrent'
      BY <2>1 DEF StartsCurrent, scanVars
    <2>5. ScanCovered'
      BY <2>1, <2>2, <2>3 DEF ScanCovered, OnItsWay, SignalFor, scanVars, signals, timers
    <2>6. ChangeCovered'
      BY <2>1, <2>2, <2>3 DEF ChangeCovered, InScan, OnItsWay, SignalFor, scanVars, signals, timers
    <2> QED
      BY <2>1, <2>4, <2>5, <2>6
  <1>3. CASE Miss(t)
    BY <1>3 DEF Miss, Fault
  <1>4. CASE HandleEvent(t)
    <2>1. /\ UNCHANGED <<server, seen, cache, main, loop, cancelled, scanVars, timers, state>>
      BY <1>4 DEF HandleEvent, ovnVars
    <2>2. \A u \in Table : u # t => events'[u] = events[u]
      BY <1>4 DEF HandleEvent, Shape
    <2>3. (immediateCh => immediateCh') /\ (debounceCh => debounceCh')
      BY <1>4 DEF HandleEvent
    <2>4. main \in Serving => SignalFor(t)'
      BY <1>4, <2>1 DEF HandleEvent, SignalFor, Ready
    <2>5. \A u \in Table : SignalFor(u) => SignalFor(u)'
      BY <2>1, <2>3 DEF SignalFor, timers
    <2>6. \A u \in Table : main \in Serving /\ OnItsWay(u) => OnItsWay(u)'
      BY <2>1, <2>2, <2>4, <2>5 DEF OnItsWay
    <2>7. StartsCurrent'
      BY <2>1 DEF StartsCurrent, scanVars
    <2>8. ScanCovered'
      BY <2>1, <2>6 DEF ScanCovered, scanVars
    <2>9. ChangeCovered'
      BY <2>1, <2>6 DEF ChangeCovered, InScan, scanVars
    <2> QED
      BY <2>1, <2>7, <2>8, <2>9
  <1> QED
    BY <1>1, <1>2, <1>3, <1>4

LEMMA CoveredStep ==
  ASSUME "miss" \notin Faults, "list" \notin Faults, QuietStart, CInv, [Next]_vars
  PROVE  CInv'
  <1>1. Shape /\ Covered
    BY DEF CInv, Covered
  <1>2. Shape'
    BY <1>1, ShapeStep DEF Covered
  <1>3. Covered'
    <2>1. CASE MainStep
      BY <1>1, <2>1, CoveredMain
    <2>2. CASE LoopStep
      BY <1>1, <2>2, CoveredLoop
    <2>3. CASE Stop
      BY <1>1, <2>3 DEF Stop, Covered, StartsCurrent, ScanCovered, ChangeCovered,
            ovnVars, monVars
    <2>4. ASSUME NEW p \in Proc, ScanStep(p) PROVE Covered'
      BY <1>1, <2>4, CoveredScan
    <2>5. ASSUME NEW t \in Table, Change(t) \/ Deliver(t) \/ Miss(t) \/ HandleEvent(t)
          PROVE  Covered'
      BY <1>1, <2>5, CoveredEnv
    <2>6. CASE UNCHANGED vars
      BY <1>1, <2>6, CoveredFrame DEF vars, timers
    <2> QED
      BY <2>1, <2>2, <2>3, <2>4, <2>5, <2>6 DEF Next
  <1> QED
    BY <1>2, <1>3 DEF CInv, Covered

(***************************************************************************)
(* No change is forgotten by the event path, whatever the tables, their    *)
(* number of changes, failed selects, failed connections and shutdowns, as *)
(* long as the monitors and List work and OVN is quiet while Connect runs  *)
(* (refreshLoop, refreshState, the event handlers).                        *)
(***************************************************************************)
THEOREM NoChangeForgotten ==
  ASSUME "miss" \notin Faults, "list" \notin Faults, QuietStart
  PROVE  Spec => []ChangeCovered
  <1>1. Init => CInv
    BY ShapeInit
  <1>2. CInv /\ [Next]_vars => CInv'
    BY CoveredStep
  <1>3. CInv => ChangeCovered
    BY DEF CInv
  <1> QED
    BY <1>1, <1>2, <1>3, PTL DEF Spec

-----------------------------------------------------------------------------
(* Types *)

\* Contents are numbers of changes.  A table has no more events on their way than
\* changes, and the one of Connect.
EventsBounded ==
  \A t \in Table : /\ server[t] <= changes /\ seen[t] <= changes
                   /\ events[t] <= changes + 1
                   /\ seen[t] # server[t] => events[t] <= changes

TypeInv == TypeOK /\ EventsBounded

\* The values of versions, and what a scan begins with.
LEMMA VersionFacts ==
  ASSUME RefreshAssumption
  PROVE  /\ NoVersion \in [Read -> Version]
         /\ \A i \in 0 .. MaxChanges : i \in Version
         /\ \A v \in Version : v \in Int
  BY DEF NoVersion, Version, Unknown, RefreshAssumption

LEMMA ScanTypes ==
  ASSUME RefreshAssumption, TypeOK, NEW p \in Proc, BeginScan(p)
  PROVE  todo' \in [Proc -> SUBSET Read] /\ got' \in [Proc -> [Read -> Version]]
  <1>1. todo \in [Proc -> SUBSET Read] /\ got \in [Proc -> [Read -> Version]]
    BY DEF TypeOK
  <1>2. todo' = [todo EXCEPT ![p] = Read] /\ got' = [got EXCEPT ![p] = NoVersion]
    BY DEF BeginScan
  <1> QED
    BY <1>1, <1>2, VersionFacts

LEMMA TypeInvInit == Init => TypeInv
  <1> SUFFICES ASSUME Init PROVE TypeInv
    OBVIOUS
  <1> USE RefreshAssumption, VersionFacts DEF Init
  <1>1. /\ todo \in [Proc -> SUBSET Read] /\ got \in [Proc -> [Read -> Version]]
        /\ state \in [Read -> Version] /\ snap \in [Read -> Version]
    OBVIOUS
  <1>2. applied \in [Table -> Version]
    BY DEF Version, Unknown, RefreshAssumption
  <1>3. /\ server \in [Table -> 0 .. MaxChanges] /\ changes \in 0 .. MaxChanges
        /\ events \in [Table -> 0 .. MaxChanges + 1]
        /\ faults \in 0 .. MaxFaults /\ stops \in 0 .. MaxStops
    BY DEF RefreshAssumption
  <1>4. main \in MainPhase /\ loop \in LoopPhase
    BY DEF MainPhase, LoopPhase
  <1>5. /\ {cancelled, urgent, reconcileCh} \subseteq BOOLEAN
        /\ {debounceCh, immediateCh, debounceTimer, reconcileTimer} \subseteq BOOLEAN
    OBVIOUS
  <1>6. EventsBounded /\ seen = server /\ cache = server
    BY DEF EventsBounded
  <1> HIDE DEF Init
  <1> QED
    BY <1>1, <1>2, <1>3, <1>4, <1>5, <1>6 DEF TypeInv, TypeOK

LEMMA TypeInvShape == ASSUME RefreshAssumption, TypeInv PROVE Shape
  <1> USE DEF TypeInv, TypeOK
  <1>1. \A f \in [Read -> Version] : f \in [Read -> Int]
    BY VersionFacts
  <1>2. got \in [Proc -> [Read -> Int]] /\ state \in [Read -> Int]
    BY <1>1
  <1> QED
    BY <1>2 DEF Shape, EventsBounded, RefreshAssumption

\* A change of a row, its event, the handling of the event, and its loss.
LEMMA EventsStep ==
  ASSUME server \in [Table -> Int], seen \in [Table -> Int], events \in [Table -> Int],
         changes \in Int, EventsBounded, NEW t \in Table,
         \/ /\ changes' = changes + 1 /\ server' = [server EXCEPT ![t] = changes + 1]
            /\ seen' = seen /\ events' = events
         \/ /\ server' = server /\ changes' = changes /\ seen[t] # server[t]
            /\ seen' = [seen EXCEPT ![t] = server[t]] /\ events' = [events EXCEPT ![t] = @ + 1]
         \/ /\ server' = server /\ changes' = changes /\ seen' = seen
            /\ events' = [events EXCEPT ![t] = @ - 1]
         \/ /\ server' = server /\ changes' = changes /\ events' = events
            /\ seen' = [seen EXCEPT ![t] = server[t]]
  PROVE  EventsBounded'
  <1> SUFFICES ASSUME NEW u \in Table
               PROVE  /\ server'[u] <= changes' /\ seen'[u] <= changes'
                      /\ events'[u] <= changes' + 1
                      /\ seen'[u] # server'[u] => events'[u] <= changes'
    BY DEF EventsBounded
  <1>1. /\ server[u] <= changes /\ seen[u] <= changes /\ events[u] <= changes + 1
        /\ seen[u] # server[u] => events[u] <= changes
        /\ server[u] \in Int /\ seen[u] \in Int /\ events[u] \in Int
    BY DEF EventsBounded
  <1>2. CASE u = t
    BY <1>1, <1>2
  <1>3. CASE u # t
    BY <1>1, <1>3
  <1> QED
    BY <1>2, <1>3

LEMMA TypeInvStep ==
  ASSUME RefreshAssumption, TypeInv, [Next]_vars PROVE TypeInv'
  <1> USE Basics
  <1> USE DEF TypeInv, TypeOK, EventsBounded, RefreshAssumption
  <1>0. /\ NoVersion \in [Read -> Version]
        /\ \A i \in 0 .. MaxChanges : i \in Version
    BY VersionFacts
  <1>t. /\ server \in [Table -> Int] /\ seen \in [Table -> Int] /\ events \in [Table -> Int]
        /\ changes \in Int
    OBVIOUS
  <1>1. CASE MainStep
    <2> USE DEF MainPhase, Starting, Serving, Stopping
    <2>1. CASE Connect
      BY <2>1 DEF Connect, ovnVars, scanVars, signals, timers, data, counters
    <2>2. CASE ConnectFails
      BY <2>2 DEF ConnectFails, Fault, ovnVars, scanVars, signals, timers, data
    <2>3. CASE SetReady \/ RefreshAfterDrain
      <3>1. todo' \in [Proc -> SUBSET Read] /\ got' \in [Proc -> [Read -> Version]]
        BY <2>3, ScanTypes DEF SetReady, RefreshAfterDrain
      <3> QED
        BY <2>3, <3>1
           DEF SetReady, RefreshAfterDrain, ovnVars, monVars, signals, timers, data, counters
    <2>4. CASE DrainSignals
      BY <2>4 DEF DrainSignals, LoopPhase, ovnVars, monVars, scanVars, timers, data, counters
    <2>5. CASE StartupReconcile \/ EventReconcile \/ PeriodicReconcile
      BY <2>5 DEF StartupReconcile, EventReconcile, PeriodicReconcile, BeginReconcile,
                  ovnVars, monVars, scanVars, signals, timers, counters
    <2>6. CASE EndReconcile
      <3>1. applied' \in [Table -> Version]
        BY <1>0, <2>6 DEF EndReconcile
      <3> QED
        BY <1>0, <2>6, <3>1
           DEF EndReconcile, ovnVars, monVars, scanVars, signals, timers, counters
    <2>7. CASE FlushReconcileCh \/ BeginDrain
      BY <2>7 DEF FlushReconcileCh, BeginDrain, ovnVars, monVars, scanVars, signals, timers,
                  data, counters
    <2>8. CASE Cleanup
      BY <2>8 DEF Cleanup, ovnVars, monVars, scanVars, signals, timers, counters
    <2>9. CASE Close
      <3>1. todo' \in [Proc -> SUBSET Read] /\ got' \in [Proc -> [Read -> Version]]
        <4>1. todo' = [p \in Proc |-> {}] /\ got' = [p \in Proc |-> NoVersion]
          BY <2>9 DEF Close
        <4> QED
          BY <1>0, <4>1
      <3>2. /\ ({cancelled, urgent, reconcileCh} \subseteq BOOLEAN)'
            /\ ({debounceCh, immediateCh, debounceTimer, reconcileTimer} \subseteq BOOLEAN)'
        BY <2>9 DEF Close
      <3>3. state' \in [Read -> Version] /\ snap' \in [Read -> Version]
        BY <1>0, <2>9 DEF Close
      <3>4. /\ UNCHANGED <<server, changes, seen, cache, loop, applied, faults, stops>>
            /\ main' = "down" /\ events' = [t \in Table |-> 0]
        BY <2>9 DEF Close, ovnVars, counters
      <3>5. events' \in [Table -> 0 .. MaxChanges + 1] /\ EventsBounded'
        BY <3>4
      <3> QED
        BY <3>1, <3>2, <3>3, <3>4, <3>5
    <2> QED
      BY <1>1, <2>1, <2>2, <2>3, <2>4, <2>5, <2>6, <2>7, <2>8, <2>9 DEF MainStep
  <1>2. CASE LoopStep
    <2> USE DEF LoopPhase
    <2>1. CASE LoopExit \/ ReceiveDebounce \/ Notify \/ ReconcileFire
      BY <2>1 DEF LoopExit, ReceiveDebounce, Notify, ReconcileFire, ovnVars, monVars, scanVars,
                  signals, timers, data, counters
    <2>2. CASE DebounceFire \/ ReceiveImmediate
      <3>1. todo' \in [Proc -> SUBSET Read] /\ got' \in [Proc -> [Read -> Version]]
        BY <2>2, ScanTypes DEF DebounceFire, ReceiveImmediate
      <3> QED
        BY <2>2, <3>1 DEF DebounceFire, ReceiveImmediate, ovnVars, monVars, signals, data, counters
    <2> QED
      BY <1>2, <2>1, <2>2 DEF LoopStep
  <1>3. CASE Stop
    BY <1>3 DEF Stop, ovnVars, monVars, scanVars, signals, timers, data
  <1>4. ASSUME NEW p \in Proc, ScanEnds(p) PROVE TypeInv'
    <2>1. /\ state' = got[p] \/ state' = state
          /\ faults' = faults \/ (faults < MaxFaults /\ faults' = faults + 1)
          /\ stops' = stops
      BY <1>4 DEF ScanEnds, Fault, counters
    <2>2. todo' \in [Proc -> SUBSET Read] /\ got' \in [Proc -> [Read -> Version]]
      BY <1>0, <1>4 DEF ScanEnds
    <2>3. main' \in MainPhase /\ loop' \in LoopPhase
      BY <1>4 DEF ScanEnds, MainPhase, LoopPhase, Starting, Stopping
    <2>4. /\ state' \in [Read -> Version]
          /\ faults' \in 0 .. MaxFaults /\ stops' \in 0 .. MaxStops
      <3>1. got[p] \in [Read -> Version]
        OBVIOUS
      <3>2. state' \in [Read -> Version]
        BY <2>1, <3>1
      <3>3. faults' \in 0 .. MaxFaults
        <4>1. faults \in 0 .. MaxFaults /\ MaxFaults \in Nat
          OBVIOUS
        <4> HIDE DEF TypeInv, TypeOK, EventsBounded, RefreshAssumption
        <4> QED
          BY <2>1, <4>1
      <3> QED
        BY <2>1, <3>2, <3>3
    <2>5. UNCHANGED <<server, changes, seen, cache, events, cancelled, urgent, debounceCh,
                      immediateCh, reconcileCh, debounceTimer, reconcileTimer, snap, applied>>
      BY <1>4 DEF ScanEnds, ovnVars, monVars, signals, timers, data
    <2> QED
      BY <2>2, <2>3, <2>4, <2>5
  <1>5. ASSUME NEW p \in Proc, NEW t \in Read, ReadTable(p, t) PROVE TypeInv'
    <2>1. server[t] \in Version /\ cache[t] \in Version
      BY <1>0
    <2>2. PICK v \in Version : got' = [got EXCEPT ![p][t] = v]
      BY <1>5, <2>1 DEF ReadTable, cachedList
    <2>3. [got[p] EXCEPT ![t] = v] \in [Read -> Version]
      OBVIOUS
    <2>4. got' \in [Proc -> [Read -> Version]] /\ todo' \in [Proc -> SUBSET Read]
      BY <1>5, <2>2, <2>3 DEF ReadTable
    <2>5. faults' \in 0 .. MaxFaults /\ stops' = stops
      BY <1>5 DEF ReadTable, cachedList, Fault, counters
    <2> QED
      BY <1>5, <2>4, <2>5 DEF ReadTable, ovnVars, monVars, signals, timers, data
  <1>6. ASSUME NEW t \in Table, Change(t) PROVE TypeInv'
    <2>1. /\ changes' = changes + 1 /\ changes' \in 0 .. MaxChanges
          /\ server' = [server EXCEPT ![t] = changes']
      BY <1>6 DEF Change
    <2>2. EventsBounded'
      <3>1. seen' = seen /\ events' = events
        BY <1>6 DEF Change, monVars
      <3> HIDE DEF EventsBounded, TypeOK
      <3> QED
        BY <1>t, <2>1, <3>1, EventsStep
    <2> QED
      BY <1>6, <2>1, <2>2 DEF Change, monVars, scanVars, signals, timers, data, counters
  <1>7. ASSUME NEW t \in Table, Deliver(t) PROVE TypeInv'
    <2>1. /\ seen' = [seen EXCEPT ![t] = server[t]] /\ events' = [events EXCEPT ![t] = @ + 1]
          /\ events[t] <= changes
      BY <1>7 DEF Deliver
    <2>2. EventsBounded'
      <3>1. server' = server /\ changes' = changes /\ seen[t] # server[t]
        BY <1>7 DEF Deliver, ovnVars
      <3> HIDE DEF EventsBounded, TypeOK
      <3> QED
        BY <1>t, <2>1, <3>1, EventsStep
    <2>3. events' \in [Table -> 0 .. MaxChanges + 1]
      BY <2>1
    <2> QED
      BY <1>7, <2>1, <2>2, <2>3 DEF Deliver, ovnVars, scanVars, signals, timers, data, counters
  <1>8. ASSUME NEW t \in Table, Miss(t) \/ HandleEvent(t) PROVE TypeInv'
    <2>1. CASE Miss(t)
      <3>1. faults' \in 0 .. MaxFaults /\ stops' = stops
        BY <2>1 DEF Miss, Fault
      <3>2. EventsBounded'
        <4>1. /\ server' = server /\ changes' = changes /\ events' = events
              /\ seen' = [seen EXCEPT ![t] = server[t]]
          BY <2>1 DEF Miss, ovnVars
        <4> HIDE DEF EventsBounded, TypeOK
        <4> QED
          BY <1>t, <4>1, EventsStep
      <3> QED
        BY <2>1, <3>1, <3>2 DEF Miss, ovnVars, scanVars, signals, timers, data
    <2>2. CASE HandleEvent(t)
      <3>1. events' = [events EXCEPT ![t] = @ - 1] /\ events[t] - 1 \in 0 .. MaxChanges + 1
        BY <2>2 DEF HandleEvent
      <3>2. EventsBounded'
        <4>1. server' = server /\ changes' = changes /\ seen' = seen
          BY <2>2 DEF HandleEvent, ovnVars
        <4> HIDE DEF EventsBounded, TypeOK
        <4> QED
          BY <1>t, <3>1, <4>1, EventsStep
      <3> QED
        BY <2>2, <3>1, <3>2 DEF HandleEvent, ovnVars, scanVars, timers, data, counters
    <2> QED
      BY <1>8, <2>1, <2>2
  <1>9. CASE UNCHANGED vars
    BY <1>9 DEF vars, ovnVars, monVars, scanVars, signals, timers, data, counters
  <1> QED
    BY <1>1, <1>2, <1>3, <1>4, <1>5, <1>6, <1>7, <1>8, <1>9 DEF Next, ScanStep

(***************************************************************************)
(* Every reachable state of the event path is well typed; in particular    *)
(* events do not pile up: each change is one event (sbEventHandler,        *)
(* nbEventHandler).                                                        *)
(***************************************************************************)
THEOREM TypeCorrect ==
  Spec => []TypeOK
  <1>1. Init => TypeInv
    BY TypeInvInit
  <1>2. TypeInv /\ [Next]_vars => TypeInv'
    BY TypeInvStep, RefreshAssumption
  <1>3. TypeInv => TypeOK
    BY DEF TypeInv
  <1> QED
    BY <1>1, <1>2, <1>3, PTL DEF Spec

-----------------------------------------------------------------------------
(* Wake-ups *)

\* From Connect to the end of the start-up nothing changes, so that what the
\* initial reconcile works on is all there is.
StartsStable ==
  main \in Starting \cup {"startup", "reconcile1", "flush"} /\ ~cancelled =>
    /\ seen = server /\ cache = server
    /\ \A t \in Read :
         /\ main = "connect" /\ t \notin todo["main"] => got["main"][t] = server[t]
         /\ main \notin {"monitor", "connect"} => state[t] = server[t]
         /\ loop = "scan" /\ t \notin todo["loop"] => got["loop"][t] = server[t]
         /\ main = "reconcile1" => snap[t] = server[t]
         /\ main = "flush" => applied[t] = server[t]

WakeupInv ==
  /\ main \in {"down"} \cup Starting => loop = "off"
  /\ StartsStable
  /\ WakeupPending

QuietTillServing == ChangePhases \cap (Starting \cup {"startup", "reconcile1", "flush"}) = {}

LEMMA WakeupMain ==
  ASSUME RefreshAssumption, Shape, WakeupInv, MainStep PROVE WakeupInv'
  <1> USE Basics
  <1> USE DEF WakeupInv, Starting
  <1>1. CASE Connect \/ ConnectFails
    BY <1>1 DEF Connect, ConnectFails, StartsStable, WakeupPending, ovnVars
  <1>2. CASE SetReady
    <2>1. \A t \in Read : t \in todo'["main"]
      BY <1>2 DEF SetReady, BeginScan, Shape
    <2> QED
      BY <1>2, <2>1 DEF SetReady, StartsStable, WakeupPending, ovnVars, monVars
  <1>3. CASE DrainSignals
    BY <1>3 DEF DrainSignals, StartsStable, WakeupPending, ovnVars, monVars
  <1>4. CASE StartupReconcile
    BY <1>4 DEF StartupReconcile, BeginReconcile, StartsStable, WakeupPending, ovnVars, monVars,
                scanVars
  <1>5. CASE EventReconcile \/ PeriodicReconcile
    BY <1>5 DEF EventReconcile, PeriodicReconcile, BeginReconcile, StartsStable, WakeupPending,
                WorkedOn
  <1>6. CASE EndReconcile
    <2>1. \A t \in Read : applied'[t] = snap[t]
      BY <1>6 DEF EndReconcile
    <2> QED
      BY <1>6, <2>1 DEF EndReconcile, StartsStable, WakeupPending, WorkedOn, ovnVars, monVars,
                        scanVars, timers
  <1>7. CASE FlushReconcileCh
    BY <1>7 DEF FlushReconcileCh, StartsStable, WakeupPending, WorkedOn, data
  <1>8. CASE BeginDrain \/ RefreshAfterDrain \/ Cleanup \/ Close
    BY <1>8 DEF BeginDrain, RefreshAfterDrain, Cleanup, Close, StartsStable, WakeupPending
  <1> QED
    BY <1>1, <1>2, <1>3, <1>4, <1>5, <1>6, <1>7, <1>8 DEF MainStep

LEMMA WakeupLoop ==
  ASSUME Shape, WakeupInv, LoopStep PROVE WakeupInv'
  <1> USE Basics
  <1> USE DEF WakeupInv, Starting
  <1>1. CASE LoopExit \/ ReceiveDebounce
    BY <1>1 DEF LoopExit, ReceiveDebounce, StartsStable, WakeupPending, WorkedOn, ovnVars,
                monVars, scanVars, data
  <1>2. CASE DebounceFire \/ ReceiveImmediate
    <2>1. /\ \A t \in Read : t \in todo'["loop"]
          /\ todo'["main"] = todo["main"] /\ got'["main"] = got["main"]
          /\ loop = "select" /\ loop' = "scan"
          /\ UNCHANGED <<server, seen, cache, main, cancelled, state, snap, applied,
                         reconcileCh, reconcileTimer>>
      BY <1>2 DEF DebounceFire, ReceiveImmediate, BeginScan, Shape, ovnVars, monVars, data
    <2> QED
      BY <2>1 DEF StartsStable, WakeupPending, WorkedOn
  <1>3. CASE Notify \/ ReconcileFire
    BY <1>3 DEF Notify, ReconcileFire, StartsStable, WakeupPending, WorkedOn, ovnVars, monVars,
                scanVars, data
  <1> QED
    BY <1>1, <1>2, <1>3 DEF LoopStep

LEMMA WakeupScan ==
  ASSUME "list" \notin Faults, Shape, WakeupInv, NEW p \in Proc, ScanStep(p)
  PROVE  WakeupInv'
  <1> USE Basics
  <1> USE DEF WakeupInv, Starting
  <1>1. CASE ScanEnds(p) /\ p = "loop"
    <2>1. /\ loop = "scan" /\ loop' = "notify"
          /\ UNCHANGED <<server, seen, cache, main, cancelled, snap, applied>>
          /\ todo'["main"] = todo["main"] /\ got'["main"] = got["main"]
      BY <1>1 DEF ScanEnds, Scanning, Shape, ovnVars, monVars, data
    <2>2. ASSUME ~cancelled, NEW t \in Read
          PROVE  t \notin todo["loop"] /\ state'[t] = got["loop"][t]
      BY <1>1, <2>2 DEF ScanEnds, Fault, Cut
    <2>3. StartsStable'
      BY <2>1, <2>2 DEF StartsStable
    <2> QED
      BY <2>1, <2>3 DEF WakeupPending
  <1>2. CASE ScanEnds(p) /\ p = "main"
    <2>1. /\ main \in {"connect", "rescan"}
          /\ main' = IF main = "connect" THEN "signals" ELSE "cleanup"
          /\ UNCHANGED <<server, seen, cache, loop, cancelled>>
      BY <1>2 DEF ScanEnds, Scanning, ovnVars, monVars
    <2>2. ASSUME ~cancelled, main = "connect", NEW t \in Read
          PROVE  state'[t] = server[t]
      BY <1>2, <2>2 DEF ScanEnds, Fault, Cut, StartsStable
    <2> QED
      BY <2>1, <2>2 DEF StartsStable, WakeupPending
  <1>3. ASSUME NEW t \in Read, ReadTable(p, t) PROVE WakeupInv'
    <2> DEFINE q == IF p = "loop" THEN "main" ELSE "loop"
    <2>1. /\ UNCHANGED <<server, seen, cache, main, loop, cancelled, state, snap, applied,
                         reconcileCh, reconcileTimer>>
          /\ todo'[p] = todo[p] \ {t} /\ todo'[q] = todo[q]
      BY <1>3 DEF ReadTable, Shape, ovnVars, monVars, timers, data
    <2>2. PICK v \in {server[t], cache[t]} : got' = [got EXCEPT ![p][t] = v]
      BY <1>3 DEF ReadTable, cachedList
    <2>3. \A u \in Read : got'[q][u] = got[q][u] /\ (u # t => got'[p][u] = got[p][u])
      BY <2>2 DEF Shape
    <2>4. got'[p][t] = v
      BY <2>2 DEF Shape
    <2>5. v = server[t] \/ v = cache[t]
      OBVIOUS
    <2> HIDE DEF q
    <2>6. StartsStable'
      BY <2>1, <2>3, <2>4, <2>5 DEF StartsStable, q
    <2> QED
      BY <2>1, <2>6 DEF WakeupPending, WorkedOn
  <1> QED
    BY <1>1, <1>2, <1>3 DEF ScanStep

LEMMA WakeupEnv ==
  ASSUME QuietTillServing, Shape, WakeupInv, NEW t \in Table,
         Change(t) \/ Deliver(t) \/ Miss(t) \/ HandleEvent(t)
  PROVE  WakeupInv'
  <1> USE DEF WakeupInv
  <1>1. /\ UNCHANGED <<main, loop, cancelled, scanVars, state, data, reconcileCh, reconcileTimer>>
        /\ UNCHANGED <<server, seen, cache>>
             \/ main \notin Starting \cup {"startup", "reconcile1", "flush"} \/ cancelled
    BY DEF Change, Deliver, Miss, HandleEvent, QuietTillServing, StartsStable, monVars, timers,
           ovnVars
  <1>2. StartsStable'
    BY <1>1 DEF StartsStable, scanVars, data
  <1>3. WakeupPending'
    BY <1>1 DEF WakeupPending, WorkedOn, data
  <1> QED
    BY <1>1, <1>2, <1>3

LEMMA WakeupInit == Init => WakeupInv
  BY DEF Init, WakeupInv, StartsStable, WakeupPending, Starting

LEMMA WakeupStep ==
  ASSUME "list" \notin Faults, QuietTillServing, RefreshAssumption, TypeInv, WakeupInv,
         [Next]_vars
  PROVE  TypeInv' /\ WakeupInv'
  <1>1. TypeInv'
    BY TypeInvStep, RefreshAssumption
  <1>2. Shape
    BY TypeInvShape, RefreshAssumption
  <1>3. CASE MainStep
    BY <1>1, <1>2, <1>3, WakeupMain, RefreshAssumption
  <1>4. CASE LoopStep
    BY <1>1, <1>2, <1>4, WakeupLoop
  <1>5. CASE Stop
    BY <1>1, <1>5 DEF Stop, WakeupInv, StartsStable, WakeupPending
  <1>6. ASSUME NEW p \in Proc, ScanStep(p) PROVE WakeupInv'
    BY <1>2, <1>6, WakeupScan
  <1>7. ASSUME NEW t \in Table, Change(t) \/ Deliver(t) \/ Miss(t) \/ HandleEvent(t)
        PROVE  WakeupInv'
    BY <1>2, <1>7, WakeupEnv
  <1>8. CASE UNCHANGED vars
    BY <1>1, <1>8 DEF vars, WakeupInv, StartsStable, WakeupPending, WorkedOn, ovnVars, monVars,
                      scanVars, data, timers
  <1> QED
    BY <1>1, <1>3, <1>4, <1>5, <1>6, <1>7, <1>8 DEF Next

(***************************************************************************)
(* In the main loop no wake-up is lost, for any tables and any number of   *)
(* changes, losses of monitors, failed selects and connections, and        *)
(* shutdowns, as long as List works and OVN is quiet until the main loop   *)
(* begins (refreshLoop, triggerReconcile, the select of Run).              *)
(***************************************************************************)
THEOREM NoWakeupLost ==
  ASSUME "list" \notin Faults, QuietTillServing
  PROVE  Spec => []WakeupPending
  <1>1. Init => TypeInv /\ WakeupInv
    BY TypeInvInit, WakeupInit
  <1>2. TypeInv /\ WakeupInv /\ [Next]_vars => TypeInv' /\ WakeupInv'
    BY WakeupStep, RefreshAssumption
  <1>3. WakeupInv => WakeupPending
    BY DEF WakeupInv
  <1> QED
    BY <1>1, <1>2, <1>3, PTL DEF Spec

-----------------------------------------------------------------------------
(* Quiet *)

\* As long as what was applied of a table that only the reconcile reads is not
\* current, a reconcile is on its way.
DirectCovered ==
  ~cancelled => \A t \in Direct :
    /\ main = "flush" => applied[t] = server[t]
    /\ main = "select" /\ applied[t] # server[t] =>
         OnItsWay(t) \/ loop \in {"scan", "notify"} \/ reconcileTimer \/ reconcileCh

LEMMA DirectStep ==
  ASSUME "miss" \notin Faults, QuietTillServing, RefreshAssumption, Shape, Covered, WakeupInv,
         DirectCovered, [Next]_vars
  PROVE  DirectCovered'
  <1> USE Basics
  <1>0. Direct \subseteq Table /\ (\A t \in Direct : t \notin Read /\ t \notin Urgent)
    BY DEF Table, RefreshAssumption
  <1>1. CASE MainStep
    <2>1. CASE EndReconcile
      <3>1. /\ UNCHANGED <<server, seen, events, cancelled>>
            /\ main' = IF main = "reconcile1" THEN "flush" ELSE "select"
            /\ main \in {"reconcile1", "reconcile"}
            /\ \A t \in Direct : applied'[t] = seen[t]
        BY <1>0, <2>1 DEF EndReconcile, Covered, ovnVars, monVars
      <3> QED
        BY <1>0, <3>1 DEF DirectCovered, OnItsWay, WakeupInv, StartsStable
    <2>2. CASE FlushReconcileCh
      BY <2>2 DEF FlushReconcileCh, DirectCovered, ovnVars, data
    <2>3. CASE ~EndReconcile /\ ~FlushReconcileCh
      BY <1>1, <2>3 DEF MainStep, Connect, ConnectFails, SetReady, DrainSignals,
         StartupReconcile, EventReconcile, PeriodicReconcile, BeginReconcile, BeginDrain,
         RefreshAfterDrain, Cleanup, Close, DirectCovered
    <2> QED
      BY <2>1, <2>2, <2>3
  <1>2. CASE LoopStep
    <2>1. UNCHANGED <<server, seen, events, main, cancelled, applied>>
      BY <1>2 DEF LoopStep, LoopExit, ReceiveDebounce, DebounceFire, ReceiveImmediate, Notify,
                  ReconcileFire, ovnVars, monVars, data
    <2>2. ~cancelled => ~LoopExit
      BY DEF LoopExit
    <2>3. CASE ReceiveDebounce
      BY <1>0, <2>1, <2>3 DEF ReceiveDebounce, DirectCovered, OnItsWay, SignalFor
    <2>4. CASE DebounceFire \/ ReceiveImmediate
      BY <2>1, <2>4 DEF DebounceFire, ReceiveImmediate, DirectCovered
    <2>5. CASE Notify \/ ReconcileFire
      BY <2>1, <2>5 DEF Notify, ReconcileFire, DirectCovered, OnItsWay, SignalFor, signals
    <2> QED
      BY <1>2, <2>1, <2>2, <2>3, <2>4, <2>5 DEF LoopStep, DirectCovered
  <1>3. CASE Stop
    BY <1>3 DEF Stop, DirectCovered
  <1>4. ASSUME NEW p \in Proc, ScanStep(p) PROVE DirectCovered'
    <2>1. /\ UNCHANGED <<server, seen, events, cancelled, signals, timers, reconcileCh, applied>>
          /\ loop' = loop \/ loop' = "notify"
          /\ main' = main \/ main' \in {"signals", "cleanup"}
      BY <1>4 DEF ScanStep, ScanEnds, ReadTable, ovnVars, monVars, data
    <2> QED
      BY <2>1 DEF DirectCovered, OnItsWay, SignalFor, signals, timers
  <1>5. ASSUME NEW u \in Table, Change(u) PROVE DirectCovered'
    <2>1. /\ UNCHANGED <<seen, events, main, loop, cancelled, signals, timers, reconcileCh, applied>>
          /\ server' = [server EXCEPT ![u] = changes + 1] /\ main \in ChangePhases
      BY <1>5 DEF Change, monVars, data
    <2>2. main # "flush"
      BY <2>1 DEF QuietTillServing
    <2>3. seen[u] # server'[u] /\ \A t \in Table : t # u => server'[t] = server[t]
      BY <2>1 DEF Shape
    <2> QED
      BY <1>0, <2>1, <2>2, <2>3 DEF DirectCovered, OnItsWay, SignalFor, signals, timers
  <1>6. ASSUME NEW u \in Table, Deliver(u) PROVE DirectCovered'
    <2>1. UNCHANGED <<server, main, loop, cancelled, signals, timers, reconcileCh, applied>>
      BY <1>6 DEF Deliver, ovnVars, data
    <2>2. /\ events'[u] > 0
          /\ \A t \in Table : t # u => seen'[t] = seen[t] /\ events'[t] = events[t]
      BY <1>6 DEF Deliver, Shape
    <2> QED
      BY <1>0, <2>1, <2>2 DEF DirectCovered, OnItsWay, SignalFor, signals, timers
  <1>7. ASSUME NEW u \in Table, Miss(u) PROVE DirectCovered'
    BY <1>7 DEF Miss, Fault
  <1>8. ASSUME NEW u \in Table, HandleEvent(u) PROVE DirectCovered'
    <2>1. UNCHANGED <<server, seen, main, loop, cancelled, timers, reconcileCh, applied>>
      BY <1>8 DEF HandleEvent, ovnVars, data
    <2>2. /\ \A t \in Table : t # u => events'[t] = events[t]
          /\ immediateCh => immediateCh'
          /\ debounceCh => debounceCh'
      BY <1>8 DEF HandleEvent, Shape
    <2>3. main = "select" => immediateCh' \/ (u \notin Urgent /\ debounceCh')
      BY <1>8 DEF HandleEvent, Ready
    <2> QED
      BY <1>0, <2>1, <2>2, <2>3 DEF DirectCovered, OnItsWay, SignalFor, timers
  <1>9. CASE UNCHANGED vars
    BY <1>9 DEF vars, DirectCovered, OnItsWay, SignalFor, ovnVars, monVars, signals, timers, data
  <1> QED
    BY <1>1, <1>2, <1>3, <1>4, <1>5, <1>6, <1>7, <1>8, <1>9 DEF Next

(***************************************************************************)
(* When the event path is quiet, the last reconcile was based on what the  *)
(* databases hold: the safety half of Converges, for any tables, changes,  *)
(* failed selects and connections, and shutdowns, as long as monitors and  *)
(* List work and OVN is quiet until the main loop begins (both event       *)
(* handlers, refreshLoop, Run).                                            *)
(***************************************************************************)
THEOREM QuietAgentIsCurrent ==
  ASSUME "miss" \notin Faults, "list" \notin Faults, QuietTillServing
  PROVE  Spec => []QuietIsCurrent
  <1> DEFINE QInv == TypeInv /\ CInv /\ WakeupInv /\ DirectCovered
  <1>0. QuietStart
    BY DEF QuietStart, QuietTillServing
  <1>1. Init => QInv
    <2>1. Init => DirectCovered
      BY DEF Init, DirectCovered
    <2> QED
      BY <2>1, TypeInvInit, ShapeInit, WakeupInit
  <1>2. QInv /\ [Next]_vars => QInv'
    <2> SUFFICES ASSUME QInv, [Next]_vars PROVE QInv'
      OBVIOUS
    <2>1. TypeInv' /\ WakeupInv'
      BY WakeupStep, RefreshAssumption
    <2>2. CInv'
      BY <1>0, CoveredStep
    <2>3. DirectCovered'
      BY DirectStep, RefreshAssumption DEF CInv, Covered
    <2> QED
      BY <2>1, <2>2, <2>3
  <1>3. QInv => QuietIsCurrent
    <2> SUFFICES ASSUME QInv, Quiet PROVE applied = server
      BY DEF QuietIsCurrent
    <2>0. ~debounceCh /\ ~immediateCh /\ ~reconcileCh /\ ~debounceTimer /\ ~reconcileTimer
      BY DEF Quiet, TypeInv, TypeOK
    <2>1. \A t \in Table : ~OnItsWay(t)
      BY <2>0 DEF Quiet, OnItsWay, SignalFor
    <2>2. \A t \in Read : applied[t] = server[t]
      BY <2>0, <2>1, Basics DEF Quiet, CInv, WakeupInv, ChangeCovered, WakeupPending, InScan, WorkedOn,
                          Serving
    <2>3. \A t \in Direct : applied[t] = server[t]
      BY <2>0, <2>1 DEF Quiet, DirectCovered, Table
    <2>4. applied \in [Table -> Version] /\ server \in [Table -> 0 .. MaxChanges]
      BY DEF TypeInv, TypeOK
    <2> QED
      BY <2>2, <2>3, <2>4 DEF Table
  <1> QED
    BY <1>1, <1>2, <1>3, PTL DEF Spec

-----------------------------------------------------------------------------
(* Copies *)

\* The monitor caches never get ahead of the server.
CacheBehind == \A t \in Table : cache[t] <= server[t] /\ seen[t] <= server[t]

CopiesBehind ==
  /\ \A t \in Read : /\ state[t] <= server[t] /\ snap[t] <= server[t]
                     /\ \A p \in Proc : got[p][t] <= server[t]
  /\ \A t \in Table : applied[t] <= server[t]

\* Until the context is cancelled the loop runs only while the main goroutine
\* serves, and nothing is stopped.
LoopServes == ~cancelled => main \notin Stopping /\ (loop # "off" => main \in Serving)

\* What a refresh has listed is not older than what it will replace.
ScanAhead ==
  ~cancelled => \A t \in Read :
    /\ main \in {"down", "monitor", "connect"} => state[t] = Unknown
    /\ main = "connect" /\ t \notin todo["main"] => applied[t] <= got["main"][t]
    /\ loop = "scan" /\ t \notin todo["loop"] => state[t] <= got["loop"][t]

\* OVNState, the copy a reconcile works on and what was applied, in this order.
StateAhead ==
  /\ ~cancelled => \A t \in Read :
       /\ main \in {"signals"} \cup Serving => applied[t] <= state[t]
       /\ main \in {"reconcile1", "reconcile"} => applied[t] <= snap[t] /\ snap[t] <= state[t]
  /\ \A t \in Direct : applied[t] <= cache[t]

FollowInv == CacheBehind /\ CopiesBehind /\ LoopServes /\ ScanAhead /\ StateAhead

\* What the types say of the values compared.
Versions ==
  /\ server \in [Table -> Nat] /\ seen \in [Table -> Nat] /\ cache \in [Table -> Nat]
  /\ todo \in [Proc -> SUBSET Read] /\ got \in [Proc -> [Read -> Int]]
  /\ state \in [Read -> Int] /\ snap \in [Read -> Int] /\ applied \in [Table -> Int]
  /\ \A t \in Read : Unknown <= state[t] /\ \A p \in Proc : Unknown <= got[p][t]
  /\ \A t \in Table : Unknown <= applied[t]
  /\ changes \in Nat /\ \A t \in Table : server[t] <= changes
  /\ main \in MainPhase /\ loop \in LoopPhase /\ cancelled \in BOOLEAN

LEMMA TypeInvVersions == ASSUME RefreshAssumption, TypeInv PROVE Versions
  <1> USE DEF TypeInv, TypeOK
  <1>1. \A v \in Version : v \in Int /\ Unknown <= v
    BY DEF Version, Unknown, RefreshAssumption
  <1>2. /\ got \in [Proc -> [Read -> Int]] /\ state \in [Read -> Int] /\ snap \in [Read -> Int]
        /\ applied \in [Table -> Int]
    BY <1>1
  <1>3. \A t \in Read : Unknown <= state[t] /\ \A p \in Proc : Unknown <= got[p][t]
    BY <1>1
  <1>4. \A t \in Table : Unknown <= applied[t]
    BY <1>1
  <1>5. changes \in Nat /\ \A t \in Table : server[t] <= changes
    BY DEF EventsBounded, RefreshAssumption
  <1>6. server \in [Table -> Nat] /\ seen \in [Table -> Nat] /\ cache \in [Table -> Nat]
    BY DEF RefreshAssumption
  <1> QED
    BY <1>2, <1>3, <1>4, <1>5, <1>6 DEF Versions

LEMMA Tables ==
  /\ Read \subseteq Table /\ Direct \subseteq Table
  /\ \A t \in Table : t \in Read \/ t \in Direct
  /\ "main" \in Proc /\ "loop" \in Proc
  /\ Unknown \in Int /\ Unknown <= 0
  /\ \A t \in Read : NoVersion[t] = Unknown
  BY DEF Table, Proc, Unknown, NoVersion

\* A step in which databases and caches go forward.
Grows == /\ CacheBehind'
         /\ \A t \in Table : server[t] <= server'[t] /\ cache[t] <= cache'[t]

\* The databases and the caches go forward, and the caches stay behind.
LEMMA CacheGrows ==
  ASSUME Versions, CacheBehind, [Next]_vars
  PROVE  Grows
  <1> USE Tables
  <1> USE DEF Versions, CacheBehind, Grows
  <1>1. CASE MainStep
    <2>1. server' = server
      BY <1>1 DEF MainStep, Connect, ConnectFails, SetReady, DrainSignals, StartupReconcile,
                  EndReconcile, FlushReconcileCh, EventReconcile, PeriodicReconcile, BeginReconcile,
                  BeginDrain, RefreshAfterDrain, Cleanup, Close, ovnVars
    <2>2. (cache' = cache /\ seen' = seen) \/ (cache' = server /\ seen' = server)
      BY <1>1 DEF MainStep, Connect, ConnectFails, SetReady, DrainSignals, StartupReconcile,
                  EndReconcile, FlushReconcileCh, EventReconcile, PeriodicReconcile, BeginReconcile,
                  BeginDrain, RefreshAfterDrain, Cleanup, Close, monVars
    <2> QED
      BY <2>1, <2>2
  <1>2. CASE LoopStep \/ Stop \/ UNCHANGED vars \/ \E p \in Proc : ScanStep(p)
    <2>1. server' = server /\ cache' = cache /\ seen' = seen
      BY <1>2 DEF LoopStep, LoopExit, ReceiveDebounce, DebounceFire, ReceiveImmediate, Notify,
                  ReconcileFire, Stop, ScanStep, ScanEnds, ReadTable, vars, ovnVars, monVars
    <2> QED
      BY <2>1
  <1>3. ASSUME NEW t \in Table, Change(t) PROVE Grows
    <2>1. /\ server' = [server EXCEPT ![t] = changes + 1]
          /\ cache' = cache /\ seen' = seen
      BY <1>3 DEF Change, monVars
    <2> QED
      BY <2>1
  <1>4. ASSUME NEW t \in Table, Deliver(t) \/ Miss(t) \/ HandleEvent(t) PROVE Grows
    <2>1. /\ server' = server
          /\ seen' = seen \/ seen' = [seen EXCEPT ![t] = server[t]]
          /\ cache' = cache \/ cache' = [cache EXCEPT ![t] = server[t]]
      BY <1>4 DEF Deliver, Miss, HandleEvent, ovnVars
    <2> QED
      BY <2>1
  <1> QED
    <2> HIDE DEF Versions, CacheBehind, Grows
    <2> QED
      BY <1>1, <1>2, <1>3, <1>4 DEF Next

\* Steps that leave the copies alone.
LEMMA FollowFrame ==
  ASSUME Versions, Versions', FollowInv, Grows, LoopServes',
         UNCHANGED <<scanVars, state, snap, applied, cancelled>>,
         \/ main' = main
         \/ main = "down" /\ main' = "monitor"
         \/ main = "monitor" /\ main' = "down",
         loop' = "scan" => loop = "scan"
  PROVE  FollowInv'
  <1> USE Tables
  <1>1. CopiesBehind'
    BY DEF FollowInv, CopiesBehind, Grows, Versions, scanVars
  <1>2. ScanAhead'
    BY DEF FollowInv, ScanAhead, scanVars, Serving
  <1>3. StateAhead'
    <2>1. \A t \in Direct : applied'[t] <= cache'[t]
      BY DEF FollowInv, StateAhead, Grows, Versions
    <2> QED
      BY <2>1 DEF FollowInv, StateAhead, Serving
  <1> QED
    BY <1>1, <1>2, <1>3 DEF FollowInv, Grows

\* The main goroutine: Connect leaves no copy; each hand-over goes upwards.
LEMMA FollowMain ==
  ASSUME Versions, Versions', FollowInv, Grows, MainStep PROVE FollowInv'
  <1> USE Tables
  <1> USE DEF Starting, Serving, Stopping
  <1>c. CacheBehind'
    BY DEF Grows
  <1>1. CASE Connect \/ ConnectFails
    <2>1. /\ UNCHANGED <<loop, cancelled, scanVars, state, snap, applied>>
          /\ \/ main = "down" /\ main' = "monitor"
             \/ main = "monitor" /\ main' = "down"
      BY <1>1 DEF Connect, ConnectFails, data
    <2>2. LoopServes'
      BY <2>1 DEF FollowInv, LoopServes
    <2> QED
      BY <2>1, <2>2, FollowFrame
  <1>2. CASE SetReady \/ RefreshAfterDrain
    <2>1. /\ UNCHANGED <<server, cache, loop, cancelled, state, snap, applied>>
          /\ todo' = [todo EXCEPT !["main"] = Read] /\ got' = [got EXCEPT !["main"] = NoVersion]
          /\ \/ main = "monitor" /\ main' = "connect"
             \/ main = "drain" /\ main' = "rescan"
      BY <1>2 DEF SetReady, RefreshAfterDrain, BeginScan, ovnVars, monVars, data
    <2>2. /\ todo'["main"] = Read /\ todo'["loop"] = todo["loop"]
          /\ \A t \in Read : got'["main"][t] = Unknown /\ got'["loop"][t] = got["loop"][t]
      BY <2>1 DEF Versions, Proc
    <2>3. CopiesBehind'
      BY <2>1, <2>2 DEF FollowInv, CopiesBehind, Versions, Proc
    <2>4. LoopServes' /\ ScanAhead' /\ StateAhead'
      BY <2>1, <2>2 DEF FollowInv, LoopServes, ScanAhead, StateAhead
    <2> QED
      BY <1>c, <2>3, <2>4 DEF FollowInv
  <1>3. CASE DrainSignals
    <2>1. /\ UNCHANGED <<server, cache, cancelled, scanVars, state, snap, applied>>
          /\ main = "signals" /\ main' = "startup" /\ loop' = "select"
      BY <1>3 DEF DrainSignals, ovnVars, monVars, data
    <2>2. CopiesBehind' /\ LoopServes' /\ ScanAhead' /\ StateAhead'
      BY <2>1 DEF FollowInv, CopiesBehind, LoopServes, ScanAhead, StateAhead, scanVars
    <2> QED
      BY <1>c, <2>2 DEF FollowInv
  <1>4. CASE StartupReconcile \/ EventReconcile \/ PeriodicReconcile \/ Cleanup
    <2>1. /\ UNCHANGED <<server, cache, loop, cancelled, scanVars, state, applied>>
          /\ \/ main = "startup" /\ main' = "reconcile1" /\ snap' = state
             \/ main = "select" /\ main' = "reconcile" /\ snap' = state
             \/ main = "cleanup" /\ main' = "closing" /\ snap' \in {state, snap}
      BY <1>4 DEF StartupReconcile, EventReconcile, PeriodicReconcile, BeginReconcile, Cleanup,
                  ovnVars, monVars
    <2>2. CopiesBehind'
      BY <2>1 DEF FollowInv, CopiesBehind, scanVars
    <2>3. LoopServes' /\ ScanAhead'
      BY <2>1 DEF FollowInv, LoopServes, ScanAhead, scanVars
    <2>4. StateAhead'
      BY <2>1 DEF FollowInv, LoopServes, StateAhead, Versions
    <2> QED
      BY <1>c, <2>2, <2>3, <2>4 DEF FollowInv
  <1>5. CASE EndReconcile
    <2>1. /\ UNCHANGED <<server, cache, loop, cancelled, scanVars, state>>
          /\ \A t \in Read : snap'[t] = Unknown /\ applied'[t] = snap[t]
          /\ \A t \in Direct : applied'[t] = cache[t]
          /\ main \in {"reconcile1", "reconcile"} /\ main' \in {"flush", "select"}
      BY <1>5, RefreshAssumption DEF EndReconcile, RefreshAssumption, ovnVars, monVars
    <2>2. CopiesBehind'
      BY <1>c, <2>1 DEF FollowInv, CopiesBehind, CacheBehind, scanVars, Versions
    <2>3. LoopServes' /\ ScanAhead' /\ StateAhead'
      BY <2>1 DEF FollowInv, LoopServes, ScanAhead, StateAhead, scanVars, Versions
    <2> QED
      BY <1>c, <2>2, <2>3 DEF FollowInv
  <1>6. CASE FlushReconcileCh \/ BeginDrain
    <2>1. /\ UNCHANGED <<server, cache, loop, cancelled, scanVars, state, snap, applied>>
          /\ \/ main = "flush" /\ main' = "select"
             \/ main = "select" /\ main' \in {"drain", "cleanup"} /\ cancelled
      BY <1>6 DEF FlushReconcileCh, BeginDrain, ovnVars, monVars, data
    <2>2. CopiesBehind' /\ LoopServes' /\ ScanAhead' /\ StateAhead'
      BY <2>1 DEF FollowInv, CopiesBehind, LoopServes, ScanAhead, StateAhead, scanVars
    <2> QED
      BY <1>c, <2>2 DEF FollowInv
  <1>7. CASE Close
    <2>1. /\ UNCHANGED <<server, cache, loop, applied>> /\ loop = "off" /\ main' = "down"
          /\ \A t \in Read : state'[t] = Unknown /\ snap'[t] = Unknown
          /\ \A t \in Read, p \in Proc : got'[p][t] = Unknown
      BY <1>7 DEF Close, ovnVars
    <2>2. CopiesBehind'
      BY <2>1 DEF FollowInv, CopiesBehind, Versions
    <2>3. LoopServes' /\ ScanAhead'
      BY <2>1 DEF LoopServes, ScanAhead
    <2>4. StateAhead'
      BY <2>1 DEF FollowInv, StateAhead
    <2> QED
      BY <1>c, <2>2, <2>3, <2>4 DEF FollowInv
  <1> QED
    BY <1>1, <1>2, <1>3, <1>4, <1>5, <1>6, <1>7 DEF MainStep

\* The loop: a refresh begins with nothing listed.
LEMMA FollowLoop ==
  ASSUME Versions, Versions', FollowInv, Grows, LoopStep PROVE FollowInv'
  <1> USE Tables
  <1>1. CASE LoopExit \/ ReceiveDebounce \/ Notify \/ ReconcileFire
    <2>1. /\ UNCHANGED <<main, cancelled, scanVars, state, snap, applied>>
          /\ loop' = "off" \/ (loop # "off" /\ loop' = "select")
      BY <1>1 DEF LoopExit, ReceiveDebounce, Notify, ReconcileFire, data
    <2>2. LoopServes'
      BY <2>1 DEF FollowInv, LoopServes
    <2> QED
      BY <2>1, <2>2, FollowFrame
  <1>2. CASE DebounceFire \/ ReceiveImmediate
    <2>1. /\ UNCHANGED <<server, cache, main, cancelled, state, snap, applied>>
          /\ loop = "select" /\ loop' = "scan"
          /\ todo' = [todo EXCEPT !["loop"] = Read] /\ got' = [got EXCEPT !["loop"] = NoVersion]
      BY <1>2 DEF DebounceFire, ReceiveImmediate, BeginScan, ovnVars, monVars, data
    <2>2. /\ todo'["loop"] = Read /\ todo'["main"] = todo["main"]
          /\ \A t \in Read : got'["loop"][t] = Unknown /\ got'["main"][t] = got["main"][t]
      BY <2>1 DEF Versions, Proc
    <2>3. CopiesBehind'
      BY <2>1, <2>2 DEF FollowInv, CopiesBehind, Versions, Proc
    <2>4. LoopServes' /\ ScanAhead' /\ StateAhead'
      BY <2>1, <2>2 DEF FollowInv, LoopServes, ScanAhead, StateAhead
    <2> QED
      BY <2>3, <2>4 DEF FollowInv, Grows
  <1> QED
    BY <1>1, <1>2 DEF LoopStep

\* refreshState without failures: a table that is listed and the OVNState it ends in.
LEMMA FollowScan ==
  ASSUME "list" \notin Faults, "select" \notin Faults,
         Versions, Versions', FollowInv, Grows, NEW p \in Proc, ScanStep(p)
  PROVE  FollowInv'
  <1> USE Tables
  <1> USE DEF Starting, Serving, Stopping
  <1>1. CASE ScanEnds(p)
    <2>1. /\ UNCHANGED <<server, cache, cancelled, snap, applied>> /\ Scanning(p)
          /\ todo' = [todo EXCEPT ![p] = {}] /\ got' = [got EXCEPT ![p] = NoVersion]
          /\ \/ state' = got[p] /\ todo[p] = {}
             \/ state' = state /\ Cut(p)
          /\ IF p = "loop" THEN loop' = "notify" /\ main' = main
             ELSE loop' = loop /\ main' = IF main = "connect" THEN "signals" ELSE "cleanup"
      BY <1>1 DEF ScanEnds, Fault, ovnVars, monVars, data
    <2>2. CopiesBehind'
      <3>1. \A t \in Read : state'[t] <= server'[t]
        BY <2>1 DEF FollowInv, CopiesBehind
      <3>2. \A q \in Proc, t \in Read : got'[q][t] \in {Unknown, got[q][t]}
        BY <2>1 DEF Versions
      <3> QED
        BY <2>1, <3>1, <3>2 DEF FollowInv, CopiesBehind, Versions
    <2>3. CASE cancelled
      BY <2>1, <2>2, <2>3 DEF FollowInv, Grows, LoopServes, ScanAhead, StateAhead
    <2>4. CASE ~cancelled /\ p = "loop"
      <3>1. /\ todo'["main"] = todo["main"] /\ got'["main"] = got["main"]
            /\ loop = "scan" /\ loop' = "notify" /\ main' = main /\ main \in Serving
            /\ \A t \in Read : state[t] <= state'[t]
        BY <2>1, <2>4 DEF Versions, Scanning, Cut, FollowInv, LoopServes, ScanAhead
      <3>2. LoopServes' /\ ScanAhead' /\ StateAhead'
        BY <2>1, <2>4, <3>1 DEF FollowInv, LoopServes, ScanAhead, StateAhead, Versions
      <3> QED
        BY <2>2, <3>2 DEF FollowInv, Grows
    <2>5. CASE ~cancelled /\ p = "main"
      <3>1. /\ main = "connect" /\ main' = "signals" /\ loop' = loop
            /\ \A t \in Read : applied[t] <= state'[t]
        BY <2>1, <2>5 DEF Scanning, Cut, FollowInv, LoopServes, ScanAhead
      <3>2. LoopServes' /\ ScanAhead' /\ StateAhead'
        BY <2>1, <2>5, <3>1 DEF FollowInv, LoopServes, ScanAhead, StateAhead
      <3> QED
        BY <2>2, <3>2 DEF FollowInv, Grows
    <2> QED
      BY <2>3, <2>4, <2>5 DEF Proc, Versions
  <1>2. ASSUME NEW t \in Read, ReadTable(p, t) PROVE FollowInv'
    <2>1. /\ UNCHANGED <<server, cache, main, loop, cancelled, state, snap, applied>>
          /\ todo' = [todo EXCEPT ![p] = @ \ {t}] /\ Scanning(p)
      BY <1>2 DEF ReadTable, ovnVars, monVars, data
    <2>2. PICK v : /\ got' = [got EXCEPT ![p][t] = v]
                   /\ v = server[t] \/ v = cache[t]
                   /\ ~Cut(p) => v = server[t]
      BY <1>2 DEF ReadTable, cachedList, Fault
    <2>3. /\ got'[p][t] = v
          /\ \A q \in Proc, u \in Read : q # p \/ u # t => got'[q][u] = got[q][u]
          /\ \A q \in Proc, u \in Read : q # p \/ u # t => (u \in todo'[q] <=> u \in todo[q])
      BY <2>1, <2>2 DEF Versions
    <2>4. v <= server[t]
      BY <2>2 DEF FollowInv, CacheBehind, Versions
    <2>5. CopiesBehind'
      BY <2>1, <2>3, <2>4 DEF FollowInv, CopiesBehind
    <2>6. ~cancelled => applied[t] <= v /\ state[t] <= v
      BY <2>2 DEF Cut, FollowInv, CopiesBehind
    <2>7. ScanAhead'
      BY <2>1, <2>3, <2>6 DEF FollowInv, ScanAhead
    <2>8. LoopServes' /\ StateAhead'
      BY <2>1 DEF FollowInv, LoopServes, StateAhead
    <2> QED
      BY <2>5, <2>7, <2>8 DEF FollowInv, Grows
  <1> QED
    BY <1>1, <1>2 DEF ScanStep

LEMMA FollowStep ==
  ASSUME "list" \notin Faults, "select" \notin Faults,
         Versions, Versions', FollowInv, [Next]_vars
  PROVE  FollowInv'
  <1> USE Tables
  <1>1. Grows
    BY CacheGrows DEF FollowInv
  <1>2. CASE MainStep
    BY <1>1, <1>2, FollowMain
  <1>3. CASE LoopStep
    BY <1>1, <1>3, FollowLoop
  <1>4. CASE Stop
    <2>1. UNCHANGED <<main, loop, scanVars, state, snap, applied>> /\ cancelled'
      BY <1>4 DEF Stop, data
    <2>2. CopiesBehind'
      BY <1>1, <2>1 DEF FollowInv, CopiesBehind, Grows, Versions, scanVars
    <2>3. \A t \in Direct : applied'[t] <= cache'[t]
      BY <1>1, <2>1 DEF FollowInv, StateAhead, Grows, Versions
    <2> QED
      BY <1>1, <2>1, <2>2, <2>3 DEF FollowInv, Grows, LoopServes, ScanAhead, StateAhead
  <1>5. ASSUME NEW p \in Proc, ScanStep(p) PROVE FollowInv'
    BY <1>1, <1>5, FollowScan
  <1>6. CASE \/ UNCHANGED vars
             \/ \E t \in Table : Change(t) \/ Deliver(t) \/ Miss(t) \/ HandleEvent(t)
    <2>1. UNCHANGED <<main, loop, cancelled, scanVars, state, snap, applied>>
      BY <1>6 DEF Change, Deliver, Miss, HandleEvent, vars, data
    <2>2. LoopServes'
      BY <2>1 DEF FollowInv, LoopServes
    <2> QED
      BY <1>1, <2>1, <2>2, FollowFrame
  <1> QED
    BY <1>2, <1>3, <1>4, <1>5, <1>6 DEF Next

\* Which steps move the copies, and how far.
LEMMA CopiesMove ==
  ASSUME "list" \notin Faults, "select" \notin Faults,
         RefreshAssumption, Versions, Versions', FollowInv, FollowInv', [Next]_vars
  PROVE  /\ [Snapshot!Next]_(Snapshot!vars)
         /\ [Applied!Next]_(Applied!vars)
  <1> USE Tables
  <1>1. Grows
    BY CacheGrows DEF FollowInv
  <1>2. \/ state' = state
        \/ /\ server' = server
           /\ cancelled \/ \A t \in Read : state[t] <= state'[t]
    <2>1. CASE Close
      BY <2>1 DEF Close, FollowInv, LoopServes, Stopping, ovnVars
    <2>2. ASSUME NEW p \in Proc, ScanEnds(p)
          PROVE  server' = server /\ (cancelled \/ \A t \in Read : state[t] <= state'[t])
      <3>1. /\ server' = server /\ Scanning(p)
            /\ ~cancelled => state' = got[p] /\ todo[p] = {}
        BY <2>2 DEF ScanEnds, Fault, Cut, ovnVars
      <3>2. CASE p = "loop"
        BY <3>1, <3>2 DEF Scanning, FollowInv, ScanAhead
      <3>3. CASE p # "loop"
        BY <3>1, <3>3 DEF Scanning, FollowInv, ScanAhead, LoopServes, Stopping, Versions, Proc
      <3> QED
        BY <3>1, <3>2, <3>3
    <2>3. CASE ~Close /\ ~\E p \in Proc : ScanEnds(p)
      BY <2>3 DEF Next, MainStep, LoopStep, ScanStep, Connect, ConnectFails, SetReady,
         DrainSignals, StartupReconcile, EndReconcile, FlushReconcileCh, EventReconcile,
         PeriodicReconcile, BeginReconcile, BeginDrain, RefreshAfterDrain, Cleanup, LoopExit,
         ReceiveDebounce, DebounceFire, ReceiveImmediate, Notify, ReconcileFire, Stop, ReadTable,
         Change, Deliver, Miss, HandleEvent, vars
    <2> QED
      BY <2>1, <2>2, <2>3
  <1>3. \/ applied' = applied
        \/ /\ server' = server
           /\ cancelled \/ \A t \in Table : applied[t] <= applied'[t]
    <2>1. CASE EndReconcile
      <3>1. /\ server' = server /\ main \in {"reconcile1", "reconcile"}
            /\ \A t \in Read : applied'[t] = snap[t]
            /\ \A t \in Direct : applied'[t] = cache[t]
        BY <2>1 DEF EndReconcile, RefreshAssumption, ovnVars
      <3> QED
        BY <3>1 DEF FollowInv, StateAhead
    <2>2. CASE ~EndReconcile
      BY <2>2 DEF Next, MainStep, LoopStep, ScanStep, ScanEnds, Close, Connect, ConnectFails,
         SetReady, DrainSignals, StartupReconcile, FlushReconcileCh, EventReconcile,
         PeriodicReconcile, BeginReconcile, BeginDrain, RefreshAfterDrain, Cleanup, LoopExit,
         ReceiveDebounce, DebounceFire, ReceiveImmediate, Notify, ReconcileFire, Stop, ReadTable,
         Change, Deliver, Miss, HandleEvent, vars, data
    <2> QED
      BY <2>1, <2>2
  <1>4. [Snapshot!Next]_(Snapshot!vars)
    <2>1. CASE state' = state
      BY <1>1, <2>1 DEF Snapshot!Next, Snapshot!Publish, OfRead, Grows
    <2>2. CASE state' # state
      <3>1. Snapshot!NotAhead(state') /\ OfRead(server)' = OfRead(server)
        BY <1>2, <2>2 DEF Snapshot!NotAhead, OfRead, FollowInv, CopiesBehind
      <3> QED
        BY <1>2, <2>2, <3>1 DEF Snapshot!Next, Snapshot!Follow, Snapshot!FallBack
    <2> QED
      BY <2>1, <2>2
  <1>5. [Applied!Next]_(Applied!vars)
    <2>1. CASE applied' = applied
      BY <1>1, <2>1 DEF Applied!Next, Applied!Publish, Grows
    <2>2. CASE applied' # applied
      <3>1. Applied!NotAhead(applied')
        BY <1>3, <2>2 DEF Applied!NotAhead, FollowInv, CopiesBehind
      <3> QED
        BY <1>3, <2>2, <3>1 DEF Applied!Next, Applied!Follow, Applied!FallBack
    <2> QED
      BY <2>1, <2>2
  <1> QED
    BY <1>4, <1>5

(***************************************************************************)
(* No reconcile goes back, for any tables, changes, losses of monitors,    *)
(* failed connections and shutdowns, as long as List and the direct select *)
(* work: the event path implements Follower, twice (refreshState in both   *)
(* goroutines, authoritativeList, GetState, reconcile, Close).             *)
(***************************************************************************)
THEOREM NoReconcileGoesBack ==
  ASSUME "list" \notin Faults, "select" \notin Faults
  PROVE  Spec => FollowsServer
  <1>1. Init => TypeInv /\ FollowInv /\ Snapshot!Init /\ Applied!Init
    <2> SUFFICES ASSUME Init PROVE TypeInv /\ FollowInv /\ Snapshot!Init /\ Applied!Init
      OBVIOUS
    <2> USE Tables
    <2>1. TypeInv
      BY TypeInvInit
    <2>2. FollowInv
      BY DEF Init, FollowInv, CacheBehind, CopiesBehind, LoopServes, ScanAhead, StateAhead,
             Serving, Stopping
    <2>3. Snapshot!Init /\ Applied!Init
      BY <2>2 DEF FollowInv, CopiesBehind, Snapshot!Init, Snapshot!NotAhead, Applied!Init,
                  Applied!NotAhead, OfRead
    <2> QED
      BY <2>1, <2>2, <2>3
  <1>2. TypeInv /\ FollowInv /\ [Next]_vars
          => /\ TypeInv' /\ FollowInv'
             /\ [Snapshot!Next]_(Snapshot!vars) /\ [Applied!Next]_(Applied!vars)
    <2> SUFFICES ASSUME TypeInv, FollowInv, [Next]_vars
                 PROVE  /\ TypeInv' /\ FollowInv'
                        /\ [Snapshot!Next]_(Snapshot!vars) /\ [Applied!Next]_(Applied!vars)
      OBVIOUS
    <2>1. TypeInv'
      BY TypeInvStep, RefreshAssumption
    <2>2. Versions
      BY TypeInvVersions, RefreshAssumption
    <2>3. Versions'
      BY <2>1, TypeInvVersions, RefreshAssumption, PTL
    <2>4. FollowInv'
      BY <2>2, <2>3, FollowStep
    <2> QED
      BY <2>1, <2>2, <2>3, <2>4, CopiesMove, RefreshAssumption
  <1> QED
    BY <1>1, <1>2, PTL DEF Spec, FollowsServer, Snapshot!Spec, Applied!Spec
=============================================================================
