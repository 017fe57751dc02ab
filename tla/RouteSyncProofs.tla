-------------------------- MODULE RouteSyncProofs --------------------------
(***************************************************************************)
(* Proofs about RouteSync, for all routers, addresses, networks and        *)
(* filters: types, that no address is announced without its route, and     *)
(* that a cycle without trouble leaves exactly what it wants.              *)
(***************************************************************************)
EXTENDS RouteSync, TLAPS

\* What a cycle wants lies in IP.
LEMMA WantedType ==
  ASSUME NEW routers \in SUBSET Router
  PROVE  /\ Desired(routers) \subseteq IP
         /\ effectiveNetworkFilters(routers) \subseteq Net
  <1>1. \A r \in routers : NatIPs[r] \subseteq IP /\ GatewayIPs[r] \subseteq IP
    BY RouteAssumption
  <1>2. \A r \in routers : Nets[r] \subseteq Net
    BY RouteAssumption
  <1>3. UNION {NatIPs[r] : r \in routers} \subseteq IP
    BY <1>1
  <1>4. UNION {GatewayIPs[r] : r \in routers} \subseteq IP
    BY <1>1
  <1>5. VIP \subseteq IP
    BY RouteAssumption
  <1>6. UNION {Nets[r] : r \in routers} \subseteq Net
    BY <1>2
  <1>7. Desired(routers) \subseteq IP
    <2> DEFINE nats == UNION {NatIPs[r] : r \in routers}
               gws  == UNION {GatewayIPs[r] : r \in routers}
    <2>1. Desired(routers) = {ip \in nats : InFilters(ip, effectiveNetworkFilters(routers))}
                               \cup gws \cup VIP
      BY DEF Desired
    <2>2. nats \subseteq IP /\ gws \subseteq IP
      BY <1>3, <1>4
    <2> HIDE DEF nats, gws
    <2> QED
      BY <2>1, <2>2, <1>5
  <1>8. effectiveNetworkFilters(routers) \subseteq Net
    BY <1>6, RouteAssumption DEF effectiveNetworkFilters
  <1> QED
    BY <1>7, <1>8

(***************************************************************************)
(* Type correctness: through cycles, failures, drift, kills and shutdowns  *)
(* the tables hold addresses, and consecutiveReAdds never goes below 0     *)
(* (ensureRoutes, removeAllRoutes, verifyRoutes).                          *)
(***************************************************************************)
THEOREM TypeCorrect == Spec => []TypeOK
  <1>0. MaxFaults \in Nat /\ MaxMoves \in Nat /\ MaxDrifts \in Nat /\ MaxExits \in Nat
    BY RouteAssumption
  <1>1. Init => TypeOK
    BY <1>0 DEF Init, TypeOK, Phase, Job
  <1>2. TypeOK /\ [Next]_vars => TypeOK'
    <2> SUFFICES ASSUME TypeOK, [Next]_vars PROVE TypeOK'
      OBVIOUS
    <2> USE <1>0
    <2>1. Wanted \subseteq IP /\ StaleKernel \subseteq IP /\ StaleFRR \subseteq IP
          /\ AddFRR \subseteq IP
      BY DEF TypeOK, Wanted, StaleKernel, StaleFRR, AddFRR
    <2>2. CASE Start
      BY <2>2 DEF Start, TypeOK, Phase, tables, cycle, counters
    <2>3. CASE Reconcile
      <3>1. LocalRouters \in SUBSET Router
        BY DEF TypeOK, LocalRouters
      <3> QED
        BY <2>3, <3>1, WantedType DEF Reconcile, TypeOK, Phase, Job, tables, counters
    <2>4. CASE List
      <3>1. curKernel' \subseteq IP /\ curFRR' \subseteq IP
        BY <2>4 DEF List, TypeOK
      <3>2. queue' \subseteq IP
        BY <2>4, <2>1 DEF List
      <3>3. pc' \in Phase
        BY <2>4 DEF List, Phase
      <3>4. faults' \in 0 .. MaxFaults
            /\ UNCHANGED <<moves, drifts, exits>>
        BY <2>4 DEF List, NoFault, Fault, TypeOK, counters
      <3> QED
        BY <2>4, <3>1, <3>2, <3>3, <3>4 DEF List, TypeOK, tables
    <2>5. ASSUME NEW ip \in IP, AddKernelRoute(ip) \/ DelKernelRoute(ip) PROVE TypeOK'
      <3>1. faults' \in 0 .. MaxFaults
            /\ UNCHANGED <<moves, drifts, exits>>
        BY <2>5 DEF AddKernelRoute, DelKernelRoute, NoFault, Fault, TypeOK, counters
      <3>2. kernel' \subseteq IP /\ rules' \subseteq IP /\ queue' \subseteq IP
        BY <2>5 DEF AddKernelRoute, DelKernelRoute, TypeOK
      <3> QED
        BY <2>5, <3>1, <3>2 DEF AddKernelRoute, DelKernelRoute, TypeOK, cycle
    <2>6. CASE AddFRRRoutes \/ DelFRRRoutes
      <3>1. faults' \in 0 .. MaxFaults
            /\ UNCHANGED <<moves, drifts, exits>>
        BY <2>6 DEF AddFRRRoutes, DelFRRRoutes, NoFault, Fault, TypeOK, counters
      <3>2. frr' \subseteq IP /\ queue' \subseteq IP
        BY <2>6, <2>1 DEF AddFRRRoutes, DelFRRRoutes, TypeOK
      <3>3. reAdds' \in Nat
        BY <2>6 DEF AddFRRRoutes, DelFRRRoutes, Verified, TypeOK
      <3>4. pc' \in Phase /\ UNCHANGED job
        BY <2>6 DEF AddFRRRoutes, DelFRRRoutes, Phase
      <3> QED
        BY <2>6, <3>1, <3>2, <3>3, <3>4 DEF AddFRRRoutes, DelFRRRoutes, TypeOK, cycle
    <2>7. CASE EndRoutes
      BY <2>7 DEF EndRoutes, TypeOK, Phase, Job, tables, cycle, counters
    <2>8. CASE Flush
      <3>1. faults' \in 0 .. MaxFaults
            /\ UNCHANGED <<moves, drifts, exits>>
        BY <2>8 DEF Flush, NoFault, Fault, TypeOK, counters
      <3>2. kernel' \subseteq IP /\ rules' \subseteq IP
        BY <2>8 DEF Flush, TypeOK
      <3> QED
        BY <2>8, <3>1, <3>2 DEF Flush, Forget, TypeOK, Phase, Job
    <2>9. CASE Stop
      BY <2>9 DEF Stop, Forget, TypeOK, Phase, Job, tables
    <2>10. CASE Kill
      <3>1. kernel' \subseteq IP /\ rules' \subseteq IP
        BY <2>10 DEF Kill, TypeOK
      <3> QED
        BY <2>10, <3>1 DEF Kill, Forget, TypeOK, Phase, Job
    <2>11. ASSUME NEW routers \in SUBSET Router, Move(routers) PROVE TypeOK'
      BY <2>11 DEF Move, TypeOK, tables, cycle
    <2>12. ASSUME NEW ip \in IP, Drift(ip) PROVE TypeOK'
      BY <2>12 DEF Drift, TypeOK, cycle
    <2>13. CASE UNCHANGED vars
      BY <2>13 DEF vars, TypeOK, tables, cycle, counters
    <2> QED
      BY <2>2, <2>3, <2>4, <2>5, <2>6, <2>7, <2>8, <2>9, <2>10, <2>11, <2>12, <2>13
      DEF Next, Step
  <1> QED
    BY <1>1, <1>2, PTL DEF Spec

(***************************************************************************)
(* Why no announced address is without its route.  While routes are added, *)
(* what is about to be announced is in the kernel or still in the queue;   *)
(* when routes are about to be withdrawn, the list is complete; while they *)
(* are taken down, none of them is announced.                              *)
(***************************************************************************)
OrderInv ==
  manageKernel /\ Untouched =>
    /\ frr \subseteq kernel
    /\ pc = "addKernel" => AddFRR \subseteq kernel \cup queue
    /\ pc = "delFRR" /\ job # "ensure" => frr \subseteq curFRR
    /\ pc = "delKernel" => queue \cap frr = {}

\* Which job a phase belongs to.
JobInv ==
  /\ pc = "addKernel" => job \in {"ensure", "verify"}
  /\ pc = "flush" => job = "cleanup"
  /\ job = "cleanup" => CleanupOnShutdown

\* Who failed or interfered has left its mark: before an untouched state there
\* is an untouched one.
LEMMA UntouchedStep ==
  ASSUME TypeOK, [Next]_vars, Untouched'
  PROVE  /\ Untouched
         /\ \A kind \in FaultKinds : ~Fault(kind)
         /\ \A ip \in IP : ~Drift(ip)
  <1> USE DEF Untouched
  <1>1. faults \in Nat /\ drifts \in Nat
    BY RouteAssumption DEF TypeOK
  <1>2. \A kind \in FaultKinds : ~Fault(kind)
    BY <1>1 DEF Fault
  <1>3. \A ip \in IP : ~Drift(ip)
    BY <1>1 DEF Drift
  <1>4. UNCHANGED <<faults, drifts>>
    <2>1. CASE Start \/ Reconcile \/ EndRoutes
      BY <2>1 DEF Start, Reconcile, EndRoutes, counters
    <2>2. CASE List \/ Flush
      BY <2>2, <1>2 DEF List, Flush, NoFault, counters, FaultKinds
    <2>3. ASSUME NEW ip \in IP, AddKernelRoute(ip) \/ DelKernelRoute(ip)
          PROVE  UNCHANGED <<faults, drifts>>
      BY <2>3, <1>2 DEF AddKernelRoute, DelKernelRoute, NoFault, counters, FaultKinds
    <2>4. CASE AddFRRRoutes \/ DelFRRRoutes
      BY <2>4, <1>2 DEF AddFRRRoutes, DelFRRRoutes, NoFault, counters, FaultKinds
    <2>5. CASE Stop \/ Kill \/ \E routers \in SUBSET Router : Move(routers)
      BY <2>5 DEF Stop, Kill, Move
    <2>6. CASE UNCHANGED vars
      BY <2>6 DEF vars, counters
    <2> QED
      BY <2>1, <2>2, <2>3, <2>4, <2>5, <2>6, <1>3 DEF Next, Step
  <1> QED
    BY <1>2, <1>3, <1>4

\* Order is kept by every step.
LEMMA OrderStep ==
  ASSUME ~RouteTable \/ ~CleanupOnShutdown, TypeOK, OrderInv, JobInv, [Next]_vars
  PROVE  OrderInv'
  <1> SUFFICES ASSUME manageKernel, Untouched' PROVE OrderInv'
    BY DEF OrderInv, manageKernel
  <1>u. Untouched
    BY UntouchedStep
  <1>0. /\ frr \subseteq kernel
        /\ pc = "addKernel" => AddFRR \subseteq kernel \cup queue
        /\ pc = "delFRR" /\ job # "ensure" => frr \subseteq curFRR
        /\ pc = "delKernel" => queue \cap frr = {}
    BY <1>u DEF OrderInv
  <1>f. /\ ~Fault("list") /\ ~Fault("netlink") /\ ~Fault("rule") /\ ~Fault("vtysh")
        /\ \A ip \in IP : ~Drift(ip)
    BY UntouchedStep DEF FaultKinds
  <1> USE DEF OrderInv
  <1>1. CASE Start \/ Reconcile \/ EndRoutes
    BY <1>0, <1>1 DEF Start, Reconcile, EndRoutes, tables
  <1>2. CASE List
    <2>1. /\ UNCHANGED <<kernel, frr, job, desired, filters>>
          /\ curKernel' = kernel /\ curFRR' = frr
          /\ pc' = IF job \in {"ensure", "verify"} THEN "addKernel" ELSE "delFRR"
          /\ queue' = IF pc' = "addKernel" /\ manageKernel THEN Wanted \ curKernel' ELSE {}
      BY <1>2, <1>f DEF List, NoFault, tables
    <2>2. Wanted' = Wanted
      BY <2>1 DEF Wanted, isManaged
    <2> QED
      BY <1>0, <2>1, <2>2 DEF AddFRR
  <1>3. ASSUME NEW ip \in IP, AddKernelRoute(ip) PROVE OrderInv'
    <2>1. /\ pc = "addKernel" /\ kernel' = kernel \cup {ip} /\ queue' = queue \ {ip}
          /\ UNCHANGED <<frr, pc, job, desired, filters, curKernel, curFRR>>
      BY <1>3, <1>f DEF AddKernelRoute, cycle
    <2>2. AddFRR' = AddFRR
      BY <2>1 DEF AddFRR, Wanted, isManaged
    <2> QED
      BY <1>0, <2>1, <2>2
  <1>4. CASE AddFRRRoutes
    <2>1. /\ frr' = frr \cup AddFRR /\ queue = {} /\ pc = "addKernel"
          /\ pc' \in {"idle", "delFRR"} /\ UNCHANGED <<kernel, job>>
          /\ pc' = "delFRR" => job # "verify"
      BY <1>4, <1>f DEF AddFRRRoutes
    <2>2. pc' = "delFRR" => job = "ensure"
      BY <2>1 DEF JobInv
    <2> QED
      BY <1>0, <2>1, <2>2
  <1>5. CASE DelFRRRoutes
    <2>1. /\ frr' = frr \ StaleFRR /\ queue' = StaleKernel
          /\ pc = "delFRR" /\ pc' = "delKernel" /\ UNCHANGED <<kernel, job>>
      BY <1>5, <1>f DEF DelFRRRoutes
    <2>2. frr \cap StaleKernel \subseteq StaleFRR
      BY <1>0, <2>1 DEF StaleFRR, StaleKernel
    <2> QED
      BY <1>0, <2>1, <2>2
  <1>6. ASSUME NEW ip \in IP, DelKernelRoute(ip) PROVE OrderInv'
    BY <1>0, <1>6, <1>f DEF DelKernelRoute
  <1>7. CASE Flush
    <2>1. ~Flushes
      BY <1>7 DEF Flush, Flushes, JobInv
    <2> QED
      BY <1>0, <1>7, <2>1 DEF Flush, Forget
  <1>8. CASE Stop
    BY <1>0, <1>8 DEF Stop, Forget, tables
  <1>9. CASE Kill
    <2>1. pc = "flush" => ~Flushes
      BY DEF Flushes, JobInv
    <2> QED
      BY <1>0, <1>9, <2>1 DEF Kill, Forget
  <1>10. ASSUME NEW routers \in SUBSET Router, Move(routers) PROVE OrderInv'
    <2>1. UNCHANGED <<kernel, frr, pc, job, desired, filters, curKernel, curFRR, queue>>
      BY <1>10 DEF Move, tables, cycle
    <2>2. AddFRR' = AddFRR
      BY <2>1 DEF AddFRR, Wanted, isManaged
    <2> QED
      BY <1>0, <2>1, <2>2
  <1>11. ASSUME NEW ip \in IP, Drift(ip) PROVE OrderInv'
    BY <1>11, <1>f
  <1>12. CASE UNCHANGED vars
    <2>1. UNCHANGED <<kernel, frr, pc, job, desired, filters, curKernel, curFRR, queue>>
      BY <1>12 DEF vars, tables, cycle
    <2>2. AddFRR' = AddFRR
      BY <2>1 DEF AddFRR, Wanted, isManaged
    <2> QED
      BY <1>0, <2>1, <2>2
  <1> QED
    BY <1>1, <1>2, <1>3, <1>4, <1>5, <1>6, <1>7, <1>8, <1>9, <1>10, <1>11, <1>12
    DEF Next, Step

\* The jobs are kept by every step.
LEMMA JobStep == JobInv /\ [Next]_vars => JobInv'
  <1> SUFFICES ASSUME JobInv, [Next]_vars PROVE JobInv'
    OBVIOUS
  <1> USE DEF JobInv
  <1>1. CASE Start \/ Reconcile \/ EndRoutes
    BY <1>1 DEF Start, Reconcile, EndRoutes
  <1>2. CASE List
    BY <1>2 DEF List
  <1>3. ASSUME NEW ip \in IP, AddKernelRoute(ip) \/ DelKernelRoute(ip) \/ Drift(ip)
        PROVE  JobInv'
    BY <1>3 DEF AddKernelRoute, DelKernelRoute, Drift
  <1>4. CASE AddFRRRoutes \/ DelFRRRoutes
    BY <1>4 DEF AddFRRRoutes, DelFRRRoutes
  <1>5. CASE Flush \/ Kill
    BY <1>5 DEF Flush, Kill, Forget
  <1>6. CASE Stop
    BY <1>6 DEF Stop, Forget
  <1>7. ASSUME NEW routers \in SUBSET Router, Move(routers) PROVE JobInv'
    BY <1>7 DEF Move
  <1>8. CASE UNCHANGED vars
    BY <1>8 DEF vars
  <1> QED
    BY <1>1, <1>2, <1>3, <1>4, <1>5, <1>6, <1>7, <1>8 DEF Next, Step

(***************************************************************************)
(* No black hole, for all routers, addresses, networks and filters, and    *)
(* wherever the agent is killed: an announced address has its kernel       *)
(* route, until a call fails or somebody else removes a route, and unless  *)
(* the shutdown flushes a dedicated table (ensureRoutes, removeAllRoutes). *)
(***************************************************************************)
THEOREM AnnouncedHasRoute ==
  ASSUME ~RouteTable \/ ~CleanupOnShutdown
  PROVE  Spec => []NoBlackHole
  <1>1. Init => OrderInv /\ JobInv
    BY DEF Init, OrderInv, JobInv
  <1>2. TypeOK /\ OrderInv /\ JobInv /\ [Next]_vars => OrderInv' /\ JobInv'
    BY OrderStep, JobStep
  <1>3. OrderInv => NoBlackHole
    BY DEF OrderInv, NoBlackHole
  <1> QED
    BY <1>1, <1>2, <1>3, TypeCorrect, PTL DEF Spec

-----------------------------------------------------------------------------
(* What a smooth cycle leaves *)

\* Failures and drifts are only ever counted up, and a process that is not
\* running has begun no cycle.
SinceInv ==
  /\ since <= faults + drifts
  /\ pc = "down" => since = -1 /\ job = "ensure"
  /\ pc = "idle" => job # "cleanup"
  /\ job = "remove" => desired = {}

HasAll == desired \subseteq frr /\ (manageKernel => desired \subseteq kernel)

Exact ==
  /\ HasAll
  /\ \A ip \in IP \ desired :
       isManaged(ip) => ip \notin frr /\ (manageKernel => ip \notin kernel)

\* What a smooth cycle has done when it is in a phase.
Progress ==
  Smooth /\ job # "cleanup" =>
    /\ pc = "idle" => Exact
    /\ pc = "list" /\ job = "verify" => Exact
    /\ pc = "addKernel" /\ job = "verify" => Exact /\ queue \subseteq desired
    /\ pc = "addKernel" /\ job # "verify" =>
         /\ curFRR = frr /\ queue \subseteq desired
         /\ manageKernel => /\ kernel \subseteq curKernel \cup desired
                            /\ desired \subseteq kernel \cup queue
    /\ pc = "delFRR" =>
         /\ HasAll /\ frr \subseteq curFRR \cup desired
         /\ manageKernel => kernel \subseteq curKernel \cup desired
    /\ pc = "delKernel" =>
         /\ HasAll /\ queue \cap desired = {}
         /\ \A ip \in IP \ desired :
              isManaged(ip) => ip \notin frr /\ (manageKernel => ip \notin kernel \ queue)

LEMMA SmoothMeans ==
  ASSUME TypeOK, since <= faults + drifts, since' = since, Smooth'
  PROVE  /\ \A kind \in FaultKinds : ~Fault(kind)
         /\ \A ip \in IP : ~Drift(ip)
  <1>1. faults \in Nat /\ drifts \in Nat /\ since \in Int
    BY RouteAssumption DEF TypeOK
  <1>2. ASSUME NEW kind \in FaultKinds, Fault(kind) PROVE FALSE
    BY <1>1, <1>2 DEF Fault, Smooth
  <1>3. ASSUME NEW ip \in IP, Drift(ip) PROVE FALSE
    BY <1>1, <1>3 DEF Drift, Smooth
  <1> QED
    BY <1>2, <1>3

LEMMA SinceStep ==
  ASSUME TypeOK, SinceInv, [Next]_vars PROVE SinceInv'
  <1> USE DEF SinceInv
  <1>0. faults \in Nat /\ drifts \in Nat /\ since \in Int
    BY RouteAssumption DEF TypeOK
  <1>1. CASE Start \/ Reconcile \/ EndRoutes
    BY <1>0, <1>1 DEF Start, Reconcile, EndRoutes, counters, cycle
  <1>2. CASE List
    BY <1>0, <1>2 DEF List, Fault, NoFault, counters
  <1>3. ASSUME NEW ip \in IP, AddKernelRoute(ip) \/ DelKernelRoute(ip) PROVE SinceInv'
    BY <1>0, <1>3 DEF AddKernelRoute, DelKernelRoute, Fault, NoFault, counters, cycle
  <1>4. CASE AddFRRRoutes \/ DelFRRRoutes
    <2>1. pc' = "idle" => job' = "verify"
      BY <1>4 DEF AddFRRRoutes, DelFRRRoutes
    <2> QED
      BY <1>0, <1>4, <2>1 DEF AddFRRRoutes, DelFRRRoutes, Fault, NoFault, counters, cycle
  <1>5. CASE Flush \/ Kill
    <2>1. faults' \in Nat /\ faults' >= faults /\ drifts' = drifts
      BY <1>0, <1>5 DEF Flush, Kill, Fault, NoFault, counters
    <2> QED
      BY <1>0, <1>5, <2>1 DEF Flush, Kill, Forget
  <1>6. CASE Stop
    BY <1>0, <1>6 DEF Stop, Forget
  <1>7. ASSUME NEW routers \in SUBSET Router, Move(routers) PROVE SinceInv'
    BY <1>0, <1>7 DEF Move, cycle
  <1>8. ASSUME NEW ip \in IP, Drift(ip) PROVE SinceInv'
    BY <1>0, <1>8 DEF Drift, cycle
  <1>9. CASE UNCHANGED vars
    BY <1>9 DEF vars, cycle, counters
  <1> QED
    BY <1>1, <1>2, <1>3, <1>4, <1>5, <1>6, <1>7, <1>8, <1>9 DEF Next, Step

LEMMA ProgressStep ==
  ASSUME TypeOK, SinceInv, Progress, [Next]_vars PROVE Progress'
  <1> USE DEF Progress
  <1>0. faults \in Nat /\ drifts \in Nat /\ since \in Int
    BY RouteAssumption DEF TypeOK
  \* A step that goes on with the cycle, smooth afterwards, was smooth before.
  <1>s. ASSUME since' = since, Smooth' 
        PROVE  /\ ~Fault("list") /\ ~Fault("netlink") /\ ~Fault("rule") /\ ~Fault("vtysh")
               /\ \A ip \in IP : ~Drift(ip)
    BY <1>s, SmoothMeans DEF SinceInv, FaultKinds
  <1>1. CASE Start
    <2>1. ~Smooth'
      BY <1>0, <1>1 DEF Start, SinceInv, Smooth, counters
    <2> QED
      BY <2>1
  <1>2. CASE Reconcile
    <2>1. pc' = "list" /\ job' # "verify"
      BY <1>2 DEF Reconcile
    <2> QED
      BY <2>1
  <1>3. CASE List
    <2> SUFFICES ASSUME Smooth', job' # "cleanup" PROVE Progress'
      OBVIOUS
    <2>1. /\ UNCHANGED <<kernel, frr, job, desired, filters, since>>
          /\ pc = "list" /\ counters' = counters
          /\ curKernel' = (IF manageKernel THEN kernel ELSE {}) /\ curFRR' = frr
          /\ pc' = IF job \in {"ensure", "verify"} THEN "addKernel" ELSE "delFRR"
          /\ queue' = IF pc' = "addKernel" /\ manageKernel THEN Wanted \ curKernel' ELSE {}
      BY <1>3, <1>s DEF List, NoFault, tables
    <2>2. Wanted \subseteq desired /\ (job # "verify" => Wanted = desired)
      BY DEF Wanted
    <2>3. Smooth /\ job # "cleanup"
      BY <2>1 DEF Smooth, counters
    <2>4. CASE job = "verify"
      <3>1. Exact'
        BY <2>1, <2>3, <2>4 DEF Exact, HasAll, isManaged, manageKernel
      <3> QED
        BY <2>1, <2>2, <2>4, <3>1
    <2>5. CASE job = "ensure"
      BY <2>1, <2>2, <2>5
    <2>6. CASE job = "remove"
      BY <2>1, <2>6 DEF SinceInv, HasAll
    <2> QED
      BY <2>3, <2>4, <2>5, <2>6 DEF TypeOK, Job
  <1>4. ASSUME NEW ip \in IP, AddKernelRoute(ip) PROVE Progress'
    <2> SUFFICES ASSUME Smooth', job' # "cleanup" PROVE Progress'
      OBVIOUS
    <2>1. /\ pc = "addKernel" /\ ip \in queue
          /\ kernel' = kernel \cup {ip} /\ queue' = queue \ {ip}
          /\ UNCHANGED <<frr, pc, job, desired, filters, curKernel, curFRR, since>>
          /\ counters' = counters
      BY <1>4, <1>s DEF AddKernelRoute, cycle, NoFault
    <2>2. Smooth /\ job # "cleanup"
      BY <2>1 DEF Smooth, counters
    <2>3. job = "verify" => Exact'
      BY <2>1, <2>2 DEF Exact, HasAll, isManaged
    <2> QED
      BY <2>1, <2>2, <2>3
  <1>5. CASE AddFRRRoutes
    <2> SUFFICES ASSUME Smooth', job' # "cleanup" PROVE Progress'
      OBVIOUS
    <2>1. /\ pc = "addKernel" /\ queue = {} /\ frr' = frr \cup AddFRR
          /\ pc' = (IF job = "verify" THEN "idle" ELSE "delFRR")
          /\ UNCHANGED <<kernel, job, desired, filters, curKernel, curFRR, queue, since>>
          /\ counters' = counters
      BY <1>5, <1>s DEF AddFRRRoutes, cycle, NoFault
    <2>2. Smooth /\ job # "cleanup"
      BY <2>1 DEF Smooth, counters
    <2>3. AddFRR \subseteq desired /\ (job # "verify" => AddFRR = desired \ curFRR)
      BY DEF AddFRR, Wanted
    <2>4. CASE job = "verify"
      <3>1. Exact'
        BY <2>1, <2>2, <2>3, <2>4 DEF Exact, HasAll, isManaged
      <3> QED
        BY <2>1, <2>4, <3>1
    <2>5. CASE job # "verify"
      BY <2>1, <2>2, <2>3, <2>5 DEF HasAll
    <2> QED
      BY <2>4, <2>5
  <1>6. CASE DelFRRRoutes
    <2> SUFFICES ASSUME Smooth', job' # "cleanup" PROVE Progress'
      OBVIOUS
    <2>1. /\ pc = "delFRR" /\ pc' = "delKernel"
          /\ frr' = frr \ StaleFRR /\ queue' = StaleKernel
          /\ UNCHANGED <<kernel, job, desired, filters, curKernel, curFRR, since>>
          /\ counters' = counters
      BY <1>6, <1>s DEF DelFRRRoutes, cycle, NoFault
    <2>2. Smooth /\ job # "cleanup"
      BY <2>1 DEF Smooth, counters
    <2>3. /\ StaleFRR \cap desired = {} /\ StaleKernel \cap desired = {}
          /\ \A ip \in curFRR \ desired : isManaged(ip) => ip \in StaleFRR
          /\ \A ip \in curKernel \ desired : isManaged(ip) => ip \in StaleKernel
      BY DEF StaleFRR, StaleKernel
    <2>4. \A ip \in IP : isManaged(ip)' = isManaged(ip)
      BY <2>1 DEF isManaged
    <2> QED
      BY <2>1, <2>2, <2>3, <2>4 DEF HasAll
  <1>7. ASSUME NEW ip \in IP, DelKernelRoute(ip) PROVE Progress'
    <2> SUFFICES ASSUME Smooth', job' # "cleanup" PROVE Progress'
      OBVIOUS
    <2>1. /\ pc = "delKernel" /\ ip \in queue
          /\ kernel' = kernel \ {ip} /\ queue' = queue \ {ip}
          /\ UNCHANGED <<frr, pc, job, desired, filters, since>>
          /\ counters' = counters
      BY <1>7, <1>s DEF DelKernelRoute, cycle, NoFault
    <2>2. Smooth /\ job # "cleanup"
      BY <2>1 DEF Smooth, counters
    <2> QED
      BY <2>1, <2>2 DEF HasAll, isManaged
  <1>8. CASE EndRoutes
    <2> SUFFICES ASSUME Smooth', job' # "cleanup" PROVE Progress'
      OBVIOUS
    <2>1. /\ pc = "delKernel" /\ queue = {}
          /\ pc' \in {"list", "idle", "flush"} /\ (pc' = "flush" => job = "cleanup")
          /\ (job = "cleanup" => job' = "cleanup")
          /\ UNCHANGED <<kernel, frr, desired, filters, since>>
          /\ counters' = counters
      BY <1>8 DEF EndRoutes, tables, cycle
    <2>2. Smooth /\ job # "cleanup"
      BY <2>1 DEF Smooth, counters
    <2>3. Exact'
      BY <2>1, <2>2 DEF Exact, HasAll, isManaged
    <2> QED
      BY <2>1, <2>2, <2>3
  <1>9. CASE Flush \/ Kill
    BY <1>9 DEF Flush, Kill, Forget
  <1>10. CASE Stop
    BY <1>10 DEF Stop, Forget
  <1>11. ASSUME NEW routers \in SUBSET Router, Move(routers) PROVE Progress'
    <2>1. /\ UNCHANGED <<kernel, frr, pc, job, desired, filters, curKernel, curFRR, queue, since>>
          /\ UNCHANGED <<faults, drifts>>
      BY <1>11 DEF Move, tables, cycle
    <2> QED
      BY <2>1 DEF Smooth, Exact, HasAll, isManaged
  <1>12. ASSUME NEW ip \in IP, Drift(ip) PROVE Progress'
    <2>1. since' = since
      BY <1>12 DEF Drift
    <2> QED
      BY <1>s, <1>12, <2>1
  <1>13. CASE UNCHANGED vars
    <2>1. UNCHANGED <<kernel, frr, pc, job, desired, filters, curKernel, curFRR, queue, since,
                      faults, drifts>>
      BY <1>13 DEF vars, tables, cycle, counters
    <2> QED
      BY <2>1 DEF Smooth, Exact, HasAll, isManaged
  <1> QED
    BY <1>1, <1>2, <1>3, <1>4, <1>5, <1>6, <1>7, <1>8, <1>9, <1>10, <1>11, <1>12, <1>13
    DEF Next, Step

(***************************************************************************)
(* For all routers, addresses, networks and filters: a cycle during which  *)
(* nothing failed and nobody interfered leaves all that it wants in both   *)
(* tables and nothing else that it manages, from whatever failures, kills  *)
(* and drifts left before it (ensureRoutes, removeAllRoutes,               *)
(* verifyRoutes).                                                          *)
(***************************************************************************)
THEOREM SmoothCyclesExact ==
  Spec => []SmoothCycleExact
  <1>1. Init => SinceInv /\ Progress
    BY DEF Init, SinceInv, Progress
  <1>2. TypeOK /\ SinceInv /\ Progress /\ [Next]_vars => SinceInv' /\ Progress'
    BY SinceStep, ProgressStep
  <1>3. TypeOK /\ SinceInv /\ Progress => SmoothCycleExact
    BY DEF TypeOK, SinceInv, Progress, Exact, HasAll, SmoothCycleExact
  <1> QED
    BY <1>1, <1>2, <1>3, TypeCorrect, PTL DEF Spec
=============================================================================
