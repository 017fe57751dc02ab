----------------------------- MODULE RouteSync -----------------------------
(***************************************************************************)
(* The /32 routes of the floating IPs: how a reconcile of the agent brings *)
(* the kernel routes on the provider bridge, their ip rules and the FRR    *)
(* static routes that BGP announces in line with the routers active on     *)
(* this chassis (ensureRoutes, removeAllRoutes, verifyRoutes and isManaged *)
(* of agent.go, the route operations of routing.go and routing_linux.go).  *)
(*                                                                         *)
(* A cycle lists both tables once and then works on that list, one call at *)
(* a time.  Between any two calls routers move, routes disappear by other  *)
(* hands, or the agent is killed; and any call may fail.                   *)
(***************************************************************************)
EXTENDS Integers, FiniteSets

CONSTANTS
  Router, IP, Net,
  NetOf,            \* the network an address lies in
  NatIPs,           \* NAT addresses of each router (FIPs and SNAT)
  GatewayIPs,       \* addresses of each router's gateway port
  Nets,             \* networks of each router's gateway port
  VIP,              \* port-forward addresses
  NetworkFilters,   \* manual network filters; {} for auto-discovery
  PortForwardOnly, CleanupOnShutdown,
  RouteTable,       \* TRUE: a dedicated routing table, entered by one ip rule per address
  Faults, MaxFaults,
  MaxMoves,         \* bound: changes of the set of local routers
  MaxDrifts,        \* bound: routes removed by other hands
  MaxExits          \* bound: shutdowns and kills

FaultKinds == {"list", "netlink", "rule", "vtysh"}

ASSUME RouteAssumption ==
  /\ NetOf \in [IP -> Net]
  /\ NatIPs \in [Router -> SUBSET IP] /\ GatewayIPs \in [Router -> SUBSET IP]
  /\ Nets \in [Router -> SUBSET Net]
  /\ VIP \subseteq IP /\ NetworkFilters \subseteq Net
  /\ {PortForwardOnly, CleanupOnShutdown, RouteTable} \subseteq BOOLEAN
  /\ Faults \subseteq FaultKinds
  /\ MaxFaults \in Nat /\ MaxMoves \in Nat /\ MaxDrifts \in Nat /\ MaxExits \in Nat

VARIABLES
  active,     \* OVNState.LocalRouters
  kernel,     \* addresses with a kernel route on the bridge
  rules,      \* addresses with an ip rule
  frr,        \* addresses with an FRR static route
  pc, job,    \* where the cycle is, and what it does
  desired,    \* desiredIPs of the cycle
  filters,    \* a.effectiveFilters: kept from one cycle to the next
  curKernel,  \* currentKernel as listed
  curFRR,     \* currentFRR as listed
  queue,      \* addresses whose kernel call is still to be made
  reAdds,     \* consecutiveReAdds
  since,      \* history: failures and drifts before the cycle began
  faults, moves, drifts, exits

tables   == <<kernel, rules, frr>>
cycle    == <<desired, filters, curKernel, curFRR>>
counters == <<faults, moves, drifts, exits>>
vars == <<active, tables, pc, job, cycle, queue, reAdds, since, counters>>

Job   == {"ensure", "verify", "remove", "cleanup"}
Phase == {"down", "idle", "list", "addKernel", "delFRR", "delKernel", "flush"}

TypeOK ==
  /\ active \subseteq Router
  /\ kernel \subseteq IP /\ rules \subseteq IP /\ frr \subseteq IP
  /\ desired \subseteq IP /\ curKernel \subseteq IP /\ curFRR \subseteq IP
  /\ queue \subseteq IP
  /\ filters \subseteq Net
  /\ pc \in Phase /\ job \in Job
  /\ reAdds \in Nat /\ since \in Int
  /\ faults \in 0 .. MaxFaults /\ moves \in 0 .. MaxMoves
  /\ drifts \in 0 .. MaxDrifts /\ exits \in 0 .. MaxExits

Init ==
  /\ active \in SUBSET Router
  /\ kernel = {} /\ rules = {} /\ frr = {}
  /\ pc = "down" /\ job = "ensure"
  /\ desired = {} /\ filters = {} /\ curKernel = {} /\ curFRR = {} /\ queue = {}
  /\ reAdds = 0 /\ since = -1
  /\ faults = 0 /\ moves = 0 /\ drifts = 0 /\ exits = 0

-----------------------------------------------------------------------------
(* What a cycle wants *)

manageKernel == ~PortForwardOnly

\* effectiveNetworkFilters: the manual filters, else the networks of the routers.
effectiveNetworkFilters(routers) ==
  IF NetworkFilters # {} THEN NetworkFilters ELSE UNION {Nets[r] : r \in routers}

InFilters(ip, nets) == nets = {} \/ NetOf[ip] \in nets

isManaged(ip) == InFilters(ip, filters)

\* desiredIPs: refreshState filters the NAT addresses, not those of the ports.
Desired(routers) ==
  LET nats == UNION {NatIPs[r] : r \in routers}
  IN  {ip \in nats : InFilters(ip, effectiveNetworkFilters(routers))}
        \cup (UNION {GatewayIPs[r] : r \in routers}) \cup VIP

LocalRouters == IF PortForwardOnly THEN {} ELSE active

\* What ensureRoutes and verifyRoutes add.
Wanted == IF job = "verify" THEN {ip \in desired : isManaged(ip)} ELSE desired

\* Stale kernel routes, and the FRR routes withdrawn with them or orphaned.
StaleKernel == {ip \in curKernel \ desired : isManaged(ip)}
Mut_NoOrphans == StaleKernel
StaleFRR ==
  LET listed == IF job = "ensure" THEN curKernel \cup curFRR ELSE curFRR
  IN  {ip \in listed \ desired : isManaged(ip)}

-----------------------------------------------------------------------------
(* A cycle *)

Fault(kind) ==
  /\ kind \in Faults
  /\ faults < MaxFaults
  /\ faults' = faults + 1
  /\ UNCHANGED <<moves, drifts, exits>>

NoFault == UNCHANGED counters

\* reconcile: ensureRoutes, or removeAllRoutes when nothing is wanted.
Reconcile ==
  /\ pc = "idle" /\ pc' = "list"
  /\ desired' = Desired(LocalRouters)
  /\ filters' = effectiveNetworkFilters(LocalRouters)
  /\ job' = IF desired' # {} \/ LocalRouters # {} THEN "ensure" ELSE "remove"
  /\ since' = faults + drifts
  /\ UNCHANGED <<active, tables, curKernel, curFRR, queue, reAdds, counters>>

\* ListKernelRoutes and ListFRRRoutes.  ensureRoutes and removeAllRoutes take a
\* failed list for an empty one; verifyRoutes gives up.
List ==
  /\ pc = "list"
  /\ \/ /\ NoFault
        /\ curKernel' = IF manageKernel THEN kernel ELSE {}
        /\ curFRR' = frr
        /\ pc' = IF job \in {"ensure", "verify"} THEN "addKernel" ELSE "delFRR"
     \/ /\ job # "verify" /\ Fault("list")
        /\ \/ curKernel' = {} /\ curFRR' = frr
           \/ curKernel' = (IF manageKernel THEN kernel ELSE {}) /\ curFRR' = {}
        /\ pc' = IF job = "ensure" THEN "addKernel" ELSE "delFRR"
     \/ /\ job = "verify" /\ Fault("list")
        /\ pc' = "idle" /\ UNCHANGED <<curKernel, curFRR>>
  /\ queue' = IF pc' = "addKernel" /\ manageKernel THEN Wanted \ curKernel' ELSE {}
  /\ UNCHANGED <<active, tables, job, desired, filters, reAdds, since>>

(***************************************************************************)
(* AddKernelRoute: the route, then its rule; without its rule the route is *)
(* taken back, unless that fails too.  Failures are logged.                *)
(***************************************************************************)
AddKernelRoute(ip) ==
  /\ pc = "addKernel" /\ ip \in queue
  /\ queue' = queue \ {ip}
  /\ \/ /\ NoFault
        /\ kernel' = kernel \cup {ip}
        /\ rules' = IF RouteTable THEN rules \cup {ip} ELSE rules
     \/ /\ Fault("netlink")
        /\ UNCHANGED <<kernel, rules>>
     \/ /\ RouteTable /\ Fault("rule")
        /\ kernel' \in {kernel \ {ip}, kernel \cup {ip}} /\ UNCHANGED rules
  /\ UNCHANGED <<active, frr, pc, job, cycle, reAdds, since>>

\* AddFRRRoutes: the batch; a failure leaves a part of it applied.
AddFRR == Wanted \ curFRR

\* verifyRoutes keeps count of the cycles that had to add again.
Mut_CountDown ==
  reAdds' = IF job # "verify" THEN reAdds
            ELSE IF Wanted \ curFRR = {} /\ (manageKernel => Wanted \subseteq curKernel)
            THEN reAdds - 1 ELSE reAdds + 1
Verified ==
  reAdds' = IF job # "verify" THEN reAdds
            ELSE IF Wanted \ curFRR = {} /\ (manageKernel => Wanted \subseteq curKernel)
            THEN 0 ELSE reAdds + 1

AddFRRRoutes ==
  /\ pc = "addKernel" /\ queue = {}
  /\ \/ NoFault /\ frr' = frr \cup AddFRR
     \/ AddFRR # {} /\ Fault("vtysh") /\ \E done \in SUBSET AddFRR : frr' = frr \cup done
  /\ Verified
  /\ pc' = IF job = "verify" THEN "idle" ELSE "delFRR"
  /\ UNCHANGED <<active, kernel, rules, job, cycle, queue, since>>

\* DelFRRRoutes, before the kernel routes, which go even if it failed.
Mut_KernelFirst ==
  /\ pc = "delFRR" /\ pc' = "delKernel"
  /\ NoFault /\ UNCHANGED frr
  /\ queue' = StaleKernel
  /\ UNCHANGED <<active, kernel, rules, job, cycle, reAdds, since>>
DelFRRRoutes ==
  /\ pc = "delFRR" /\ pc' = "delKernel"
  /\ \/ NoFault /\ frr' = frr \ StaleFRR
     \/ StaleFRR # {} /\ Fault("vtysh") /\ \E done \in SUBSET StaleFRR : frr' = frr \ done
  /\ queue' = StaleKernel
  /\ UNCHANGED <<active, kernel, rules, job, cycle, reAdds, since>>

\* DelKernelRoute: the rule first; its failure is ignored.  Without its link the
\* call ends before that.
DelKernelRoute(ip) ==
  /\ pc = "delKernel" /\ ip \in queue
  /\ queue' = queue \ {ip}
  /\ \/ NoFault /\ rules' = rules \ {ip} /\ kernel' = kernel \ {ip}
     \/ RouteTable /\ Fault("rule") /\ UNCHANGED rules /\ kernel' = kernel \ {ip}
     \/ Fault("netlink") /\ rules' \in {rules, rules \ {ip}} /\ UNCHANGED kernel
  /\ UNCHANGED <<active, frr, pc, job, cycle, reAdds, since>>

\* The end of ensureRoutes, verifying after a change of FRR, or of
\* removeAllRoutes.
Changed == AddFRR # {} \/ StaleFRR # {}

EndRoutes ==
  /\ pc = "delKernel" /\ queue = {}
  /\ \/ job = "ensure" /\ Changed /\ job' = "verify" /\ pc' = "list"
     \/ job = "ensure" /\ ~Changed /\ pc' = "idle" /\ UNCHANGED job
     \/ job = "remove" /\ pc' = "idle" /\ UNCHANGED job
     \/ job = "cleanup" /\ pc' = "flush" /\ UNCHANGED job
  /\ UNCHANGED <<active, tables, cycle, queue, reAdds, since, counters>>

-----------------------------------------------------------------------------
(* Start, shutdown, and the rest of the world *)

Start ==
  /\ pc = "down" /\ pc' = "idle"
  /\ UNCHANGED <<active, tables, job, cycle, queue, reAdds, since, counters>>

\* What a process that ends takes with it.
Forget ==
  /\ pc' = "down" /\ job' = "ensure"
  /\ desired' = {} /\ filters' = {} /\ curKernel' = {} /\ curFRR' = {} /\ queue' = {}
  /\ reAdds' = 0 /\ since' = -1

\* cleanup, first part: removeAllRoutes with the filters of the last cycle.
Stop ==
  /\ pc = "idle" /\ exits < MaxExits
  /\ exits' = exits + 1
  /\ IF CleanupOnShutdown
     THEN /\ pc' = "list" /\ job' = "cleanup" /\ desired' = {}
          /\ since' = faults + drifts
          /\ UNCHANGED <<filters, curKernel, curFRR, queue, reAdds>>
     ELSE Forget
  /\ UNCHANGED <<active, tables, faults, moves, drifts>>

\* cleanup, second part: CleanupRoutingTable, the rules before the routes.  A list
\* that fails ends it; a rule or a route that cannot be deleted stays.
Flushes == RouteTable /\ manageKernel

Flush ==
  /\ pc = "flush"
  /\ \/ ~Flushes /\ NoFault /\ UNCHANGED <<kernel, rules>>
     \/ Flushes /\ NoFault /\ rules' = {} /\ kernel' = {}
     \/ Flushes /\ Fault("list") /\ rules' \in {rules, {}} /\ UNCHANGED kernel
     \/ Flushes /\ Fault("rule") /\ kernel' = {} /\ \E ip \in rules : rules' = {ip}
     \/ Flushes /\ Fault("netlink") /\ rules' = {} /\ \E ip \in kernel : kernel' = {ip}
  /\ Forget
  /\ UNCHANGED <<active, frr>>

\* The agent is killed; perhaps between the two halves of a kernel call, or while
\* it flushes.
Kill ==
  /\ pc # "down" /\ exits < MaxExits
  /\ exits' = exits + 1
  /\ \/ UNCHANGED <<kernel, rules>>
     \/ pc = "addKernel" /\ RouteTable /\ UNCHANGED rules
        /\ \E ip \in queue : kernel' = kernel \cup {ip}
     \/ pc = "delKernel" /\ RouteTable /\ UNCHANGED kernel
        /\ \E ip \in queue : rules' = rules \ {ip}
     \/ pc = "flush" /\ Flushes
        /\ \/ UNCHANGED kernel /\ rules' \in SUBSET rules
           \/ rules' = {} /\ kernel' \in SUBSET kernel
  /\ Forget
  /\ UNCHANGED <<active, frr, faults, moves, drifts>>

Move(routers) ==
  /\ routers # active /\ moves < MaxMoves
  /\ active' = routers
  /\ moves' = moves + 1
  /\ UNCHANGED <<tables, pc, job, cycle, queue, reAdds, since, faults, drifts, exits>>

\* FRR is restarted, a route is deleted by hand, the bridge flaps.
Drift(ip) ==
  /\ drifts < MaxDrifts
  /\ drifts' = drifts + 1
  /\ \/ ip \in frr /\ frr' = frr \ {ip} /\ UNCHANGED <<kernel, rules>>
     \/ ip \in kernel /\ kernel' = kernel \ {ip} /\ UNCHANGED <<frr, rules>>
  /\ UNCHANGED <<active, pc, job, cycle, queue, reAdds, since, faults, moves, exits>>

-----------------------------------------------------------------------------
Step ==
  \/ Start \/ Reconcile \/ List \/ AddFRRRoutes \/ DelFRRRoutes \/ EndRoutes \/ Flush
  \/ \E ip \in IP : AddKernelRoute(ip) \/ DelKernelRoute(ip)

Next ==
  \/ Step \/ Stop \/ Kill
  \/ \E routers \in SUBSET Router : Move(routers)
  \/ \E ip \in IP : Drift(ip)

Spec == Init /\ [][Next]_vars

\* The agent is started whenever it is down, and reconciles at least every
\* reconcile_interval.
FairSpec == Spec /\ WF_vars(Step)

-----------------------------------------------------------------------------
(* Properties *)

\* Nothing failed and nobody interfered, ever ...
Untouched == faults = 0 /\ drifts = 0

(***************************************************************************)
(* No black hole: whatever moves and wherever the agent is killed, an      *)
(* address that BGP announces has its kernel route: routes come up before  *)
(* they are announced and are withdrawn before they go down (ensureRoutes, *)
(* removeAllRoutes).                                                       *)
(***************************************************************************)
NoBlackHole == manageKernel /\ Untouched => frr \subseteq kernel

\* ... or since the cycle began.
Smooth == since = faults + drifts

(***************************************************************************)
(* A cycle during which nothing failed and nobody interfered leaves all    *)
(* that it wants in both tables, and nothing else that it manages, from    *)
(* whatever earlier failures left behind (ensureRoutes).                   *)
(***************************************************************************)
SmoothCycleExact ==
  pc = "idle" /\ Smooth =>
    /\ desired \subseteq frr /\ (manageKernel => desired \subseteq kernel)
    /\ \A ip \in (frr \cup IF manageKernel THEN kernel ELSE {}) \ desired : ~isManaged(ip)

(***************************************************************************)
(* Convergence: once routers rest and failures end, FRR and the kernel     *)
(* hold exactly the addresses of the local routers and the VIPs (Run,      *)
(* ensureRoutes).                                                          *)
(***************************************************************************)
Announced == frr = Desired(LocalRouters)
Converges == <>[](Announced /\ (manageKernel => kernel = frr))

(***************************************************************************)
(* What the documents of the repository say, and the code does not         *)
(* guarantee: a run expects a counterexample.                              *)
(***************************************************************************)

\* multi-router.md: "On failover (e.g. router-A moves from net-01 to net-02), the
\* agent on net-01 removes router-A's routes".
FailoverWithdraws == <>[]Announced

=============================================================================
