----------------------------- MODULE GatewayHA -----------------------------
(***************************************************************************)
(* The gateway high-availability protocol that the agents of a deployment  *)
(* run through the OVN databases (ovn_gateway.go, and the phases of        *)
(* Agent.Run in agent.go that drive it).                                   *)
(*                                                                         *)
(* Every gateway router port (LRP) has one NB Gateway_Chassis row per      *)
(* chassis of its HA group.  OVN binds the port's chassisredirect port, in *)
(* SB Port_Binding, to the chassis of highest priority that is up.  On     *)
(* each chassis an agent                                                   *)
(*   - restores its drained rows from 0 to 1 when it starts,               *)
(*   - raises its own row above all peers, and to 2 at least, while it is  *)
(*     the active gateway (EnsureActivePriorityLead), and                  *)
(*   - lowers its rows to 0 on shutdown and waits for the ports to leave   *)
(*     (DrainGateways).                                                    *)
(* An agent decides on a monitor cache of the NB rows that may lag, or may *)
(* miss rows altogether, and on a snapshot of the SB bindings that only an *)
(* event renews.                                                           *)
(***************************************************************************)
EXTENDS Integers, FiniteSets, FiniteSetsExt

CONSTANTS
  Chassis,          \* chassis names; numbers, so that OVN's tie-break is an order
  LRP,              \* gateway router ports
  Tracked,          \* the ports that gateway_port selects (all of LRP when unset)
  DrainOnShutdown,  \* the chassis configured with drain_on_shutdown
  InitPriorities,   \* priorities Neutron may have given the rows
  MaxPriority,      \* largest priority the NB schema admits
  TieFlaps,         \* TRUE: OVN picks any chassis of a tie, and may change its mind
  ReleaseFirst,     \* TRUE: the old holder may give the port up before it is claimed
  PromptElections,  \* TRUE: OVN ends an election before an agent reads its outcome
  Droppable,        \* rows <<l, c>> whose INSERT an NB monitor may miss
  Faults,           \* kinds of failure that occur, a subset of FaultKinds
  MaxFaults,        \* bound: how many failures
  MaxExits          \* bound: how many agent exits and node failures

FaultKinds ==
  { "txn",      \* an NB transaction is refused, nothing is written
    "lost",     \* an NB transaction is applied but its reply is lost
    "nbread",   \* a direct NB select fails
    "sbread",   \* a direct SB select fails
    "refresh" } \* refreshState returns early, or the drain poll fails

NoRow == -1
None  == -1
minActivePriority == 2

Priority == NoRow .. MaxPriority

ASSUME HAAssumption ==
  /\ Chassis \subseteq Nat
  /\ IsFiniteSet(Chassis)
  /\ Tracked \subseteq LRP
  /\ DrainOnShutdown \subseteq Chassis
  /\ MaxPriority \in Nat /\ MaxPriority >= minActivePriority
  /\ InitPriorities \subseteq Priority
  /\ {TieFlaps, ReleaseFirst, PromptElections} \subseteq BOOLEAN
  /\ Droppable \subseteq LRP \X Chassis
  /\ Faults \subseteq FaultKinds
  /\ MaxFaults \in Nat /\ MaxExits \in Nat

VARIABLES
  prio,     \* NB server: prio[l][c], priority of c's Gateway_Chassis row for l
  bound,    \* SB server: the chassis l's chassisredirect port is bound to
  up,       \* chassis whose ovn-controller is alive
  pc,       \* phase of each agent
  nbCache,  \* each agent's monitor cache of the Gateway_Chassis table
  hidden,   \* rows <<l, c>> missing from each agent's monitor cache
  local,    \* OVNState.LocalRouters of each agent: the ports it takes as its own
  refresh,  \* refreshState of each agent: an event waits for it ("due"), the last
            \* one worked ("done"), or it failed and nothing repeats it ("failed")
  pending,  \* the boosts an agent is about to write: a priority, or NoRow
  faults,   \* failures so far
  exits     \* agent exits and node failures so far

agentVars == <<nbCache, hidden, local, refresh, pending>>
ovnVars   == <<prio, bound, up>>
vars      == <<ovnVars, pc, agentVars, faults, exits>>

(***************************************************************************)
(* Phases.  "restore" and "reconcile" are the start-up steps of Run,       *)
(* "running" is the select of its main loop, "boost" is a reconcile whose  *)
(* priority transaction is on its way, "drain" .. "leaving" the ctx.Done   *)
(* branch.  In the Live phases the refresh loop runs as well.              *)
(***************************************************************************)
Live    == {"restore", "reconcile", "running", "boost"}
Phase   == Live \cup {"down", "drain", "polling", "settling", "leaving"}
Running == Phase \ {"down"}

NoRows    == [l \in LRP |-> [d \in Chassis |-> NoRow]]
NoPending == [l \in LRP |-> NoRow]

TypeOK ==
  /\ prio    \in [LRP -> [Chassis -> Priority]]
  /\ bound   \in [LRP -> Chassis \cup {None}]
  /\ up      \subseteq Chassis
  /\ pc      \in [Chassis -> Phase]
  /\ nbCache \in [Chassis -> [LRP -> [Chassis -> Priority]]]
  /\ hidden  \in [Chassis -> SUBSET (LRP \X Chassis)]
  /\ local   \in [Chassis -> SUBSET LRP]
  /\ refresh \in [Chassis -> {"due", "done", "failed"}]
  /\ pending \in [Chassis -> [LRP -> NoRow .. MaxPriority + 1]]
  /\ faults  \in 0 .. MaxFaults
  /\ exits   \in 0 .. MaxExits

Init ==
  /\ prio    \in [LRP -> [Chassis -> InitPriorities]]
  /\ bound   = [l \in LRP |-> None]
  /\ up      = Chassis
  /\ pc      = [c \in Chassis |-> "down"]
  /\ nbCache = [c \in Chassis |-> NoRows]
  /\ hidden  = [c \in Chassis |-> {}]
  /\ local   = [c \in Chassis |-> {}]
  /\ refresh = [c \in Chassis |-> "done"]
  /\ pending = [c \in Chassis |-> NoPending]
  /\ faults  = 0
  /\ exits   = 0

-----------------------------------------------------------------------------
(* Helpers *)

Goto(c, phase) == pc' = [pc EXCEPT ![c] = phase]

\* One failure of the given kind, within the bound.
Fault(kind) ==
  /\ kind \in Faults
  /\ faults < MaxFaults
  /\ faults' = faults + 1

\* The event handlers: a change of a priority or of a binding asks the refresh
\* loop of every agent for a refresh.
Notify ==
  refresh' = [c \in Chassis |->
    IF pc[c] \in Live /\ <<prio, bound>>' # <<prio, bound>> THEN "due" ELSE refresh[c]]

\* What a monitor that misses the rows of h shows of the rows p.
MonitorView(p, h) ==
  [l \in LRP |-> [d \in Chassis |-> IF <<l, d>> \in h THEN NoRow ELSE p[l][d]]]

\* The rows p after one transaction that sets c's row of every l in S to new[l].
WithRows(p, c, S, new) ==
  [l \in LRP |-> IF l \in S THEN [p[l] EXCEPT ![c] = new[l]] ELSE p[l]]

(***************************************************************************)
(* transactOps: the server applies all operations or none.  A row above    *)
(* MaxPriority violates the schema and fails the whole transaction.  The   *)
(* monitor stream is ordered: when the reply of a transaction arrives, the *)
(* cache has seen everything up to it.                                     *)
(***************************************************************************)
TransactOk(c, S, new) ==
  /\ \A l \in S : new[l] <= MaxPriority
  /\ prio' = WithRows(prio, c, S, new)
  /\ nbCache' = [nbCache EXCEPT ![c] = MonitorView(prio', hidden[c])]
  /\ UNCHANGED <<bound, faults>>
  /\ Notify

TransactFails(c, S, new) ==
  /\ UNCHANGED <<nbCache, bound>>
  /\ \/ /\ \E l \in S : new[l] > MaxPriority
        /\ UNCHANGED <<prio, faults>>
     \/ /\ Fault("txn")
        /\ UNCHANGED prio
     \/ /\ Fault("lost")
        /\ \A l \in S : new[l] <= MaxPriority
        /\ prio' = WithRows(prio, c, S, new)
  /\ Notify

NoTransaction == UNCHANGED <<prio, bound, nbCache, refresh>>

\* The row-present test of filterRestoreCandidates, filterDrainCandidates and
\* EnsureActivePriorityLead: does the cache hold any row of this chassis?
HasLocalRow(c) == \E l \in LRP : nbCache[c][l][c] # NoRow

\* c's own rows as these functions get them: from the cache, or by the direct
\* NB select of selectLocalGatewayChassis when the cache has none at all.
Mut_CachedRow(c, l) == nbCache[c][l][c]
OwnRow(c, l) == IF HasLocalRow(c) THEN nbCache[c][l][c] ELSE prio[l][c]

\* The fallback select fails.
SelectFails(c) == ~HasLocalRow(c) /\ Fault("nbread")

\* refreshState's LocalRouters: the tracked ports bound to this chassis.
LocalRouters(c) == {l \in Tracked : bound[l] = c}

-----------------------------------------------------------------------------
(* OVN itself: ovn-northd and ovn-controller *)

\* The live chassis of highest priority among those with a row for l.
Candidates(l) ==
  {c \in up : prio[l][c] # NoRow /\ \A d \in up : prio[l][d] <= prio[l][c]}

Winners(l) ==
  IF TieFlaps THEN Candidates(l)
  ELSE {c \in Candidates(l) : \A d \in Candidates(l) : d <= c}

ElectionOver(l) == Winners(l) # {} => bound[l] \in Winners(l)

\* The holder learns that it is no longer elected and gives up the port.
Release(l) ==
  /\ ReleaseFirst /\ bound[l] \in up \ Winners(l)
  /\ bound' = [bound EXCEPT ![l] = None]
  /\ UNCHANGED <<prio, up, pc, nbCache, hidden, local, pending, faults, exits>>
  /\ Notify

\* The elected chassis claims the port, from nobody or from its holder.
Claim(l, c) ==
  /\ c \in Winners(l) \ {bound[l]}
  /\ bound' = [bound EXCEPT ![l] = c]
  /\ UNCHANGED <<prio, up, pc, nbCache, hidden, local, pending, faults, exits>>
  /\ Notify

-----------------------------------------------------------------------------
(* The agent: start-up *)

(***************************************************************************)
(* Connect: the monitor delivers the rows it does not miss, refreshState   *)
(* takes the first snapshot of the bindings, and the signals so far are    *)
(* dropped.  Connect does not fail when that refresh does: the snapshot    *)
(* then stays empty until an event asks for another.                       *)
(***************************************************************************)
Connect(c) ==
  /\ pc[c] = "down" /\ c \in up
  /\ \E h \in SUBSET Droppable :
       /\ hidden'  = [hidden EXCEPT ![c] = h]
       /\ nbCache' = [nbCache EXCEPT ![c] = MonitorView(prio, h)]
  /\ \/ /\ local' = [local EXCEPT ![c] = LocalRouters(c)]
        /\ refresh' = [refresh EXCEPT ![c] = "done"] /\ UNCHANGED faults
     \/ /\ Fault("refresh") /\ UNCHANGED local
        /\ refresh' = [refresh EXCEPT ![c] = "failed"]
  /\ Goto(c, IF c \in DrainOnShutdown THEN "restore" ELSE "reconcile")
  /\ UNCHANGED <<ovnVars, pending, exits>>

\* RestoreDrainedGateways: this chassis' rows at 0 go to 1.  Errors are logged.
RestoreDrainedGateways(c) ==
  LET toRestore == {l \in LRP : OwnRow(c, l) = 0}
      standby   == [l \in LRP |-> 1]
  IN  /\ pc[c] = "restore"
      /\ \/ SelectFails(c) /\ NoTransaction
         \/ toRestore = {} /\ NoTransaction /\ UNCHANGED faults
         \/ toRestore # {} /\ TransactOk(c, toRestore, standby)
         \/ toRestore # {} /\ TransactFails(c, toRestore, standby)
      /\ Goto(c, "reconcile")
      /\ UNCHANGED <<up, hidden, local, pending, exits>>

-----------------------------------------------------------------------------
(* The agent: caches *)

\* The NB monitor delivers what it has not delivered yet.
MonitorUpdate(c) ==
  /\ pc[c] \in Running
  /\ nbCache[c] # MonitorView(prio, hidden[c])
  /\ nbCache' = [nbCache EXCEPT ![c] = MonitorView(prio, hidden[c])]
  /\ UNCHANGED <<ovnVars, pc, hidden, local, refresh, pending, faults, exits>>

\* refreshLoop handles an event, of these tables or of another.  A List that
\* fails leaves the snapshot as it is, and the event is used up.
RefreshState(c) ==
  /\ pc[c] \in Live
  /\ refresh[c] = "due" \/ local[c] # LocalRouters(c)
  /\ \/ /\ local' = [local EXCEPT ![c] = LocalRouters(c)]
        /\ refresh' = [refresh EXCEPT ![c] = "done"] /\ UNCHANGED faults
     \/ /\ Fault("refresh") /\ UNCHANGED local
        /\ refresh' = [refresh EXCEPT ![c] = "failed"]
  /\ UNCHANGED <<ovnVars, pc, nbCache, hidden, pending, exits>>

-----------------------------------------------------------------------------
(* The agent: EnsureActivePriorityLead, called by every reconcile *)

\* The highest priority among the peers of c that the cache shows, -1 if none.
MaxPeer(c, l) == Max({NoRow} \cup {nbCache[c][l][d] : d \in Chassis \ {c}})

HasLead(c, l) ==
  /\ OwnRow(c, l) > MaxPeer(c, l)
  /\ OwnRow(c, l) >= minActivePriority

Mut_BoostToTie(c, l) == Max({MaxPeer(c, l), minActivePriority})
Mut_BoostByThree(c, l) == Max({MaxPeer(c, l) + 3, minActivePriority})
BoostTarget(c, l) == Max({MaxPeer(c, l) + 1, minActivePriority})

\* SB positively shows the port on another chassis.
Mut_NeverElsewhere(c, l) == FALSE
BoundElsewhere(c, l) == bound[l] \notin {None, c}

(***************************************************************************)
(* The priorities EnsureActivePriorityLead decides to write.  confirmed:   *)
(* the direct SB select succeeded; when it did not, the snapshot is        *)
(* trusted.                                                                *)
(***************************************************************************)
Boosts(c, confirmed) ==
  [l \in LRP |->
     IF /\ l \in local[c]
        /\ OwnRow(c, l) # NoRow /\ MaxPeer(c, l) >= 0
        /\ ~HasLead(c, l)
        /\ ~(confirmed /\ BoundElsewhere(c, l))
     THEN BoostTarget(c, l) ELSE NoRow]

\* The reads of EnsureActivePriorityLead: cache, fallback select, SB confirmation.
CheckLead(c) ==
  /\ pc[c] \in {"reconcile", "running"}
  /\ PromptElections => \A l \in LRP : ElectionOver(l)
  /\ \/ /\ local[c] # {}
        /\ \/ SelectFails(c) /\ pending' = pending
           \/ pending' = [pending EXCEPT ![c] = Boosts(c, TRUE)] /\ UNCHANGED faults
           \/ Fault("sbread") /\ pending' = [pending EXCEPT ![c] = Boosts(c, FALSE)]
     \/ local[c] = {} /\ UNCHANGED <<pending, faults>>
  /\ Goto(c, IF pending'[c] = NoPending THEN "running" ELSE "boost")
  /\ UNCHANGED <<ovnVars, nbCache, hidden, local, refresh, exits>>

\* Its write: one transaction for all ports.  An error is logged.
BoostPriorities(c) ==
  LET S == {l \in LRP : pending[c][l] # NoRow}
  IN  /\ pc[c] = "boost"
      /\ TransactOk(c, S, pending[c]) \/ TransactFails(c, S, pending[c])
      /\ pending' = [pending EXCEPT ![c] = NoPending]
      /\ Goto(c, "running")
      /\ UNCHANGED <<up, hidden, local, exits>>

-----------------------------------------------------------------------------
(* The agent: shutdown *)

\* SIGTERM, seen by the select of the main loop; the refresh loop ends.
Stop(c) ==
  /\ pc[c] = "running" /\ exits < MaxExits
  /\ exits' = exits + 1
  /\ refresh' = [refresh EXCEPT ![c] = "done"]
  /\ Goto(c, IF c \in DrainOnShutdown THEN "drain" ELSE "leaving")
  /\ UNCHANGED <<ovnVars, nbCache, hidden, local, pending, faults>>

\* The rows filterDrainCandidates selects.
Mut_HeldOnly(c) == {l \in LocalRouters(c) : OwnRow(c, l) > 0}
DrainCandidates(c) == {l \in LRP : OwnRow(c, l) > 0}

\* DrainGateways up to its transaction: rows above 0 go to 0.  Nothing to drain
\* and errors end the drain at once.
Mut_DrainToStandby == 1
DrainPriority == 0

LowerPriorities(c) ==
  LET toDrain == DrainCandidates(c)
      drained == [l \in LRP |-> DrainPriority]
  IN  /\ pc[c] = "drain"
      /\ \/ /\ SelectFails(c)
            /\ NoTransaction /\ Goto(c, "leaving")
         \/ /\ toDrain = {}
            /\ NoTransaction /\ UNCHANGED faults /\ Goto(c, "leaving")
         \/ /\ toDrain # {}
            /\ TransactOk(c, toDrain, drained) /\ Goto(c, "polling")
         \/ /\ toDrain # {}
            /\ TransactFails(c, toDrain, drained) /\ Goto(c, "leaving")
      /\ UNCHANGED <<up, hidden, local, pending, exits>>

\* One round of the poll: countLocalCRPorts finds no tracked port here.
PollEmpty(c) ==
  /\ pc[c] = "polling" /\ LocalRouters(c) = {}
  /\ Goto(c, "settling")
  /\ UNCHANGED <<ovnVars, agentVars, faults, exits>>

\* countLocalCRPorts fails: the drain returns an error.
PollFails(c) ==
  /\ pc[c] = "polling" /\ Fault("refresh")
  /\ Goto(c, "leaving")
  /\ UNCHANGED <<ovnVars, agentVars, exits>>

\* drain_timeout expires in the poll loop or in settleAfterDrain, or the settle
\* delay is over.
Mut_PollWithoutDeadline(c) ==
  /\ pc[c] = "settling"
  /\ Goto(c, "leaving")
  /\ UNCHANGED <<ovnVars, agentVars, faults, exits>>
DrainEnds(c) ==
  /\ pc[c] \in {"polling", "settling"}
  /\ Goto(c, "leaving")
  /\ UNCHANGED <<ovnVars, agentVars, faults, exits>>

\* The process is gone, and its caches with it.
Forget(c) ==
  /\ Goto(c, "down")
  /\ nbCache' = [nbCache EXCEPT ![c] = NoRows]
  /\ hidden'  = [hidden  EXCEPT ![c] = {}]
  /\ local'   = [local   EXCEPT ![c] = {}]
  /\ refresh' = [refresh EXCEPT ![c] = "done"]
  /\ pending' = [pending EXCEPT ![c] = NoPending]

\* Run returns after the cleanup, which writes no Gateway_Chassis row.
Leave(c) ==
  /\ pc[c] = "leaving"
  /\ Forget(c)
  /\ UNCHANGED <<ovnVars, faults, exits>>

\* The agent is killed; with the node, or alone.
Crash(c) ==
  /\ pc[c] \in Running /\ exits < MaxExits
  /\ Forget(c)
  /\ exits' = exits + 1
  /\ up' \in {up, up \ {c}}
  /\ UNCHANGED <<prio, bound, faults>>

NodeReturns(c) ==
  /\ c \notin up
  /\ up' = up \cup {c}
  /\ UNCHANGED <<prio, bound, pc, agentVars, faults, exits>>

-----------------------------------------------------------------------------
AgentStep(c) ==
  \/ Connect(c) \/ RestoreDrainedGateways(c)
  \/ CheckLead(c) \/ BoostPriorities(c)
  \/ LowerPriorities(c) \/ PollEmpty(c) \/ PollFails(c) \/ DrainEnds(c) \/ Leave(c)

Next ==
  \/ \E l \in LRP : Release(l) \/ \E c \in Chassis : Claim(l, c)
  \/ \E c \in Chassis :
       \/ AgentStep(c) \/ MonitorUpdate(c) \/ RefreshState(c)
       \/ Stop(c) \/ Crash(c) \/ NodeReturns(c)

(***************************************************************************)
(* Fairness: OVN elects, monitors deliver, the refresh loop handles the    *)
(* events it has, and the agent's own thread takes its steps (it           *)
(* reconciles at the latest every reconcile_interval; its waits all have a *)
(* deadline).  Failures, exits, and refreshes that nothing asks for are    *)
(* never forced to happen.                                                 *)
(***************************************************************************)
Fairness ==
  /\ \A l \in LRP : WF_vars(\E c \in Chassis : Claim(l, c))
  /\ \A c \in Chassis :
       /\ WF_vars(AgentStep(c))
       /\ WF_vars(MonitorUpdate(c))
       /\ WF_vars(refresh[c] = "due" /\ RefreshState(c))
       /\ WF_vars(NodeReturns(c))

Spec     == Init /\ [][Next]_vars
FairSpec == Spec /\ Fairness

-----------------------------------------------------------------------------
(* Properties *)

(***************************************************************************)
(* a leads on l: it holds the port, no row and no boost that is already on *)
(* its way comes near its priority.                                        *)
(***************************************************************************)
Leads(a, l) ==
  /\ bound[l] = a /\ a \in up /\ pc[a] \in Live
  /\ prio[l][a] >= minActivePriority
  /\ \A d \in Chassis \ {a} :
       prio[l][d] < prio[l][a] /\ pending[d][l] < prio[l][a]

(***************************************************************************)
(* No reverse failover: while the agent of the leading chassis lives,      *)
(* nothing any agent does (a restart that restores its rows, a boost on a  *)
(* stale snapshot, a drain) and no election takes its lead or its port     *)
(* away (EnsureActivePriorityLead, RestoreDrainedGateways).                *)
(***************************************************************************)
LeadKept(a, l) == Leads(a, l) /\ a \in up' /\ pc'[a] \in Live => Leads(a, l)'

NoReverseFailover == [][\A a \in Chassis, l \in LRP : LeadKept(a, l)]_vars

(***************************************************************************)
(* A drained chassis is left alone: while DrainGateways polls or holds, no *)
(* port comes back to it as long as a live peer is not drained itself, so  *)
(* the routes withdrawn after the hold are not needed here any more.  This *)
(* is about the ports whose own row the drain can reach: it is in the      *)
(* cache, or none is, and the fallback select of issue #115 finds it.      *)
(***************************************************************************)
Reached(c, l) == <<l, c>> \notin hidden[c] \/ ~HasLocalRow(c)

ComesBack(c, l) ==
  /\ pc[c] \in {"polling", "settling"} /\ Reached(c, l)
  /\ bound[l] # c /\ bound'[l] = c
  /\ \E d \in up \ {c} : prio[l][d] > 0

DrainedStaysAway == [][\A c \in Chassis, l \in LRP : ~ComesBack(c, l)]_vars

(***************************************************************************)
(* A drain is not skipped: DrainGateways ends without a transaction only   *)
(* after a failure, or when no row it can reach is above 0, also when the  *)
(* monitor has delivered none of them (issue #115).                        *)
(***************************************************************************)
Skips(c, l) ==
  /\ pc[c] = "drain" /\ pc'[c] = "leaving" /\ faults' = faults
  /\ Reached(c, l) /\ prio[l][c] > 0

DrainNotSkipped == [][\A c \in Chassis, l \in LRP : ~Skips(c, l)]_vars

(***************************************************************************)
(* What all of these rest on.  An agent is never behind on its own rows, since     *)
(* nobody else writes them (unless the reply to a write was lost) ...      *)
(***************************************************************************)
OwnRowsExact ==
  \A c \in Chassis, l \in LRP :
    pc[c] \in Running =>
      nbCache[c][l][c] = IF <<l, c>> \in hidden[c] THEN NoRow ELSE prio[l][c]

(***************************************************************************)
(* ... so that a boost, decided on a cache and written later, only ever    *)
(* raises the row it writes (EnsureActivePriorityLead) ...                 *)
(***************************************************************************)
BoostRaises ==
  \A c \in Chassis, l \in LRP :
    pending[c][l] # NoRow => pc[c] = "boost" /\ pending[c][l] > prio[l][c]

\* ... and a drain leaves no row above 0 that it can reach (DrainGateways).
DrainedRows ==
  \A c \in Chassis, l \in LRP :
    pc[c] \in {"polling", "settling"} /\ Reached(c, l) => prio[l][c] <= 0

(***************************************************************************)
(* After the last exit and the last failure OVN and the agents settle:     *)
(* every port stays on a live chassis, and if its agent runs and knows     *)
(* that it holds the port, that chassis is strictly ahead of its peers and *)
(* at 2 at least.  It knows, unless its last refreshState failed.          *)
(***************************************************************************)
Unaware(c, l) == l \notin local[c] /\ refresh[c] = "failed"

Settled(l) ==
  /\ bound[l] \in Winners(l)
  /\ pc[bound[l]] \in Live /\ l \in Tracked =>
       Leads(bound[l], l) \/ Unaware(bound[l], l)

LeadEstablished ==
  <>[](\A l \in LRP : (\E c \in up : prio[l][c] # NoRow) => Settled(l))

(***************************************************************************)
(* Shutdown ends: a drain that nobody takes over still ends by its         *)
(* timeout, and the agent exits (DrainGateways, settleAfterDrain).         *)
(***************************************************************************)
ShutdownEnds == \A c \in Chassis : pc[c] = "drain" ~> pc[c] = "down"

(***************************************************************************)
(* Priorities do not run away: when OVN ends its elections before the      *)
(* agents read them, an exit or a failure costs at most one step of the    *)
(* priority range per chassis, a range that the schema limits              *)
(* (EnsureActivePriorityLead).  One per chassis, and not less: all agents  *)
(* may have the same boost on its way, and of those that tie each time all *)
(* but one may go a step higher.                                           *)
(***************************************************************************)
PriorityGrowth ==
  \A l \in LRP, c \in Chassis :
    prio[l][c] < Max(InitPriorities \cup {minActivePriority})
                 + Cardinality(Chassis) * (1 + exits + faults)

(***************************************************************************)
(* What the documents of the repository say, and the code does not         *)
(* guarantee: a run expects a counterexample.                              *)
(***************************************************************************)

\* gateway-drain.md: "When the old chassis restarts and restores to priority 1,
\* the active chassis is already at 2 - no tie, no switchback".
RestoreBelowActive ==
  [][\A c \in Chassis, l \in LRP :
       /\ pc[c] = "restore" /\ prio[l][c] = 0 /\ prio'[l][c] = 1
       /\ bound[l] \in up \ {c} /\ pc[bound[l]] = "running"
       => prio[l][bound[l]] >= minActivePriority]_vars

=============================================================================
