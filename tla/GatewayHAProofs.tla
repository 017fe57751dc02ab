-------------------------- MODULE GatewayHAProofs --------------------------
(***************************************************************************)
(* Proofs about GatewayHA, for every set of chassis and ports: types, and  *)
(* the two promises of the priority protocol, the lead that is kept and    *)
(* the drain that is final.                                                *)
(***************************************************************************)
EXTENDS GatewayHA, WellFoundedInduction, TLAPS

\* A nonempty set of integers with an upper bound has a maximum, and Max is it.
LEMMA BoundedMax ==
  ASSUME NEW m \in Nat, NEW S \in SUBSET (-1 .. m), S # {}
  PROVE  /\ Max(S) \in S
         /\ \A y \in S : Max(S) >= y
<1> DEFINE T == {n \in Nat : m - n \in S}
<1>1. T \subseteq Nat /\ T # {}
  <2>1. PICK x \in S : x \in -1 .. m
    OBVIOUS
  <2>2. m - x \in Nat /\ m - (m - x) = x
    BY <2>1
  <2>3. m - x \in T
    BY <2>2
  <2> QED BY <2>3
<1>2. PICK t \in T : \A u \in T : ~(<<u, t>> \in OpToRel(<, Nat))
  BY <1>1, NatLessThanWellFounded, WFMin
<1>3. \A u \in T : ~(u < t)
  BY <1>1, <1>2 DEF OpToRel
<1>4. m - t \in S
  OBVIOUS
<1>5. ASSUME NEW y \in S PROVE m - t >= y
  <2>1. y \in Int /\ m - y \in Nat /\ m - (m - y) = y
    OBVIOUS
  <2>2. m - y \in T
    BY <2>1
  <2> QED BY <1>3, <2>1, <2>2
<1> QED BY <1>5, <1>4 DEF Max

\* What a monitor shows of typed rows is typed rows.
LEMMA MonitorViewType ==
  ASSUME NEW p \in [LRP -> [Chassis -> Priority]], NEW h
  PROVE  MonitorView(p, h) \in [LRP -> [Chassis -> Priority]]
BY HAAssumption DEF MonitorView, Priority, NoRow

\* A transaction of admissible priorities leaves typed rows.
LEMMA WithRowsType ==
  ASSUME NEW p \in [LRP -> [Chassis -> Priority]], NEW c \in Chassis,
         NEW S, NEW new \in [LRP -> Int],
         \A l \in S : new[l] <= MaxPriority, \A l \in S \cap LRP : new[l] >= 0
  PROVE  WithRows(p, c, S, new) \in [LRP -> [Chassis -> Priority]]
BY HAAssumption DEF WithRows, Priority, NoRow

\* The highest peer a cache shows is a priority, or NoRow.
LEMMA MaxPeerType ==
  ASSUME TypeOK, NEW c \in Chassis, NEW l \in LRP
  PROVE  MaxPeer(c, l) \in Priority
<1> DEFINE S == {NoRow} \cup {nbCache[c][l][d] : d \in Chassis \ {c}}
<1>1. S \in SUBSET (-1 .. MaxPriority) /\ S # {}
  BY HAAssumption DEF TypeOK, Priority, NoRow
<1>2. Max(S) \in S
  BY <1>1, BoundedMax, HAAssumption
<1> QED BY <1>1, <1>2 DEF MaxPeer, Priority, NoRow

\* A boost is at least minActivePriority, above the peers the cache shows, and at
\* most one above the range.
LEMMA BoostTargetType ==
  ASSUME TypeOK, NEW c \in Chassis, NEW l \in LRP
  PROVE  /\ BoostTarget(c, l) \in minActivePriority .. MaxPriority + 1
         /\ BoostTarget(c, l) > MaxPeer(c, l)
<1> DEFINE S == {MaxPeer(c, l) + 1, minActivePriority}
<1>1. MaxPeer(c, l) \in -1 .. MaxPriority
  BY MaxPeerType DEF Priority, NoRow
<1>2. S \in SUBSET (-1 .. MaxPriority + 1) /\ S # {} /\ MaxPriority + 1 \in Nat
  BY <1>1, HAAssumption DEF minActivePriority
<1>3. Max(S) \in S /\ \A y \in S : Max(S) >= y
  BY <1>2, BoundedMax
<1> QED BY <1>1, <1>2, <1>3, HAAssumption DEF BoostTarget, minActivePriority

\* What EnsureActivePriorityLead decides to write is typed.
LEMMA BoostsType ==
  ASSUME TypeOK, NEW c \in Chassis, NEW confirmed \in BOOLEAN
  PROVE  Boosts(c, confirmed) \in [LRP -> NoRow .. MaxPriority + 1]
<1>1. \A l \in LRP : BoostTarget(c, l) \in NoRow .. MaxPriority + 1
  BY BoostTargetType, HAAssumption DEF minActivePriority, NoRow
<1>2. NoRow \in NoRow .. MaxPriority + 1
  BY HAAssumption DEF NoRow
<1> QED BY <1>1, <1>2 DEF Boosts

\* The event handlers leave typed refresh requests.
LEMMA NotifyType ==
  ASSUME TypeOK, Notify
  PROVE  refresh' \in [Chassis -> {"due", "done", "failed"}]
BY DEF TypeOK, Notify

\* transactOps keeps the rows, the caches and the fault counter typed.
LEMMA TransactType ==
  ASSUME TypeOK, NEW c \in Chassis, NEW S \in SUBSET LRP, NEW new \in [LRP -> Int],
         \A l \in S : new[l] >= 0,
         TransactOk(c, S, new) \/ TransactFails(c, S, new)
  PROVE  /\ prio' \in [LRP -> [Chassis -> Priority]]
         /\ nbCache' \in [Chassis -> [LRP -> [Chassis -> Priority]]]
         /\ faults' \in 0 .. MaxFaults
         /\ bound' = bound
         /\ refresh' \in [Chassis -> {"due", "done", "failed"}]
<1>1. prio' \in [LRP -> [Chassis -> Priority]]
  <2>1. CASE prio' = prio
    BY <2>1 DEF TypeOK
  <2>2. CASE (\A l \in S : new[l] <= MaxPriority) /\ prio' = WithRows(prio, c, S, new)
    BY <2>2, WithRowsType DEF TypeOK
  <2> QED BY <2>1, <2>2 DEF TransactOk, TransactFails
<1>2. nbCache' \in [Chassis -> [LRP -> [Chassis -> Priority]]]
  <2>1. MonitorView(prio', hidden[c]) \in [LRP -> [Chassis -> Priority]]
    BY <1>1, MonitorViewType
  <2> QED BY <2>1 DEF TypeOK, TransactOk, TransactFails
<1>3. faults' \in 0 .. MaxFaults
  BY HAAssumption DEF TypeOK, TransactOk, TransactFails, Fault
<1>4. refresh' \in [Chassis -> {"due", "done", "failed"}]
  BY NotifyType DEF TransactOk, TransactFails
<1> QED BY <1>1, <1>2, <1>3, <1>4 DEF TransactOk, TransactFails

\* Every step keeps the types.
LEMMA TypeInvariant == TypeOK /\ [Next]_vars => TypeOK'
<1> SUFFICES ASSUME TypeOK, [Next]_vars PROVE TypeOK'
  OBVIOUS
<1> USE HAAssumption
<1>0. CASE UNCHANGED vars
  BY <1>0 DEF TypeOK, vars, ovnVars, agentVars
<1>1. ASSUME NEW l \in LRP, Release(l) PROVE TypeOK'
  BY <1>1, NotifyType DEF Release, TypeOK
<1>2. ASSUME NEW l \in LRP, NEW c \in Chassis, Claim(l, c) PROVE TypeOK'
  BY <1>2, NotifyType, HAAssumption DEF Claim, Winners, Candidates, TypeOK
<1>3. ASSUME NEW c \in Chassis, Connect(c) PROVE TypeOK'
  <2>1. PICK h \in SUBSET (LRP \X Chassis) :
          /\ hidden'  = [hidden EXCEPT ![c] = h]
          /\ nbCache' = [nbCache EXCEPT ![c] = MonitorView(prio, h)]
    BY <1>3 DEF Connect
  <2>2. MonitorView(prio, h) \in [LRP -> [Chassis -> Priority]]
    BY MonitorViewType DEF TypeOK
  <2>3. hidden' \in [Chassis -> SUBSET (LRP \X Chassis)]
        /\ nbCache' \in [Chassis -> [LRP -> [Chassis -> Priority]]]
    BY <2>1, <2>2 DEF TypeOK
  <2>4. local' \in [Chassis -> SUBSET LRP]
    BY <1>3 DEF Connect, TypeOK, LocalRouters
  <2>5. faults' \in 0 .. MaxFaults
    BY <1>3 DEF Connect, TypeOK, Fault
  <2>6. pc' \in [Chassis -> Phase]
    BY <1>3 DEF Connect, TypeOK, Goto, Phase, Live
  <2>7. refresh' \in [Chassis -> {"due", "done", "failed"}]
    BY <1>3 DEF Connect, TypeOK
  <2> QED BY <1>3, <2>3, <2>4, <2>5, <2>6, <2>7 DEF Connect, TypeOK, ovnVars
<1>4. ASSUME NEW c \in Chassis, RestoreDrainedGateways(c) PROVE TypeOK'
  <2> DEFINE S == {l \in LRP : OwnRow(c, l) = 0}
             new == [l \in LRP |-> 1]
  <2>1. /\ prio' \in [LRP -> [Chassis -> Priority]]
        /\ nbCache' \in [Chassis -> [LRP -> [Chassis -> Priority]]]
        /\ faults' \in 0 .. MaxFaults
        /\ bound' = bound
        /\ refresh' \in [Chassis -> {"due", "done", "failed"}]
    <3>1. CASE TransactOk(c, S, new) \/ TransactFails(c, S, new)
      <4>1. S \in SUBSET LRP /\ new \in [LRP -> Int] /\ \A l \in S : new[l] >= 0
        OBVIOUS
      <4> HIDE DEF S, new
      <4> QED BY <3>1, <4>1, TransactType
    <3>2. CASE (SelectFails(c) \/ UNCHANGED faults) /\ NoTransaction
      BY <3>2 DEF SelectFails, Fault, NoTransaction, TypeOK
    <3> QED BY <1>4, <3>1, <3>2 DEF RestoreDrainedGateways
  <2>2. pc' \in [Chassis -> Phase]
    BY <1>4 DEF RestoreDrainedGateways, TypeOK, Goto, Phase, Live
  <2> QED BY <1>4, <2>1, <2>2 DEF RestoreDrainedGateways, TypeOK
<1>5. ASSUME NEW c \in Chassis, CheckLead(c) PROVE TypeOK'
  <2>1. Boosts(c, TRUE) \in [LRP -> NoRow .. MaxPriority + 1]
        /\ Boosts(c, FALSE) \in [LRP -> NoRow .. MaxPriority + 1]
    BY BoostsType
  <2>2. pending' \in [Chassis -> [LRP -> NoRow .. MaxPriority + 1]]
    BY <1>5, <2>1 DEF CheckLead, TypeOK
  <2>3. faults' \in 0 .. MaxFaults
    <3>1. UNCHANGED faults \/ (faults < MaxFaults /\ faults' = faults + 1)
      BY <1>5 DEF CheckLead, SelectFails, Fault
    <3> QED BY <3>1 DEF TypeOK
  <2>4. pc' \in [Chassis -> Phase]
    BY <1>5 DEF CheckLead, TypeOK, Goto, Phase, Live
  <2> QED BY <1>5, <2>2, <2>3, <2>4 DEF CheckLead, TypeOK, ovnVars
<1>6. ASSUME NEW c \in Chassis, BoostPriorities(c) PROVE TypeOK'
  <2> DEFINE S == {l \in LRP : pending[c][l] # NoRow}
  <2>1. pending[c] \in [LRP -> Int] /\ \A l \in S : pending[c][l] >= 0
    <3>1. pending[c] \in [LRP -> -1 .. MaxPriority + 1]
      BY DEF TypeOK, NoRow
    <3> QED BY <3>1 DEF NoRow
  <2>2. /\ prio' \in [LRP -> [Chassis -> Priority]]
        /\ nbCache' \in [Chassis -> [LRP -> [Chassis -> Priority]]]
        /\ faults' \in 0 .. MaxFaults
        /\ bound' = bound
        /\ refresh' \in [Chassis -> {"due", "done", "failed"}]
    BY <1>6, <2>1, TransactType DEF BoostPriorities
  <2>3. pc' \in [Chassis -> Phase]
    BY <1>6 DEF BoostPriorities, TypeOK, Goto, Phase, Live
  <2>4. pending' \in [Chassis -> [LRP -> NoRow .. MaxPriority + 1]]
    BY <1>6 DEF BoostPriorities, TypeOK, NoPending, NoRow
  <2> QED BY <1>6, <2>2, <2>3, <2>4 DEF BoostPriorities, TypeOK
<1>7. ASSUME NEW c \in Chassis, LowerPriorities(c) PROVE TypeOK'
  <2> DEFINE S == DrainCandidates(c)
             new == [l \in LRP |-> DrainPriority]
  <2>1. /\ prio' \in [LRP -> [Chassis -> Priority]]
        /\ nbCache' \in [Chassis -> [LRP -> [Chassis -> Priority]]]
        /\ faults' \in 0 .. MaxFaults
        /\ bound' = bound
        /\ refresh' \in [Chassis -> {"due", "done", "failed"}]
    <3>1. CASE TransactOk(c, S, new) \/ TransactFails(c, S, new)
      <4>1. S \in SUBSET LRP /\ new \in [LRP -> Int] /\ \A l \in S : new[l] >= 0
        BY DEF DrainCandidates, DrainPriority
      <4> HIDE DEF S, new
      <4> QED BY <3>1, <4>1, TransactType
    <3>2. CASE (SelectFails(c) \/ UNCHANGED faults) /\ NoTransaction
      BY <3>2 DEF SelectFails, Fault, NoTransaction, TypeOK
    <3> QED BY <1>7, <3>1, <3>2 DEF LowerPriorities
  <2>2. pc' \in [Chassis -> Phase]
    BY <1>7 DEF LowerPriorities, TypeOK, Goto, Phase, Live
  <2> QED BY <1>7, <2>1, <2>2 DEF LowerPriorities, TypeOK
<1>8. ASSUME NEW c \in Chassis, PollEmpty(c) \/ PollFails(c) \/ DrainEnds(c)
      PROVE TypeOK'
  <2>1. pc' \in [Chassis -> Phase]
    BY <1>8 DEF PollEmpty, PollFails, DrainEnds, TypeOK, Goto, Phase
  <2>2. UNCHANGED <<ovnVars, agentVars, exits>>
    BY <1>8 DEF PollEmpty, PollFails, DrainEnds
  <2>3. faults' \in 0 .. MaxFaults
    BY <1>8 DEF PollEmpty, PollFails, DrainEnds, Fault, TypeOK
  <2> QED BY <2>1, <2>2, <2>3 DEF TypeOK, ovnVars, agentVars
<1>9. ASSUME NEW c \in Chassis, Forget(c)
      PROVE  /\ pc' \in [Chassis -> Phase]
             /\ nbCache' \in [Chassis -> [LRP -> [Chassis -> Priority]]]
             /\ hidden' \in [Chassis -> SUBSET (LRP \X Chassis)]
             /\ local' \in [Chassis -> SUBSET LRP]
             /\ refresh' \in [Chassis -> {"due", "done", "failed"}]
             /\ pending' \in [Chassis -> [LRP -> NoRow .. MaxPriority + 1]]
  <2>1. NoRows \in [LRP -> [Chassis -> Priority]]
        /\ NoPending \in [LRP -> NoRow .. MaxPriority + 1]
    BY DEF NoRows, NoPending, Priority, NoRow
  <2> QED BY <1>9, <2>1 DEF Forget, TypeOK, Goto, Phase
<1>10. ASSUME NEW c \in Chassis, Leave(c) PROVE TypeOK'
  BY <1>9, <1>10 DEF Leave, TypeOK, ovnVars
<1>11. ASSUME NEW c \in Chassis, Crash(c) PROVE TypeOK'
  BY <1>9, <1>11 DEF Crash, TypeOK
<1>12. ASSUME NEW c \in Chassis, MonitorUpdate(c) PROVE TypeOK'
  <2>1. MonitorView(prio, hidden[c]) \in [LRP -> [Chassis -> Priority]]
    BY MonitorViewType DEF TypeOK
  <2> QED BY <1>12, <2>1 DEF MonitorUpdate, TypeOK, ovnVars
<1>13. ASSUME NEW c \in Chassis, RefreshState(c) PROVE TypeOK'
  <2>1. faults' \in 0 .. MaxFaults
    BY <1>13 DEF RefreshState, Fault, TypeOK
  <2>2. LocalRouters(c) \in SUBSET LRP
    BY DEF LocalRouters
  <2>3. local' \in [Chassis -> SUBSET LRP]
    BY <1>13, <2>2 DEF RefreshState, TypeOK
  <2>4. refresh' \in [Chassis -> {"due", "done", "failed"}]
    BY <1>13 DEF RefreshState, TypeOK
  <2> QED BY <1>13, <2>1, <2>3, <2>4 DEF RefreshState, TypeOK, ovnVars
<1>14. ASSUME NEW c \in Chassis, Stop(c) PROVE TypeOK'
  BY <1>14 DEF Stop, TypeOK, Goto, Phase, Live, ovnVars, agentVars
<1>15. ASSUME NEW c \in Chassis, NodeReturns(c) PROVE TypeOK'
  BY <1>15 DEF NodeReturns, TypeOK, agentVars
<1> QED
  BY <1>0, <1>1, <1>2, <1>3, <1>4, <1>5, <1>6, <1>7, <1>8, <1>10, <1>11, <1>12, <1>13,
     <1>14, <1>15 DEF Next, AgentStep

\* The initial states are typed.
LEMMA InitType == Init => TypeOK
<1> SUFFICES ASSUME Init PROVE TypeOK
  OBVIOUS
<1>1. prio \in [LRP -> [Chassis -> Priority]]
  BY HAAssumption DEF Init
<1>2. NoRows \in [LRP -> [Chassis -> Priority]]
      /\ NoPending \in [LRP -> NoRow .. MaxPriority + 1]
  BY HAAssumption DEF NoRows, NoPending, Priority, NoRow
<1> QED BY <1>1, <1>2, HAAssumption DEF Init, TypeOK, Phase

(***************************************************************************)
(* Type correctness: priorities stay within what the NB schema admits and  *)
(* every agent is in a phase of Agent.Run, in every deployment.            *)
(***************************************************************************)
THEOREM TypeCorrect == Spec => []TypeOK
BY InitType, TypeInvariant, PTL DEF Spec

-----------------------------------------------------------------------------
(* The lead of the active chassis *)

\* A transaction changes the rows it names and no others.
LEMMA WithRowsAt ==
  ASSUME NEW p \in [LRP -> [Chassis -> Priority]], NEW c \in Chassis, NEW S, NEW new,
         NEW l \in LRP, NEW d \in Chassis
  PROVE  WithRows(p, c, S, new)[l][d] =
           IF d = c /\ l \in S THEN new[l] ELSE p[l][d]
BY DEF WithRows

\* A transaction of c leaves the rows of the other chassis alone, and c's own
\* rows as the cache of c shows them.
LEMMA TransactRows ==
  ASSUME TypeOK, "lost" \notin Faults, NEW c \in Chassis, NEW S, NEW new,
         TransactOk(c, S, new) \/ TransactFails(c, S, new)
  PROVE  /\ prio' = prio \/ prio' = WithRows(prio, c, S, new)
         /\ \A d \in Chassis, l \in LRP : d # c => prio'[l][d] = prio[l][d]
         /\ \A d \in Chassis : d # c => nbCache'[d] = nbCache[d]
         /\ \/ UNCHANGED <<prio, nbCache>>
            \/ nbCache'[c] = MonitorView(prio', hidden[c])
<1>1. CASE TransactOk(c, S, new)
  <2>1. /\ prio' = WithRows(prio, c, S, new)
        /\ nbCache' = [nbCache EXCEPT ![c] = MonitorView(prio', hidden[c])]
    BY <1>1 DEF TransactOk
  <2>2. /\ prio \in [LRP -> [Chassis -> Priority]]
        /\ nbCache \in [Chassis -> [LRP -> [Chassis -> Priority]]]
    BY DEF TypeOK
  <2>3. ASSUME NEW d \in Chassis, NEW l \in LRP, d # c PROVE prio'[l][d] = prio[l][d]
    <3>1. WithRows(prio, c, S, new)[l][d] = prio[l][d]
      BY <2>2, <2>3 DEF WithRows
    <3> QED BY <2>1, <3>1
  <2> QED BY <2>1, <2>2, <2>3
<1>2. CASE TransactFails(c, S, new)
  BY <1>2 DEF TransactFails, Fault
<1> QED BY <1>1, <1>2

\* An agent that is exact on its own rows reads them right, cached or selected.
LEMMA OwnRowExact ==
  ASSUME TypeOK, OwnRowsExact, NEW c \in Chassis, NEW l \in LRP,
         pc[c] \in Running, OwnRow(c, l) # NoRow
  PROVE  OwnRow(c, l) = prio[l][c]
BY DEF OwnRowsExact, OwnRow

\* A boost decided on exact own rows is above the row it will replace.
LEMMA BoostsRaise ==
  ASSUME TypeOK, OwnRowsExact, NEW c \in Chassis, NEW l \in LRP,
         pc[c] \in Running, NEW confirmed \in BOOLEAN,
         Boosts(c, confirmed)[l] # NoRow
  PROVE  Boosts(c, confirmed)[l] > prio[l][c]
<1>1. /\ OwnRow(c, l) # NoRow
      /\ ~HasLead(c, l)
      /\ Boosts(c, confirmed)[l] = BoostTarget(c, l)
  BY DEF Boosts
<1>2. OwnRow(c, l) = prio[l][c]
  BY <1>1, OwnRowExact
<1>3. /\ BoostTarget(c, l) \in minActivePriority .. MaxPriority + 1
      /\ BoostTarget(c, l) > MaxPeer(c, l)
  BY BoostTargetType
<1>4. prio[l][c] \in Int /\ MaxPeer(c, l) \in Int
  BY MaxPeerType DEF TypeOK, Priority, NoRow
<1> QED BY <1>1, <1>2, <1>3, <1>4, HAAssumption DEF HasLead, minActivePriority

LeadInv == TypeOK /\ OwnRowsExact /\ BoostRaises

\* Every step keeps OwnRowsExact and BoostRaises, if no reply is lost.
LEMMA LeadInvariant ==
  ASSUME "lost" \notin Faults
  PROVE  LeadInv /\ [Next]_vars => LeadInv'
<1> SUFFICES ASSUME LeadInv, [Next]_vars PROVE OwnRowsExact' /\ BoostRaises'
  BY TypeInvariant DEF LeadInv
<1> USE DEF LeadInv
<1>t. TypeOK /\ TypeOK'
  BY TypeInvariant
<1>0. CASE UNCHANGED vars
  BY <1>0 DEF OwnRowsExact, BoostRaises, vars, ovnVars, agentVars
<1>1. ASSUME NEW l \in LRP, Release(l) \/ \E c \in Chassis : Claim(l, c)
      PROVE  OwnRowsExact' /\ BoostRaises'
  BY <1>1 DEF Release, Claim, OwnRowsExact, BoostRaises, agentVars
<1>2. ASSUME NEW c \in Chassis, Connect(c) PROVE OwnRowsExact' /\ BoostRaises'
  <2>1. PICK h : /\ hidden'  = [hidden EXCEPT ![c] = h]
                 /\ nbCache' = [nbCache EXCEPT ![c] = MonitorView(prio, h)]
    BY <1>2 DEF Connect
  <2>2. /\ UNCHANGED <<prio, pending>> /\ pc[c] = "down"
        /\ \A d \in Chassis \ {c} : pc'[d] = pc[d]
    BY <1>2 DEF Connect, Goto, TypeOK, ovnVars
  <2>3. OwnRowsExact'
    BY <2>1, <2>2 DEF OwnRowsExact, MonitorView, TypeOK
  <2>4. BoostRaises'
    BY <2>2 DEF BoostRaises
  <2> QED BY <2>3, <2>4
<1>3. ASSUME NEW c \in Chassis, NEW S, NEW new,
             TransactOk(c, S, new) \/ TransactFails(c, S, new),
             UNCHANGED hidden, pc[c] \in Running,
             \A d \in Chassis \ {c} : pc'[d] = pc[d]
      PROVE  OwnRowsExact'
  <2> DEFINE Exact(d, l) ==
               nbCache[d][l][d] = IF <<l, d>> \in hidden[d] THEN NoRow ELSE prio[l][d]
  <2>1. /\ \A d \in Chassis, l \in LRP : d # c => prio'[l][d] = prio[l][d]
        /\ \A d \in Chassis : d # c => nbCache'[d] = nbCache[d]
        /\ \/ UNCHANGED <<prio, nbCache>>
           \/ nbCache'[c] = MonitorView(prio', hidden[c])
    BY <1>3, <1>t, TransactRows
  <2>2. ASSUME NEW d \in Chassis, NEW l \in LRP, pc'[d] \in Running PROVE Exact(d, l)'
    <3>1. CASE d # c
      BY <1>3, <2>1, <2>2, <3>1 DEF OwnRowsExact
    <3>2. CASE d = c /\ UNCHANGED <<prio, nbCache>>
      BY <1>3, <3>2 DEF OwnRowsExact
    <3>3. CASE d = c /\ nbCache'[c] = MonitorView(prio', hidden[c])
      BY <1>3, <3>3 DEF MonitorView
    <3> QED BY <2>1, <3>1, <3>2, <3>3
  <2> QED BY <2>2 DEF OwnRowsExact
<1>4. ASSUME NEW c \in Chassis, NEW S, NEW new,
             TransactOk(c, S, new) \/ TransactFails(c, S, new),
             \A d \in Chassis \ {c} : pc'[d] = pc[d],
             pending' = [pending EXCEPT ![c] = NoPending]
      PROVE  BoostRaises'
  BY <1>4, <1>t, TransactRows DEF BoostRaises, NoPending, TypeOK
<1>5. ASSUME NEW c \in Chassis, pc[c] # "boost" PROVE pending[c] = NoPending
  <2>1. \A l \in LRP : pending[c][l] = NoRow
    BY <1>5 DEF BoostRaises
  <2>2. pending[c] \in [LRP -> NoRow .. MaxPriority + 1]
    BY DEF TypeOK
  <2> QED BY <2>1, <2>2 DEF NoPending
<1>6. ASSUME NEW c \in Chassis, pc[c] # "boost", UNCHANGED pending
      PROVE  pending' = [pending EXCEPT ![c] = NoPending]
  BY <1>5, <1>6 DEF TypeOK
<1>7. ASSUME NEW c \in Chassis, UNCHANGED <<prio, nbCache, hidden, pending>>,
             pc[c] \in Running, pc[c] # "boost",
             \A d \in Chassis \ {c} : pc'[d] = pc[d]
      PROVE  OwnRowsExact' /\ BoostRaises'
  BY <1>7 DEF OwnRowsExact, BoostRaises
<1>8. ASSUME NEW c \in Chassis, RestoreDrainedGateways(c)
      PROVE  OwnRowsExact' /\ BoostRaises'
  <2> DEFINE S == {l \in LRP : OwnRow(c, l) = 0}
             new == [l \in LRP |-> 1]
  <2>1. /\ UNCHANGED <<hidden, pending>> /\ pc[c] = "restore" /\ pc[c] \in Running
        /\ \A d \in Chassis \ {c} : pc'[d] = pc[d]
        /\ \/ UNCHANGED <<prio, nbCache>>
           \/ TransactOk(c, S, new) \/ TransactFails(c, S, new)
    BY <1>8 DEF RestoreDrainedGateways, NoTransaction, Goto, Running, Phase, Live, TypeOK
  <2> HIDE DEF S, new
  <2> QED BY <2>1, <1>3, <1>4, <1>6, <1>7
<1>9. ASSUME NEW c \in Chassis, LowerPriorities(c)
      PROVE  OwnRowsExact' /\ BoostRaises'
  <2> DEFINE S == DrainCandidates(c)
             new == [l \in LRP |-> DrainPriority]
  <2>1. /\ UNCHANGED <<hidden, pending>> /\ pc[c] = "drain" /\ pc[c] \in Running
        /\ \A d \in Chassis \ {c} : pc'[d] = pc[d]
        /\ \/ UNCHANGED <<prio, nbCache>>
           \/ TransactOk(c, S, new) \/ TransactFails(c, S, new)
    BY <1>9 DEF LowerPriorities, NoTransaction, Goto, Running, Phase, Live, TypeOK
  <2> HIDE DEF S, new
  <2> QED BY <2>1, <1>3, <1>4, <1>6, <1>7
<1>10. ASSUME NEW c \in Chassis, BoostPriorities(c)
       PROVE  OwnRowsExact' /\ BoostRaises'
  <2> DEFINE S == {l \in LRP : pending[c][l] # NoRow}
  <2>1. /\ UNCHANGED hidden /\ pc[c] \in Running
        /\ pending' = [pending EXCEPT ![c] = NoPending]
        /\ \A d \in Chassis \ {c} : pc'[d] = pc[d]
        /\ TransactOk(c, S, pending[c]) \/ TransactFails(c, S, pending[c])
    BY <1>10 DEF BoostPriorities, Goto, Running, Phase, Live, TypeOK
  <2> HIDE DEF S
  <2> QED BY <2>1, <1>3, <1>4
<1>11. ASSUME NEW c \in Chassis, CheckLead(c) PROVE OwnRowsExact' /\ BoostRaises'
  <2>1. /\ UNCHANGED <<prio, nbCache, hidden>>
        /\ pc[c] \in Running /\ pc[c] # "boost"
        /\ \A d \in Chassis \ {c} : pc'[d] = pc[d]
        /\ pc'[c] = IF pending'[c] = NoPending THEN "running" ELSE "boost"
    BY <1>11 DEF CheckLead, Goto, Running, Phase, Live, TypeOK, ovnVars
  <2>2. \/ UNCHANGED pending
        \/ \E confirmed \in BOOLEAN :
             pending' = [pending EXCEPT ![c] = Boosts(c, confirmed)]
    BY <1>11 DEF CheckLead
  <2>3. CASE UNCHANGED pending
    BY <1>7, <2>1, <2>3
  <2>4. ASSUME NEW confirmed \in BOOLEAN,
               pending' = [pending EXCEPT ![c] = Boosts(c, confirmed)]
        PROVE  BoostRaises'
    <3>1. \A l \in LRP : Boosts(c, confirmed)[l] # NoRow =>
                           Boosts(c, confirmed)[l] > prio[l][c]
      BY <2>1, BoostsRaise
    <3>2. \A l \in LRP : Boosts(c, confirmed)[l] # NoRow => pc'[c] = "boost"
      BY <2>1, <2>4 DEF NoPending, TypeOK
    <3> QED BY <2>1, <2>4, <3>1, <3>2 DEF BoostRaises, TypeOK
  <2>5. OwnRowsExact'
    BY <2>1 DEF OwnRowsExact
  <2> QED BY <2>2, <2>3, <2>4, <2>5
<1>12. ASSUME NEW c \in Chassis, PollEmpty(c) \/ PollFails(c) \/ DrainEnds(c) \/ Stop(c)
       PROVE  OwnRowsExact' /\ BoostRaises'
  <2>1. /\ UNCHANGED <<prio, nbCache, hidden, pending>>
        /\ pc[c] \in Running /\ pc[c] # "boost"
        /\ \A d \in Chassis \ {c} : pc'[d] = pc[d]
    BY <1>12 DEF PollEmpty, PollFails, DrainEnds, Stop, Goto, Running, Phase, Live,
                 TypeOK, ovnVars, agentVars
  <2> QED BY <2>1, <1>7
<1>13. ASSUME NEW c \in Chassis, Leave(c) \/ Crash(c)
       PROVE  OwnRowsExact' /\ BoostRaises'
  <2>1. Forget(c) /\ UNCHANGED prio
    BY <1>13 DEF Leave, Crash, ovnVars
  <2>2. OwnRowsExact'
    BY <2>1 DEF Forget, Goto, OwnRowsExact, Running, TypeOK
  <2>3. BoostRaises'
    BY <2>1 DEF Forget, Goto, BoostRaises, NoPending, TypeOK
  <2> QED BY <2>2, <2>3
<1>14. ASSUME NEW c \in Chassis, MonitorUpdate(c) PROVE OwnRowsExact' /\ BoostRaises'
  <2>1. /\ nbCache' = [nbCache EXCEPT ![c] = MonitorView(prio, hidden[c])]
        /\ UNCHANGED <<prio, pc, hidden, pending>>
    BY <1>14 DEF MonitorUpdate, ovnVars
  <2>2. OwnRowsExact'
    BY <2>1 DEF MonitorView, OwnRowsExact, TypeOK
  <2> QED BY <2>1, <2>2 DEF BoostRaises
<1>15. ASSUME NEW c \in Chassis, RefreshState(c) \/ NodeReturns(c)
       PROVE  OwnRowsExact' /\ BoostRaises'
  BY <1>15 DEF RefreshState, NodeReturns, OwnRowsExact, BoostRaises, ovnVars, agentVars
<1> QED
  BY <1>0, <1>1, <1>2, <1>8, <1>9, <1>10, <1>11, <1>12, <1>13, <1>14, <1>15
  DEF Next, AgentStep

\* OwnRowsExact and BoostRaises hold of every behaviour, if no reply is lost.
LEMMA LeadInvCorrect ==
  ASSUME "lost" \notin Faults
  PROVE  Spec => []LeadInv
<1>1. Init => LeadInv
  BY InitType DEF Init, LeadInv, OwnRowsExact, BoostRaises, Running, NoPending
<1> QED BY <1>1, LeadInvariant, PTL DEF Spec

(***************************************************************************)
(* A boost that is decided on a cache and written later only ever raises   *)
(* the row it writes, whatever the other agents did in between, as long as *)
(* no reply of the NB server is lost.                                      *)
(***************************************************************************)
THEOREM BoostsOnlyRaise ==
  ASSUME "lost" \notin Faults
  PROVE  Spec => []BoostRaises
BY LeadInvCorrect, PTL DEF LeadInv

\* No step takes the lead away.
LEMMA LeadStep ==
  ASSUME "lost" \notin Faults, "sbread" \notin Faults,
         LeadInv, Next, NEW a \in Chassis, NEW l \in LRP,
         Leads(a, l), a \in up', pc'[a] \in Live
  PROVE  Leads(a, l)'
<1>1. /\ TypeOK /\ TypeOK' /\ a \in Nat
      /\ bound[l] = a /\ a \in up /\ pc[a] \in Live
      /\ prio[l][a] \in Int /\ prio[l][a] >= 2
      /\ \A d \in Chassis \ {a} : prio[l][d] < prio[l][a] /\ pending[d][l] < prio[l][a]
      /\ \A d \in Chassis : prio[l][d] \in Int /\ pending[d][l] \in Int
  BY TypeInvariant, HAAssumption
  DEF LeadInv, Leads, TypeOK, minActivePriority, Priority, NoRow
<1>2. ASSUME bound'[l] = a, prio'[l][a] \in Int, prio'[l][a] >= prio[l][a],
             \A d \in Chassis \ {a} :
               prio'[l][d] < prio'[l][a] /\ pending'[d][l] < prio'[l][a]
      PROVE  Leads(a, l)'
  BY <1>1, <1>2 DEF Leads, minActivePriority
<1>3. ASSUME bound' = bound, prio' = prio, pending' = pending PROVE Leads(a, l)'
  BY <1>1, <1>3 DEF Leads, minActivePriority
<1>4. Winners(l) = {a}
  <2>1. ASSUME NEW d \in up PROVE prio[l][d] <= prio[l][a]
    <3>1. d \in Chassis
      BY <1>1 DEF TypeOK
    <3>2. prio[l][a] \in Int /\ prio[l][d] \in Int
      BY <1>1, <3>1
    <3>3. d # a => prio[l][d] < prio[l][a]
      BY <1>1, <3>1
    <3> QED BY <3>2, <3>3
  <2>2. Candidates(l) = {a}
    <3>1. a \in Candidates(l)
      BY <1>1, <2>1 DEF Candidates, NoRow
    <3>2. ASSUME NEW c \in Candidates(l) PROVE c = a
      <4>1. c \in Chassis /\ prio[l][a] <= prio[l][c]
        BY <1>1 DEF Candidates, TypeOK
      <4> QED BY <1>1, <4>1
    <3> QED BY <3>1, <3>2
  <2>3. a <= a
    BY <1>1
  <2> QED BY <2>2, <2>3 DEF Winners
<1>5. ASSUME NEW k \in LRP, Release(k) \/ \E c \in Chassis : Claim(k, c)
      PROVE  Leads(a, l)'
  <2>1. prio' = prio /\ pending' = pending
    BY <1>5 DEF Release, Claim, agentVars
  <2>2. bound'[l] = a
    BY <1>1, <1>4, <1>5 DEF Release, Claim, TypeOK
  <2> QED BY <1>1, <2>1, <2>2 DEF Leads, minActivePriority
<1>6. ASSUME NEW c \in Chassis,
             Connect(c) \/ MonitorUpdate(c) \/ RefreshState(c) \/ PollEmpty(c)
             \/ PollFails(c) \/ DrainEnds(c) \/ Stop(c) \/ NodeReturns(c)
      PROVE  Leads(a, l)'
  BY <1>6, <1>3 DEF Connect, MonitorUpdate, RefreshState, PollEmpty, PollFails,
                    DrainEnds, Stop, NodeReturns, ovnVars, agentVars
<1>7. ASSUME NEW c \in Chassis, Leave(c) \/ Crash(c) PROVE Leads(a, l)'
  <2>1. Forget(c) /\ bound' = bound /\ prio' = prio
    BY <1>7 DEF Leave, Crash, ovnVars
  <2>2. \A d \in Chassis : pending'[d][l] = pending[d][l] \/ pending'[d][l] = NoRow
    BY <2>1 DEF Forget, NoPending, LeadInv, TypeOK
  <2>3. bound'[l] = a /\ prio'[l][a] \in Int /\ prio'[l][a] >= prio[l][a]
    BY <1>1, <2>1
  <2>4. ASSUME NEW d \in Chassis \ {a}
        PROVE  prio'[l][d] < prio'[l][a] /\ pending'[d][l] < prio'[l][a]
    <3>1. prio[l][d] < prio[l][a] /\ pending[d][l] < prio[l][a]
      BY <1>1
    <3>2. pending'[d][l] < prio[l][a]
      BY <1>1, <2>2, <3>1 DEF NoRow
    <3> QED BY <2>1, <3>1, <3>2
  <2> QED BY <1>2, <2>3, <2>4
<1>8. ASSUME NEW c \in Chassis, CheckLead(c) PROVE Leads(a, l)'
  <2>1. /\ bound' = bound /\ prio' = prio
        /\ \/ pending' = pending
           \/ pending' = [pending EXCEPT ![c] = Boosts(c, TRUE)]
    BY <1>8 DEF CheckLead, Fault, ovnVars
  <2>2. c # a => Boosts(c, TRUE)[l] = NoRow
    BY <1>1, HAAssumption DEF Boosts, BoundElsewhere, None
  <2>3. \A d \in Chassis \ {a} : pending'[d][l] = pending[d][l] \/ pending'[d][l] = NoRow
    BY <2>1, <2>2 DEF LeadInv, TypeOK
  <2>4. ASSUME NEW d \in Chassis \ {a} PROVE pending'[d][l] < prio[l][a]
    <3>1. pending[d][l] < prio[l][a] /\ prio[l][a] \in Int /\ prio[l][a] >= 2
      BY <1>1
    <3> QED BY <2>3, <3>1 DEF NoRow
  <2> QED BY <1>1, <2>1, <2>4 DEF Leads, minActivePriority
<1>9. ASSUME NEW c \in Chassis, NEW S, NEW new,
             TransactOk(c, S, new) \/ TransactFails(c, S, new), bound' = bound,
             \A d \in Chassis \ {a} : pending'[d][l] \in {pending[d][l], NoRow},
             c = a => l \notin S \/ (new[l] \in Int /\ new[l] >= prio[l][a]),
             c # a => l \notin S \/ (new[l] \in Int /\ new[l] < prio[l][a])
      PROVE  Leads(a, l)'
  <2>1. \A d \in Chassis : prio'[l][d] = prio[l][d]
                            \/ (d = c /\ l \in S /\ prio'[l][d] = new[l])
    <3>1. /\ prio' = prio \/ prio' = WithRows(prio, c, S, new)
          /\ \A d \in Chassis : d # c => prio'[l][d] = prio[l][d]
      BY <1>1, <1>9, TransactRows
    <3>2. WithRows(prio, c, S, new)[l][c] = IF l \in S THEN new[l] ELSE prio[l][c]
      BY <1>1 DEF WithRows, TypeOK
    <3> QED BY <3>1, <3>2
  <2>2. bound'[l] = a /\ prio'[l][a] \in Int /\ prio'[l][a] >= prio[l][a]
    BY <1>1, <1>9, <2>1
  <2>3. ASSUME NEW d \in Chassis \ {a}
        PROVE  prio'[l][d] < prio'[l][a] /\ pending'[d][l] < prio'[l][a]
    <3>1. prio[l][d] < prio[l][a] /\ pending[d][l] < prio[l][a]
      BY <1>1
    <3>2. prio'[l][d] < prio[l][a]
      BY <1>1, <1>9, <2>1, <3>1
    <3>3. pending'[d][l] = pending[d][l] \/ pending'[d][l] = -1
      BY <1>9, Zenon DEF NoRow
    <3>4. prio'[l][d] \in Int /\ pending'[d][l] \in Int
      <4>1. prio[l][d] \in Int /\ pending[d][l] \in Int
        BY <1>1
      <4>2. prio'[l][d] = prio[l][d] \/ (d = c /\ l \in S /\ prio'[l][d] = new[l])
        BY <2>1
      <4> QED BY <1>9, <3>3, <4>1, <4>2
    <3>5. pending'[d][l] < prio[l][a]
      BY <1>1, <3>1, <3>3
    <3> QED BY <1>1, <2>2, <3>2, <3>4, <3>5
  <2> QED BY <1>2, <2>2, <2>3
<1>10. ASSUME NEW c \in Chassis, RestoreDrainedGateways(c) PROVE Leads(a, l)'
  <2> DEFINE S == {k \in LRP : OwnRow(c, k) = 0}
             new == [k \in LRP |-> 1]
  <2>1. /\ bound' = bound /\ pending' = pending /\ pc[c] \in Running
        /\ prio' = prio \/ TransactOk(c, S, new) \/ TransactFails(c, S, new)
    BY <1>10 DEF RestoreDrainedGateways, NoTransaction, TransactOk, TransactFails, Running, Phase, Live
  <2>2. c = a => l \notin S
    BY <1>1, <2>1, OwnRowExact DEF LeadInv, NoRow
  <2>3. new[l] = 1
    OBVIOUS
  <2> HIDE DEF S, new
  <2> QED BY <1>1, <1>3, <1>9, <2>1, <2>2, <2>3
<1>11. ASSUME NEW c \in Chassis, BoostPriorities(c) PROVE Leads(a, l)'
  <2> DEFINE S == {k \in LRP : pending[c][k] # NoRow}
  <2>1. /\ bound' = bound /\ pending' = [pending EXCEPT ![c] = NoPending]
        /\ TransactOk(c, S, pending[c]) \/ TransactFails(c, S, pending[c])
    BY <1>11 DEF BoostPriorities, TransactOk, TransactFails
  <2>2. l \in S => pending[c][l] > prio[l][c]
    BY DEF LeadInv, BoostRaises
  <2>3. \A d \in Chassis \ {a} : pending'[d][l] \in {pending[d][l], NoRow}
    BY <2>1 DEF NoPending, LeadInv, TypeOK
  <2> HIDE DEF S
  <2> QED BY <1>1, <1>9, <2>1, <2>2, <2>3
<1>12. ASSUME NEW c \in Chassis, LowerPriorities(c) PROVE Leads(a, l)'
  <2> DEFINE S == DrainCandidates(c)
             new == [k \in LRP |-> DrainPriority]
  <2>1. /\ bound' = bound /\ pending' = pending /\ pc[c] = "drain"
        /\ prio' = prio \/ TransactOk(c, S, new) \/ TransactFails(c, S, new)
    BY <1>12 DEF LowerPriorities, NoTransaction, TransactOk, TransactFails
  <2>2. c # a
    BY <1>1, <2>1 DEF Live
  <2>3. new[l] = 0
    BY DEF DrainPriority
  <2> HIDE DEF S, new
  <2> QED BY <1>1, <1>3, <1>9, <2>1, <2>2, <2>3
<1> QED
  BY <1>5, <1>6, <1>7, <1>8, <1>10, <1>11, <1>12 DEF Next, AgentStep

(***************************************************************************)
(* No reverse failover, for any number of chassis and ports: unless the SB *)
(* confirmation read or the reply to a priority write fails, a chassis     *)
(* that leads keeps lead and port until its own agent stops, drains or     *)
(* dies, whatever restarts, drains and stale boosts its peers go through.  *)
(***************************************************************************)
THEOREM LeadIsKept ==
  ASSUME "lost" \notin Faults, "sbread" \notin Faults
  PROVE  Spec => NoReverseFailover
<1>1. LeadInv /\ [Next]_vars =>
        [\A a \in Chassis, l \in LRP : LeadKept(a, l)]_vars
  BY LeadStep DEF LeadKept
<1> QED BY <1>1, LeadInvCorrect, PTL DEF Spec, NoReverseFailover

-----------------------------------------------------------------------------
(* The drain *)

DrainInv == LeadInv /\ DrainedRows

\* Whether the drain of c can reach its own row of l depends on the rows of c and
\* on what its monitor misses, and so does not change while these do not.
LEMMA ReachedStable ==
  ASSUME LeadInv, LeadInv', NEW c \in Chassis, NEW l \in LRP,
         pc[c] \in Running, pc'[c] \in Running, hidden'[c] = hidden[c],
         \A k \in LRP : prio'[k][c] = NoRow <=> prio[k][c] = NoRow
  PROVE  Reached(c, l)' <=> Reached(c, l)
<1>1. \A k \in LRP :
        /\ nbCache[c][k][c] = IF <<k, c>> \in hidden[c] THEN NoRow ELSE prio[k][c]
        /\ nbCache'[c][k][c] = IF <<k, c>> \in hidden[c] THEN NoRow ELSE prio'[k][c]
  BY DEF LeadInv, OwnRowsExact
<1>2. \A k \in LRP : nbCache'[c][k][c] = NoRow <=> nbCache[c][k][c] = NoRow
  BY <1>1
<1>3. HasLocalRow(c)' <=> HasLocalRow(c)
  BY <1>2 DEF HasLocalRow
<1> QED BY <1>3 DEF Reached

\* Every step keeps DrainedRows with the two invariants before.
LEMMA DrainInvariant ==
  ASSUME "lost" \notin Faults
  PROVE  DrainInv /\ [Next]_vars => DrainInv'
<1> SUFFICES ASSUME DrainInv, [Next]_vars PROVE DrainedRows'
  BY LeadInvariant DEF DrainInv
<1> DEFINE Drains == {"polling", "settling"}
<1>t. /\ TypeOK /\ OwnRowsExact /\ LeadInv /\ LeadInv'
      /\ Drains \subseteq Running
  BY LeadInvariant DEF DrainInv, LeadInv, Running, Phase
\* An agent whose rows stay and that polled before.
<1>1. ASSUME NEW d \in Chassis, hidden'[d] = hidden[d],
             \A k \in LRP : prio'[k][d] = prio[k][d],
             pc'[d] \in Drains => pc[d] \in Drains
      PROVE  \A l \in LRP : pc'[d] \in Drains /\ Reached(d, l)' => prio'[l][d] <= 0
  <2> SUFFICES ASSUME NEW l \in LRP, pc'[d] \in Drains, Reached(d, l)'
               PROVE  prio'[l][d] <= 0
    OBVIOUS
  <2>1. Reached(d, l)
    BY <1>1, <1>t, ReachedStable
  <2>2. prio[l][d] <= 0
    BY <1>1, <2>1 DEF DrainInv, DrainedRows
  <2> QED BY <1>1, <2>2
\* So it is enough to look at the agents that end up in another state.
<1>2. ASSUME \A d \in Chassis :
               \/ pc'[d] \notin Drains
               \/ /\ hidden'[d] = hidden[d] /\ pc[d] \in Drains
                  /\ \A k \in LRP : prio'[k][d] = prio[k][d]
               \/ \A l \in LRP : Reached(d, l)' => prio'[l][d] <= 0
      PROVE  DrainedRows'
  BY <1>1, <1>2 DEF DrainedRows
<1> HIDE DEF Drains
<1>3. ASSUME prio' = prio, hidden' = hidden,
             \A d \in Chassis : pc'[d] \in Drains => pc[d] \in Drains
      PROVE  DrainedRows'
  BY <1>2, <1>3
\* A transaction of an agent that is not draining afterwards.
<1>4. ASSUME NEW c \in Chassis, NEW S, NEW new,
             TransactOk(c, S, new) \/ TransactFails(c, S, new), hidden' = hidden,
             \A d \in Chassis \ {c} : pc'[d] = pc[d],
             pc'[c] \notin Drains
      PROVE  DrainedRows'
  <2>1. \A d \in Chassis, l \in LRP : d # c => prio'[l][d] = prio[l][d]
    BY <1>4, <1>t, TransactRows
  <2> QED BY <1>2, <1>4, <2>1
<1>5. ASSUME NEW c \in Chassis, RestoreDrainedGateways(c) PROVE DrainedRows'
  <2> DEFINE S == {l \in LRP : OwnRow(c, l) = 0}
             new == [l \in LRP |-> 1]
  <2>1. /\ \A d \in Chassis \ {c} : pc'[d] = pc[d]
        /\ pc'[c] = "reconcile" /\ hidden' = hidden
        /\ prio' = prio \/ TransactOk(c, S, new) \/ TransactFails(c, S, new)
    BY <1>5, <1>t DEF RestoreDrainedGateways, NoTransaction, Goto, TypeOK
  <2>2. pc'[c] \notin Drains
    BY <2>1 DEF Drains
  <2> HIDE DEF S, new
  <2> QED BY <1>3, <1>4, <2>1, <2>2
<1>6. ASSUME NEW c \in Chassis, BoostPriorities(c) PROVE DrainedRows'
  <2> DEFINE S == {l \in LRP : pending[c][l] # NoRow}
  <2>1. /\ \A d \in Chassis \ {c} : pc'[d] = pc[d]
        /\ pc'[c] = "running" /\ hidden' = hidden
        /\ TransactOk(c, S, pending[c]) \/ TransactFails(c, S, pending[c])
    BY <1>6, <1>t DEF BoostPriorities, Goto, TypeOK
  <2>2. pc'[c] \notin Drains
    BY <2>1 DEF Drains
  <2> HIDE DEF S
  <2> QED BY <1>4, <2>1, <2>2
<1>7. ASSUME NEW c \in Chassis, LowerPriorities(c) PROVE DrainedRows'
  <2> DEFINE S == DrainCandidates(c)
             new == [l \in LRP |-> DrainPriority]
  <2>1. /\ \A d \in Chassis \ {c} : pc'[d] = pc[d]
        /\ pc[c] \in Running /\ hidden' = hidden
        /\ \/ prio' = prio /\ pc'[c] = "leaving"
           \/ TransactFails(c, S, new) /\ pc'[c] = "leaving"
           \/ TransactOk(c, S, new) /\ pc'[c] = "polling"
    BY <1>7, <1>t DEF LowerPriorities, NoTransaction, Goto, TypeOK, Running, Phase
  <2>2. ASSUME TransactOk(c, S, new), pc'[c] = "polling" PROVE DrainedRows'
    \* A row that exists still exists, so the cache holds a row of c as before.
    <3>1. \A l \in LRP : /\ prio'[l][c] = IF l \in S THEN 0 ELSE prio[l][c]
                         /\ prio[l][c] \in -1 .. MaxPriority
      <4>1. prio' = WithRows(prio, c, S, new) /\ prio \in [LRP -> [Chassis -> Priority]]
        BY <2>2, <1>t DEF TransactOk, TypeOK
      <4> HIDE DEF S
      <4> QED BY <4>1, WithRowsAt DEF DrainPriority, Priority, NoRow
    <3>2. \A l \in LRP : l \in S => OwnRow(c, l) = prio[l][c] /\ prio[l][c] > 0
      BY <1>t, <2>1, OwnRowExact, HAAssumption DEF DrainCandidates, NoRow
    <3>3. \A l \in LRP : prio'[l][c] = NoRow <=> prio[l][c] = NoRow
      <4> HIDE DEF S
      <4> QED BY <3>1, <3>2 DEF NoRow
    <3>4. ASSUME NEW l \in LRP, Reached(c, l)' PROVE prio'[l][c] <= 0
      <4>1. Reached(c, l)
        <5>1. pc'[c] \in Running
          BY <2>2 DEF Running, Phase
        <5> QED BY <1>t, <2>1, <3>3, <3>4, <5>1, ReachedStable
      <4>2. OwnRow(c, l) = prio[l][c]
        BY <1>t, <2>1, <4>1 DEF OwnRow, OwnRowsExact, Reached
      <4>3. l \in S \/ ~(prio[l][c] > 0)
        BY <4>2 DEF DrainCandidates
      <4> HIDE DEF S
      <4> QED BY <3>1, <4>3
    <3>5. \A d \in Chassis, l \in LRP : d # c => prio'[l][d] = prio[l][d]
      <4> HIDE DEF S, new
      <4> QED BY <1>t, <2>2, TransactRows
    <3> HIDE DEF S, new
    <3> QED BY <1>2, <2>1, <3>4, <3>5
  <2>3. pc'[c] = "leaving" => pc'[c] \notin Drains
    BY DEF Drains
  <2> HIDE DEF S, new
  <2> QED BY <1>3, <1>4, <2>1, <2>2, <2>3
<1>8. ASSUME NEW c \in Chassis,
             CheckLead(c) \/ PollEmpty(c) \/ PollFails(c) \/ DrainEnds(c)
             \/ MonitorUpdate(c) \/ RefreshState(c) \/ Stop(c) \/ NodeReturns(c)
      PROVE  DrainedRows'
  <2>1. prio' = prio /\ hidden' = hidden
    BY <1>8 DEF CheckLead, PollEmpty, PollFails, DrainEnds, MonitorUpdate, RefreshState,
                Stop, NodeReturns, ovnVars, agentVars
  <2>2. \A d \in Chassis : pc'[d] \in Drains => pc[d] \in Drains
    BY <1>8, <1>t DEF Drains, CheckLead, PollEmpty, PollFails, DrainEnds, MonitorUpdate,
                      RefreshState, Stop, NodeReturns, Goto, TypeOK
  <2> QED BY <1>3, <2>1, <2>2
<1>9. ASSUME NEW c \in Chassis, Connect(c) \/ Leave(c) \/ Crash(c) PROVE DrainedRows'
  <2>1. /\ prio' = prio
        /\ pc'[c] \in {"restore", "reconcile", "down"}
        /\ \A d \in Chassis \ {c} : pc'[d] = pc[d] /\ hidden'[d] = hidden[d]
    BY <1>9, <1>t DEF Connect, Leave, Crash, Forget, Goto, TypeOK, ovnVars
  <2>2. pc'[c] \notin Drains
    BY <2>1 DEF Drains
  <2> QED BY <1>2, <2>1, <2>2
<1>10. ASSUME NEW l \in LRP, Release(l) \/ \E c \in Chassis : Claim(l, c)
       PROVE  DrainedRows'
  BY <1>10, <1>3 DEF Release, Claim
<1>11. ASSUME UNCHANGED vars PROVE DrainedRows'
  BY <1>11, <1>3 DEF vars, ovnVars, agentVars
<1>12. ASSUME Next PROVE DrainedRows'
  BY <1>12, <1>5, <1>6, <1>7, <1>8, <1>9, <1>10 DEF Next, AgentStep
<1> QED BY <1>11, <1>12

(***************************************************************************)
(* A drained chassis is left alone, for any number of chassis and ports    *)
(* and whatever rows the monitors miss: if no reply is lost, no gateway    *)
(* port whose row the drain could reach comes back to a chassis that polls *)
(* or holds as long as a live peer is not drained.                         *)
(***************************************************************************)
THEOREM DrainIsFinal ==
  ASSUME "lost" \notin Faults
  PROVE  Spec => DrainedStaysAway
<1>1. Init => DrainInv
  <2>1. Init => LeadInv
    BY InitType DEF Init, LeadInv, OwnRowsExact, BoostRaises, Running, NoPending
  <2> QED BY <2>1 DEF Init, DrainInv, DrainedRows
<1>2. ASSUME DrainInv, [Next]_vars, NEW c \in Chassis, NEW l \in LRP, ComesBack(c, l)
      PROVE  FALSE
  <2>1. bound'[l] # bound[l] /\ bound'[l] = c
    BY <1>2 DEF ComesBack
  <2>2. Claim(l, c)
    <3>1. TypeOK
      BY <1>2 DEF DrainInv, LeadInv
    <3>2. bound' # bound
      BY <2>1
    <3>3. PICK k \in LRP : Release(k) \/ \E d \in Chassis : Claim(k, d)
      BY <1>2, <3>2 DEF Next, AgentStep, vars, ovnVars, agentVars, Connect,
         RestoreDrainedGateways, NoTransaction, TransactOk, TransactFails, CheckLead,
         BoostPriorities, LowerPriorities, PollEmpty, PollFails, DrainEnds, Leave, Crash,
         MonitorUpdate, RefreshState, Stop, NodeReturns
    <3>4. c # None
      BY HAAssumption DEF None
    <3> QED BY <2>1, <3>1, <3>3, <3>4 DEF Release, Claim, TypeOK
  <2>3. c \in Candidates(l)
    BY <2>2 DEF Claim, Winners
  <2>4. \A d \in up : prio[l][d] <= prio[l][c] /\ prio[l][d] \in Int
    BY <1>2, <2>3 DEF Candidates, DrainInv, LeadInv, TypeOK, Priority, NoRow
  <2>5. prio[l][c] <= 0 /\ prio[l][c] \in Int
    BY <1>2 DEF DrainInv, DrainedRows, ComesBack, LeadInv, TypeOK, Priority, NoRow
  <2> QED BY <1>2, <2>4, <2>5 DEF ComesBack
<1>3. DrainInv /\ [Next]_vars =>
        [\A c \in Chassis, l \in LRP : ~ComesBack(c, l)]_vars
  BY <1>2
<1> QED BY <1>1, <1>3, DrainInvariant, PTL DEF Spec, DrainedStaysAway

(***************************************************************************)
(* No drain is skipped in silence, for any number of chassis and ports and *)
(* whatever rows the monitors miss: if no reply is lost, DrainGateways     *)
(* leaves a row it could reach above 0 only after a failure.               *)
(***************************************************************************)
THEOREM DrainNeverSilent ==
  ASSUME "lost" \notin Faults
  PROVE  Spec => DrainNotSkipped
<1>1. ASSUME LeadInv, [Next]_vars, NEW c \in Chassis, NEW l \in LRP, Skips(c, l)
      PROVE  FALSE
  <2>1. TypeOK /\ OwnRowsExact /\ pc[c] = "drain" /\ pc'[c] = "leaving" /\ faults' = faults
    BY <1>1 DEF LeadInv, Skips
  <2>2. LowerPriorities(c)
    BY <1>1, <2>1 DEF Next, AgentStep, vars, Connect, RestoreDrainedGateways, CheckLead,
       BoostPriorities, LowerPriorities, PollEmpty, PollFails, DrainEnds, Leave, Crash, Forget,
       MonitorUpdate, RefreshState, Stop, NodeReturns, Release, Claim, Goto, TypeOK
  <2>3. OwnRow(c, l) = prio[l][c] /\ prio[l][c] > 0
    BY <1>1, <2>1 DEF Skips, OwnRow, OwnRowsExact, Reached, Running, Phase
  <2>4. DrainCandidates(c) # {}
    BY <2>3 DEF DrainCandidates
  <2>5. faults \in Nat /\ 0 <= MaxPriority
    BY <2>1, HAAssumption DEF TypeOK
  <2>6. ~Fault("nbread") /\ ~Fault("txn") /\ ~Fault("lost")
    BY <2>1, <2>5 DEF Fault
  <2>7. pc'[c] # "polling"
    BY <2>1
  <2>8. TransactFails(c, DrainCandidates(c), [k \in LRP |-> DrainPriority])
    <3>1. \/ SelectFails(c) \/ DrainCandidates(c) = {}
          \/ Goto(c, "polling")
          \/ TransactFails(c, DrainCandidates(c), [k \in LRP |-> DrainPriority])
      BY <2>2 DEF LowerPriorities
    <3>2. ~Goto(c, "polling")
      BY <2>1, <2>7 DEF Goto, TypeOK
    <3> QED BY <2>4, <2>6, <3>1, <3>2 DEF SelectFails
  <2>9. PICK k \in DrainCandidates(c) : [j \in LRP |-> DrainPriority][k] > MaxPriority
    BY <2>6, <2>8 DEF TransactFails
  <2> QED BY <2>9, HAAssumption DEF DrainCandidates, DrainPriority
<1>2. LeadInv /\ [Next]_vars => [\A c \in Chassis, l \in LRP : ~Skips(c, l)]_vars
  BY <1>1
<1> QED BY <1>2, LeadInvCorrect, PTL DEF Spec, DrainNotSkipped

=============================================================================
