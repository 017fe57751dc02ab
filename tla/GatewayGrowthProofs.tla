------------------------ MODULE GatewayGrowthProofs ------------------------
(***************************************************************************)
(* A proof about GatewayHA: how far priorities grow, for every set of      *)
(* chassis and ports.  The chassis are ordered by OVN's tie-break.  As     *)
(* long as nothing goes wrong an agent passes a priority v only when it    *)
(* sees a peer at v, and it wins the election against this peer; the peer  *)
(* is thus of lower rank, and it got to v in the same way.  So no chassis  *)
(* gets further above the highest initial priority than its rank.  What    *)
(* goes wrong leaves rows and cached rows to which this does not apply,    *)
(* all of them below the bound for one more exit or failure.               *)
(***************************************************************************)
EXTENDS GatewayHAProofs, FiniteSetTheorems

-----------------------------------------------------------------------------
(* Finite sets of numbers, and ranks in them *)

\* A nonempty finite set of numbers has a largest element.
LEMMA LargestExists ==
  ASSUME NEW S \in SUBSET Nat, IsFiniteSet(S), S # {}
  PROVE  \E x \in S : \A y \in S : y <= x
<1> DEFINE Bare(T) == T # {} /\ ~\E x \in T : \A y \in T : y <= x
           Sizes == {Cardinality(T) : T \in {U \in SUBSET S : Bare(U)}}
<1> SUFFICES ASSUME Bare(S) PROVE FALSE
  OBVIOUS
<1>1. \A T \in SUBSET S : IsFiniteSet(T) /\ Cardinality(T) \in Nat
  BY FS_Subset, FS_CardinalityType
<1>2. Sizes \subseteq Nat /\ Sizes # {}
  BY <1>1
<1>3. PICK k \in Sizes : \A j \in Sizes : ~(<<j, k>> \in OpToRel(<, Nat))
  BY <1>2, NatLessThanWellFounded, WFMin
<1>4. \A j \in Sizes : ~(j < k)
  BY <1>2, <1>3 DEF OpToRel
<1>5. PICK T \in SUBSET S : Bare(T) /\ k = Cardinality(T)
  BY <1>3
<1>6. PICK x \in T : TRUE
  BY <1>5
<1>7. T \ {x} \in SUBSET S /\ Cardinality(T \ {x}) = Cardinality(T) - 1
  BY <1>1, <1>5, <1>6, FS_RemoveElement
<1>8. ~Bare(T \ {x})
  <2>1. k \in Nat /\ Cardinality(T \ {x}) < k
    BY <1>1, <1>5, <1>7
  <2>2. Bare(T \ {x}) => Cardinality(T \ {x}) \in Sizes
    <3> HIDE DEF Bare
    <3> QED BY <1>7
  <2> QED BY <1>4, <2>1, <2>2
<1>9. CASE T \ {x} = {}
  <2>1. \A y \in T : y <= x
    BY <1>6, <1>9
  <2> QED BY <1>5, <1>6, <2>1
<1>10. CASE T \ {x} # {}
  <2>1. PICK z \in T \ {x} : \A y \in T \ {x} : y <= z
    BY <1>8, <1>10
  <2>2. CASE z <= x
    <3>1. \A y \in T : y <= x
      BY <1>6, <2>1, <2>2
    <3> QED BY <1>5, <1>6, <3>1
  <2>3. CASE x <= z
    <3>1. \A y \in T : y <= z
      BY <1>6, <2>1, <2>3
    <3> QED BY <1>5, <2>1, <3>1
  <2> QED BY <1>6, <2>1, <2>2, <2>3
<1> QED BY <1>9, <1>10

\* The place of a chassis in the order of OVN's tie-break.
Rank(c) == Cardinality({d \in Chassis : d < c})

\* Ranks are numbers below the number of chassis, in the order of the chassis.
LEMMA RankOrder ==
  ASSUME NEW c \in Chassis
  PROVE  /\ Cardinality(Chassis) \in Nat
         /\ Rank(c) \in Nat /\ Rank(c) < Cardinality(Chassis)
         /\ \A d \in Chassis : d < c => Rank(d) < Rank(c)
<1> DEFINE Below(d) == {e \in Chassis : e < d}
<1>1. IsFiniteSet(Chassis) /\ Chassis \subseteq Nat
  BY HAAssumption
<1>2. \A d \in Chassis : /\ IsFiniteSet(Below(d))
                         /\ Cardinality(Below(d)) \in Nat
                         /\ Cardinality(Chassis) \in Nat
                         /\ Cardinality(Below(d)) <= Cardinality(Chassis)
                         /\ Cardinality(Chassis) = Cardinality(Below(d)) => Chassis = Below(d)
  BY <1>1, FS_Subset, FS_CardinalityType
<1>3. c \notin Below(c)
  BY <1>1
<1>4. ASSUME NEW d \in Chassis, d < c
      PROVE  Cardinality(Below(d)) < Cardinality(Below(c))
  <2>1. Below(d) \in SUBSET Below(c) /\ d \in Below(c) /\ d \notin Below(d)
    <3>1. c \in Nat /\ d \in Nat /\ \A e \in Chassis : e \in Nat
      BY <1>1
    <3>2. \A e \in Below(d) : e \in Below(c)
      BY <1>4, <3>1
    <3>3. d \in Below(c) /\ d \notin Below(d)
      BY <1>4, <3>1
    <3>4. Below(d) \subseteq Below(c)
      BY <3>2, Zenon
    <3> HIDE DEF Below
    <3> QED BY <3>3, <3>4
  <2>2. /\ Cardinality(Below(d)) <= Cardinality(Below(c))
        /\ Cardinality(Below(c)) = Cardinality(Below(d)) => Below(c) = Below(d)
    BY <1>2, <2>1, FS_Subset
  <2> HIDE DEF Below
  <2> QED BY <1>2, <2>1, <2>2
<1>5. Cardinality(Below(c)) < Cardinality(Chassis)
  <2> HIDE DEF Below
  <2> QED BY <1>2, <1>3
<1> QED BY <1>2, <1>4, <1>5 DEF Rank

-----------------------------------------------------------------------------
(* The bound, and what OVN and the agents keep below it *)

HighestInit == Max(InitPriorities \cup {minActivePriority})

\* What the exits and failures so far allow, before ranks.
Base == HighestInit + Cardinality(Chassis) * (exits + faults)

LEMMA HighestInitBounds ==
  /\ HighestInit \in Nat /\ HighestInit >= minActivePriority
  /\ \A p \in InitPriorities : p <= HighestInit
<1> DEFINE S == InitPriorities \cup {minActivePriority}
<1>1. S \in SUBSET (-1 .. MaxPriority) /\ S # {} /\ MaxPriority \in Nat
  BY HAAssumption DEF Priority, NoRow, minActivePriority
<1>2. Max(S) \in S /\ \A y \in S : Max(S) >= y
  BY <1>1, BoundedMax
<1> QED BY <1>1, <1>2 DEF HighestInit, minActivePriority

\* The bound is a number, at least that of the active priority.
LEMMA BaseType ==
  ASSUME TypeOK, NEW c \in Chassis
  PROVE  Base \in Nat /\ Base >= minActivePriority
<1>1. exits \in Nat /\ faults \in Nat /\ Cardinality(Chassis) \in Nat
  BY RankOrder, HAAssumption DEF TypeOK
<1>2. \A n, k \in Nat : n * k \in Nat
  OBVIOUS
<1>3. Cardinality(Chassis) * (exits + faults) \in Nat
  BY <1>1, <1>2
<1> QED BY <1>3, HighestInitBounds DEF Base, minActivePriority

\* An exit or a failure raises the bound by the number of chassis.
LEMMA BaseStep ==
  ASSUME TypeOK, NEW c \in Chassis
  PROVE  /\ exits' + faults' = exits + faults => Base' = Base
         /\ exits' + faults' = exits + faults + 1 => Base' = Base + Cardinality(Chassis)
<1>1. exits \in Nat /\ faults \in Nat /\ Cardinality(Chassis) \in Nat
  BY RankOrder, HAAssumption DEF TypeOK
<1>2. \A n, k \in Nat : n * (k + 1) = n * k + n
  OBVIOUS
<1>3. Cardinality(Chassis) * (exits + faults + 1)
        = Cardinality(Chassis) * (exits + faults) + Cardinality(Chassis)
  BY <1>1, <1>2
<1>4. \A n, k \in Nat : n * k \in Nat
  OBVIOUS
<1>5. Cardinality(Chassis) * (exits + faults) \in Nat
  BY <1>1, <1>4
<1> QED BY <1>1, <1>3, <1>5, HighestInitBounds DEF Base

(***************************************************************************)
(* The inductive invariant.  Rows and boosts respect the rank of their     *)
(* chassis.  What cannot win an election any more, or is not there any     *)
(* more, stays below the bound before ranks: the rows of a dead node and   *)
(* of one about to drain, cached values above the row they show, and rows  *)
(* their own agent misreads after a lost reply.                            *)
(***************************************************************************)
RunningUp == \A c \in Chassis : pc[c] \in Running => c \in up

RanksKept ==
  \A c \in Chassis, l \in LRP :
    prio[l][c] <= Base + Rank(c) /\ pending[c][l] <= Base + Rank(c)

AwayBelow ==
  \A c \in Chassis, l \in LRP :
    c \notin up \/ pc[c] = "drain" => prio[l][c] < Base

CacheBelow ==
  \A c \in Chassis, d \in Chassis, l \in LRP :
    /\ nbCache[c][l][d] < Base \/ nbCache[c][l][d] <= prio[l][d]
    /\ nbCache[c][l][d] # NoRow => prio[l][d] # NoRow

OwnBelow ==
  \A c \in Chassis, l \in LRP :
    nbCache[c][l][c] \in {NoRow, prio[l][c]} \/ prio[l][c] < Base

BoostBelow ==
  \A c \in Chassis, l \in LRP :
    pending[c][l] # NoRow =>
      pc[c] = "boost" /\ (pending[c][l] > prio[l][c] \/ prio[l][c] < Base)

GrowthInv ==
  TypeOK /\ RunningUp /\ RanksKept /\ AwayBelow /\ CacheBelow /\ OwnBelow /\ BoostBelow

-----------------------------------------------------------------------------
(* Elections and boosts *)

\* All values are numbers.
LEMMA ValueTypes ==
  ASSUME TypeOK, NEW c \in Chassis, NEW l \in LRP
  PROVE  /\ prio[l][c] \in -1 .. MaxPriority
         /\ pending[c][l] \in Int
         /\ \A d \in Chassis : nbCache[c][l][d] \in -1 .. MaxPriority
<1>1. prio[l][c] \in -1 .. MaxPriority
  BY DEF TypeOK, Priority, NoRow
<1>2. pending[c][l] \in Int
  BY HAAssumption DEF TypeOK, NoRow
<1>3. \A d \in Chassis : nbCache[c][l][d] \in -1 .. MaxPriority
  BY DEF TypeOK, Priority, NoRow
<1> QED BY <1>1, <1>2, <1>3

\* A live chassis with a row means that somebody is elected.
LEMMA SomebodyWins ==
  ASSUME TypeOK, NEW c \in up, NEW l \in LRP, prio[l][c] # NoRow
  PROVE  Winners(l) # {}
<1> DEFINE T == {prio[l][d] : d \in up}
<1>1. up \subseteq Chassis
  BY DEF TypeOK
<1>2. T \in SUBSET (-1 .. MaxPriority) /\ T # {} /\ MaxPriority \in Nat
  BY <1>1, ValueTypes, HAAssumption
<1>3. Max(T) \in T /\ \A y \in T : Max(T) >= y
  BY <1>2, BoundedMax
<1>4. PICK w \in up : prio[l][w] = Max(T)
  BY <1>3
<1>5. \A d \in up : prio[l][d] <= prio[l][w]
  BY <1>2, <1>3, <1>4
<1>6. prio[l][w] # NoRow
  <2>1. prio[l][c] <= prio[l][w] /\ prio[l][c] \in -1 .. MaxPriority
        /\ prio[l][w] \in -1 .. MaxPriority
    BY <1>1, <1>5, ValueTypes
  <2> QED BY <2>1, HAAssumption DEF NoRow
<1>7. w \in Candidates(l)
  BY <1>5, <1>6 DEF Candidates
<1>8. Candidates(l) \subseteq Chassis
  BY <1>1 DEF Candidates
<1>9. IsFiniteSet(Candidates(l)) /\ Candidates(l) \in SUBSET Nat
  BY <1>8, FS_Subset, HAAssumption
<1>10. \E x \in Candidates(l) : \A y \in Candidates(l) : y <= x
  BY <1>7, <1>9, LargestExists
<1> QED BY <1>7, <1>10 DEF Winners

\* A winner is ahead of every live peer, and strictly of those above it in the
\* order of the tie-break.
LEMMA WinnerAhead ==
  ASSUME TypeOK, TieFlaps = FALSE, NEW l \in LRP, NEW c \in Winners(l), NEW d \in up
  PROVE  /\ prio[l][d] <= prio[l][c]
         /\ d > c => prio[l][d] < prio[l][c]
<1>1. c \in Candidates(l) /\ \A e \in Candidates(l) : e <= c
  BY DEF Winners
<1>2. c \in up /\ up \subseteq Chassis /\ prio[l][c] # NoRow
      /\ \A e \in up : prio[l][e] <= prio[l][c]
  BY <1>1 DEF Candidates, TypeOK
<1>3. prio[l][c] \in Int /\ prio[l][d] \in Int /\ c \in Nat /\ d \in Nat
  <2>1. c \in Chassis /\ d \in Chassis
    BY <1>2
  <2>2. prio[l][c] \in -1 .. MaxPriority /\ prio[l][d] \in -1 .. MaxPriority
    BY <2>1, ValueTypes
  <2> QED BY <2>1, <2>2, HAAssumption
<1>4. ASSUME prio[l][d] = prio[l][c] PROVE d \in Candidates(l)
  BY <1>2, <1>4 DEF Candidates
<1>5. ASSUME d > c PROVE prio[l][d] < prio[l][c]
  <2>1. d \notin Candidates(l)
    BY <1>1, <1>3, <1>5
  <2> QED BY <1>2, <1>3, <1>4, <2>1
<1> QED BY <1>2, <1>5

\* The highest peer a cache shows is one of them, if it shows any.
LEMMA MaxPeerShown ==
  ASSUME TypeOK, NEW c \in Chassis, NEW l \in LRP
  PROVE  MaxPeer(c, l) = NoRow \/ \E d \in Chassis \ {c} : MaxPeer(c, l) = nbCache[c][l][d]
<1> DEFINE S == {NoRow} \cup {nbCache[c][l][d] : d \in Chassis \ {c}}
<1>1. S \in SUBSET (-1 .. MaxPriority) /\ S # {} /\ MaxPriority \in Nat
  BY ValueTypes, HAAssumption DEF NoRow
<1>2. Max(S) \in S
  BY <1>1, BoundedMax
<1> QED BY <1>2 DEF MaxPeer

\* A boost goes one above that peer, or to minActivePriority.
LEMMA BoostTargetValue ==
  ASSUME TypeOK, NEW c \in Chassis, NEW l \in LRP
  PROVE  BoostTarget(c, l) \in {MaxPeer(c, l) + 1, minActivePriority}
<1> DEFINE S == {MaxPeer(c, l) + 1, minActivePriority}
<1>1. MaxPeer(c, l) \in -1 .. MaxPriority
  BY MaxPeerType DEF Priority, NoRow
<1>2. S \in SUBSET (-1 .. MaxPriority + 1) /\ S # {} /\ MaxPriority + 1 \in Nat
  BY <1>1, HAAssumption DEF minActivePriority
<1>3. Max(S) \in S
  BY <1>2, BoundedMax
<1> QED BY <1>3 DEF BoostTarget

\* Whatever a boost is decided on, one more exit or failure pays for it.
LEMMA AnyBoost ==
  ASSUME GrowthInv, NEW c \in Chassis, NEW l \in LRP
  PROVE  BoostTarget(c, l) <= Base + Cardinality(Chassis)
<1>1. TypeOK /\ Base \in Nat /\ Base >= minActivePriority /\ Cardinality(Chassis) \in Nat
  BY BaseType, RankOrder DEF GrowthInv
<1>2. ASSUME NEW d \in Chassis PROVE nbCache[c][l][d] < Base + Cardinality(Chassis)
  <2>1. nbCache[c][l][d] < Base \/ nbCache[c][l][d] <= prio[l][d]
    BY DEF GrowthInv, CacheBelow
  <2>2. prio[l][d] <= Base + Rank(d)
    BY DEF GrowthInv, RanksKept
  <2>3. Rank(d) \in Nat /\ Rank(d) < Cardinality(Chassis)
    BY RankOrder
  <2>4. nbCache[c][l][d] \in Int /\ prio[l][d] \in Int
    BY <1>1, ValueTypes
  <2> QED BY <1>1, <2>1, <2>2, <2>3, <2>4
<1>3. MaxPeer(c, l) \in Int /\ MaxPeer(c, l) < Base + Cardinality(Chassis)
  <2>1. MaxPeer(c, l) \in Int
    BY <1>1, MaxPeerType DEF Priority, NoRow
  <2>2. CASE MaxPeer(c, l) = NoRow
    BY <1>1, <2>2 DEF NoRow
  <2>3. CASE \E d \in Chassis \ {c} : MaxPeer(c, l) = nbCache[c][l][d]
    BY <1>2, <2>1, <2>3
  <2> QED BY <1>1, <2>1, <2>2, <2>3, MaxPeerShown
<1> QED BY <1>1, <1>3, BoostTargetValue DEF minActivePriority

\* A boost of the elected chassis respects its rank.
LEMMA ElectedBoost ==
  ASSUME GrowthInv, TieFlaps = FALSE, NEW l \in LRP, NEW c \in Winners(l)
  PROVE  BoostTarget(c, l) <= Base + Rank(c)
<1>1. TypeOK /\ c \in Chassis
  BY DEF GrowthInv, TypeOK, Winners, Candidates
<1>2. /\ Base \in Nat /\ Base >= minActivePriority /\ Rank(c) \in Nat
      /\ prio[l][c] \in Int /\ prio[l][c] <= Base + Rank(c)
      /\ MaxPeer(c, l) \in Int
  BY <1>1, BaseType, RankOrder, ValueTypes, MaxPeerType
  DEF GrowthInv, RanksKept, Priority, NoRow
<1>3. ASSUME NEW d \in Chassis \ {c} PROVE nbCache[c][l][d] + 1 <= Base + Rank(c)
  <2>1. /\ nbCache[c][l][d] \in Int /\ prio[l][d] \in Int /\ Rank(d) \in Nat
        /\ c \in Nat /\ d \in Nat
    BY <1>1, ValueTypes, RankOrder, HAAssumption
  <2>2. nbCache[c][l][d] < Base \/ nbCache[c][l][d] <= prio[l][d]
    BY <1>1 DEF GrowthInv, CacheBelow
  <2>3. CASE nbCache[c][l][d] < Base
    BY <1>2, <2>1, <2>3
  <2>4. CASE nbCache[c][l][d] >= Base
    <3>1. d \in up
      BY <1>2, <2>1, <2>2, <2>4 DEF GrowthInv, AwayBelow
    <3>2. prio[l][d] <= prio[l][c] /\ (d > c => prio[l][d] < prio[l][c])
      BY <1>1, <3>1, WinnerAhead
    <3>3. CASE d > c
      BY <1>2, <2>1, <2>2, <2>4, <3>2, <3>3
    <3>4. CASE d < c
      <4>1. Rank(d) < Rank(c) /\ prio[l][d] <= Base + Rank(d)
        BY <1>1, <3>4, RankOrder DEF GrowthInv, RanksKept
      <4> QED BY <1>2, <2>1, <2>2, <2>4, <4>1
    <3> QED BY <2>1, <3>3, <3>4
  <2> QED BY <1>2, <2>1, <2>3, <2>4
<1>4. MaxPeer(c, l) + 1 <= Base + Rank(c)
  <2>1. CASE MaxPeer(c, l) = NoRow
    BY <1>2, <2>1 DEF NoRow
  <2>2. CASE \E d \in Chassis \ {c} : MaxPeer(c, l) = nbCache[c][l][d]
    BY <1>3, <2>2
  <2> QED BY <1>1, <2>1, <2>2, MaxPeerShown
<1> QED BY <1>1, <1>2, <1>4, BoostTargetValue DEF minActivePriority

\* What EnsureActivePriorityLead decides to write: above the row it will
\* replace, unless that row is misread; within the rank of the chassis, when the
\* election is over and the binding is confirmed.
LEMMA DecidedBoost ==
  ASSUME GrowthInv, NEW c \in Chassis, NEW l \in LRP, NEW confirmed \in BOOLEAN,
         pc[c] \in Running, Boosts(c, confirmed)[l] # NoRow
  PROVE  /\ Boosts(c, confirmed)[l] = BoostTarget(c, l)
         /\ BoostTarget(c, l) > prio[l][c] \/ prio[l][c] < Base
         /\ TieFlaps = FALSE /\ ElectionOver(l) /\ confirmed => c \in Winners(l)
<1>1. /\ OwnRow(c, l) # NoRow
      /\ ~HasLead(c, l)
      /\ Boosts(c, confirmed)[l] = BoostTarget(c, l)
      /\ ~(confirmed /\ BoundElsewhere(c, l))
  BY DEF Boosts
<1>2. TypeOK /\ c \in up
  BY DEF GrowthInv, RunningUp
<1>3. BoostTarget(c, l) > OwnRow(c, l)
  <2>1. OwnRow(c, l) \in Int
    BY <1>2, ValueTypes DEF OwnRow
  <2>2. BoostTarget(c, l) \in Int /\ BoostTarget(c, l) >= minActivePriority
        /\ BoostTarget(c, l) > MaxPeer(c, l) /\ MaxPeer(c, l) \in Int
    BY <1>2, BoostTargetType, MaxPeerType, HAAssumption DEF minActivePriority, Priority, NoRow
  <2> QED BY <1>1, <2>1, <2>2 DEF HasLead, minActivePriority
<1>4. OwnRow(c, l) = prio[l][c] \/ prio[l][c] < Base
  BY <1>1 DEF OwnRow, GrowthInv, OwnBelow
<1>5. prio[l][c] # NoRow
  BY <1>1 DEF OwnRow, GrowthInv, CacheBelow
<1>6. ASSUME TieFlaps = FALSE, ElectionOver(l), confirmed PROVE c \in Winners(l)
  <2>1. bound[l] \in Winners(l)
    BY <1>2, <1>5, <1>6, SomebodyWins DEF ElectionOver
  <2>2. bound[l] # None
    <3>1. bound[l] \in Nat
      BY <1>2, <2>1, HAAssumption DEF Winners, Candidates, TypeOK
    <3> QED BY <3>1 DEF None
  <2> QED BY <1>1, <1>6, <2>1, <2>2 DEF BoundElsewhere
<1> QED BY <1>1, <1>3, <1>4, <1>6

-----------------------------------------------------------------------------
(* Steps *)

\* An exit or a failure.
Trouble == Base' = Base + Cardinality(Chassis)

(***************************************************************************)
(* What any step may do to the values the bound is about.  Rows change by  *)
(* writes of their own agent, which is up and past no drain, or is in      *)
(* trouble; caches take over rows; boosts are dropped or decided anew.     *)
(***************************************************************************)
RowStep(c, l) ==
  \/ prio'[l][c] = prio[l][c] /\ pending'[c][l] \in {pending[c][l], NoRow}
  \/ /\ prio'[l][c] >= 0 /\ prio'[l][c] <= Base + Rank(c)
     /\ prio'[l][c] >= prio[l][c] \/ prio[l][c] < Base
     /\ c \in up' /\ pc'[c] # "drain"
     /\ pending'[c][l] = NoRow
  \/ /\ prio'[l][c] = prio[l][c]
     /\ pending'[c][l] <= Base' + Rank(c)
     /\ pending'[c][l] > prio'[l][c] \/ prio'[l][c] < Base'

CacheStep(c, d, l) == nbCache'[c][l][d] \in {nbCache[c][l][d], NoRow, prio'[l][d]}

OwnStep(c, l) ==
  \/ nbCache'[c][l][c] \in {NoRow, prio'[l][c]}
  \/ nbCache'[c][l][c] = nbCache[c][l][c] /\ prio'[l][c] = prio[l][c]
  \/ Trouble

AwayStep(c) ==
  (c \notin up' \/ pc'[c] = "drain") => (c \notin up \/ pc[c] = "drain" \/ Trouble)

GrowthStep ==
  /\ Base' = Base \/ Trouble
  /\ RunningUp'
  /\ \A c \in Chassis : AwayStep(c)
  /\ \A c \in Chassis, l \in LRP :
       /\ RowStep(c, l) /\ OwnStep(c, l)
       /\ pending'[c][l] # NoRow => pc'[c] = "boost"
  /\ \A c \in Chassis, d \in Chassis, l \in LRP : CacheStep(c, d, l)

\* Such a step keeps the invariant.
LEMMA GrowthStepKeeps ==
  ASSUME GrowthInv, TypeOK', GrowthStep
  PROVE  GrowthInv'
<1>1. TypeOK /\ TypeOK' /\ RunningUp'
  BY DEF GrowthInv, GrowthStep
<1>2. ASSUME NEW c \in Chassis
      PROVE  /\ Base \in Nat /\ Base' \in Nat
             /\ Rank(c) \in Nat /\ Rank(c) < Cardinality(Chassis) /\ Cardinality(Chassis) \in Nat
             /\ Base' = Base \/ Base' = Base + Cardinality(Chassis)
  <2>1. Base \in Nat /\ Cardinality(Chassis) \in Nat
    BY <1>1, BaseType, RankOrder
  <2> QED BY <2>1, RankOrder DEF GrowthStep, Trouble
<1>3. ASSUME NEW c \in Chassis, NEW l \in LRP
      PROVE  /\ prio[l][c] \in Int /\ prio'[l][c] \in Int /\ prio'[l][c] >= -1
             /\ pending[c][l] \in Int /\ pending'[c][l] \in Int
             /\ \A d \in Chassis : nbCache[c][l][d] \in Int /\ nbCache'[c][l][d] \in Int
  <2>1. /\ prio[l][c] \in -1 .. MaxPriority
        /\ pending[c][l] \in Int
        /\ \A d \in Chassis : nbCache[c][l][d] \in -1 .. MaxPriority
    BY <1>1, ValueTypes
  <2>2. /\ prio'[l][c] \in -1 .. MaxPriority
        /\ pending'[c][l] \in Int
        /\ \A d \in Chassis : nbCache'[c][l][d] \in -1 .. MaxPriority
    BY <1>1, HAAssumption DEF TypeOK, Priority, NoRow
  <2> QED BY <2>1, <2>2, HAAssumption
<1>4. RanksKept'
  <2>1. ASSUME NEW c \in Chassis, NEW l \in LRP
        PROVE  prio'[l][c] <= Base' + Rank(c) /\ pending'[c][l] <= Base' + Rank(c)
    <3>1. prio[l][c] <= Base + Rank(c) /\ pending[c][l] <= Base + Rank(c)
      BY DEF GrowthInv, RanksKept
    <3>2. RowStep(c, l)
      BY DEF GrowthStep
    <3> QED BY <1>2, <1>3, <3>1, <3>2 DEF RowStep, NoRow
  <2> QED BY <2>1 DEF RanksKept, Rank
<1>5. AwayBelow'
  <2>1. ASSUME NEW c \in Chassis, NEW l \in LRP, c \notin up' \/ pc'[c] = "drain"
        PROVE  prio'[l][c] < Base'
    <3>1. prio'[l][c] = prio[l][c]
      BY <2>1 DEF GrowthStep, RowStep
    <3>2. CASE Trouble
      BY <1>2, <1>3, <3>1, <3>2 DEF GrowthInv, RanksKept, Trouble
    <3>3. CASE c \notin up \/ pc[c] = "drain"
      BY <1>2, <1>3, <3>1, <3>3 DEF GrowthInv, AwayBelow
    <3> QED BY <2>1, <3>2, <3>3 DEF GrowthStep, AwayStep
  <2> QED BY <2>1 DEF AwayBelow
<1>6. CacheBelow'
  <2>1. ASSUME NEW c \in Chassis, NEW d \in Chassis, NEW l \in LRP
        PROVE  /\ nbCache'[c][l][d] < Base' \/ nbCache'[c][l][d] <= prio'[l][d]
               /\ nbCache'[c][l][d] # NoRow => prio'[l][d] # NoRow
    <3>1. /\ nbCache[c][l][d] < Base \/ nbCache[c][l][d] <= prio[l][d]
          /\ nbCache[c][l][d] # NoRow => prio[l][d] # NoRow
      BY DEF GrowthInv, CacheBelow
    <3>2. prio'[l][d] = prio[l][d]
          \/ (prio'[l][d] >= 0 /\ (prio'[l][d] >= prio[l][d] \/ prio[l][d] < Base))
      BY DEF GrowthStep, RowStep
    <3>3. nbCache'[c][l][d] = nbCache[c][l][d] \/ nbCache'[c][l][d] = NoRow
          \/ nbCache'[c][l][d] = prio'[l][d]
      BY DEF GrowthStep, CacheStep
    <3>4. nbCache[c][l][d] \in Int /\ nbCache'[c][l][d] \in Int
          /\ prio[l][d] \in Int /\ prio'[l][d] \in Int
      BY <1>3
    <3>5. CASE nbCache'[c][l][d] = nbCache[c][l][d]
      BY <1>2, <3>1, <3>2, <3>4, <3>5 DEF NoRow
    <3>6. CASE nbCache'[c][l][d] = NoRow
      BY <1>2, <3>6 DEF NoRow
    <3>7. CASE nbCache'[c][l][d] = prio'[l][d]
      BY <3>4, <3>7
    <3> QED BY <3>3, <3>5, <3>6, <3>7
  <2> QED BY <2>1 DEF CacheBelow
<1>7. OwnBelow'
  <2>1. ASSUME NEW c \in Chassis, NEW l \in LRP
        PROVE  nbCache'[c][l][c] \in {NoRow, prio'[l][c]} \/ prio'[l][c] < Base'
    <3>1. CASE nbCache'[c][l][c] \in {NoRow, prio'[l][c]}
      BY <3>1
    <3>2. CASE nbCache'[c][l][c] = nbCache[c][l][c] /\ prio'[l][c] = prio[l][c]
      BY <1>2, <1>3, <3>2 DEF GrowthInv, OwnBelow
    <3>3. CASE Trouble
      <4>1. prio'[l][c] <= Base + Rank(c)
        BY DEF GrowthInv, RanksKept, GrowthStep, RowStep
      <4> QED BY <1>2, <1>3, <3>3, <4>1 DEF Trouble
    <3> QED BY <3>1, <3>2, <3>3 DEF GrowthStep, OwnStep
  <2> QED BY <2>1 DEF OwnBelow
<1>8. BoostBelow'
  <2>1. ASSUME NEW c \in Chassis, NEW l \in LRP, pending'[c][l] # NoRow
        PROVE  pc'[c] = "boost" /\ (pending'[c][l] > prio'[l][c] \/ prio'[l][c] < Base')
    <3>1. pc'[c] = "boost"
      BY <2>1 DEF GrowthStep
    <3>2. CASE prio'[l][c] = prio[l][c] /\ pending'[c][l] = pending[c][l]
      BY <1>2, <1>3, <2>1, <3>1, <3>2 DEF GrowthInv, BoostBelow
    <3>3. CASE pending'[c][l] > prio'[l][c] \/ prio'[l][c] < Base'
      BY <3>1, <3>3
    <3> QED BY <2>1, <3>2, <3>3 DEF GrowthStep, RowStep
  <2> QED BY <2>1 DEF BoostBelow
<1> QED BY <1>1, <1>4, <1>5, <1>6, <1>7, <1>8 DEF GrowthInv

\* A monitor shows a row as it is, or not at all.
LEMMA ViewAt ==
  ASSUME NEW p, NEW h, NEW l \in LRP, NEW d \in Chassis
  PROVE  MonitorView(p, h)[l][d] \in {NoRow, p[l][d]}
BY DEF MonitorView

\* The bound moves only with the exits and failures counted.
LEMMA CostStep ==
  ASSUME TypeOK, NEW c \in Chassis,
         \/ exits' = exits /\ faults' \in {faults, faults + 1}
         \/ exits' = exits + 1 /\ faults' = faults
  PROVE  /\ Base' = Base \/ Trouble
         /\ exits' = exits /\ faults' = faults => Base' = Base
         /\ exits' # exits \/ faults' # faults => Trouble
<1>1. exits \in Int /\ faults \in Int
  BY DEF TypeOK
<1>2. /\ exits' + faults' = exits + faults => Base' = Base
      /\ exits' + faults' = exits + faults + 1 => Base' = Base + Cardinality(Chassis)
  BY BaseStep
<1> QED BY <1>1, <1>2 DEF Trouble

\* No boost outside "boost".
LEMMA NothingPending ==
  ASSUME GrowthInv, NEW c \in Chassis, pc[c] # "boost"
  PROVE  pending[c] = NoPending
<1>1. \A l \in LRP : pending[c][l] = NoRow
  BY DEF GrowthInv, BoostBelow
<1>2. pending[c] \in [LRP -> NoRow .. MaxPriority + 1]
  BY DEF GrowthInv, TypeOK
<1> QED BY <1>1, <1>2 DEF NoPending

\* A step that touches neither rows nor boosts, and caches only as a monitor does.
LEMMA QuietStep ==
  ASSUME GrowthInv, UNCHANGED <<prio, pending>>,
         Base' = Base \/ Trouble, RunningUp',
         \A c \in Chassis : AwayStep(c),
         \A c \in Chassis : pc[c] = "boost" => pc'[c] = "boost" \/ pending[c] = NoPending,
         \A c \in Chassis : \/ nbCache'[c] = nbCache[c]
                            \/ \E h : nbCache'[c] = MonitorView(prio, h)
  PROVE  GrowthStep
<1>1. ASSUME NEW c \in Chassis, NEW l \in LRP
      PROVE  RowStep(c, l) /\ (pending'[c][l] # NoRow => pc'[c] = "boost")
  <2>1. pending[c][l] # NoRow => pc[c] = "boost"
    BY DEF GrowthInv, BoostBelow
  <2> QED BY <2>1 DEF RowStep, NoPending
<1>2. ASSUME NEW c \in Chassis, NEW d \in Chassis, NEW l \in LRP
      PROVE  nbCache'[c][l][d] = nbCache[c][l][d] \/ nbCache'[c][l][d] \in {NoRow, prio'[l][d]}
  <2>1. CASE nbCache'[c] = nbCache[c]
    BY <2>1
  <2>2. ASSUME NEW h, nbCache'[c] = MonitorView(prio, h)
        PROVE  nbCache'[c][l][d] \in {NoRow, prio'[l][d]}
    <3>1. MonitorView(prio, h)[l][d] \in {NoRow, prio[l][d]}
      BY ViewAt
    <3> QED BY <2>2, <3>1
  <2> QED BY <2>1, <2>2
<1> QED BY <1>1, <1>2 DEF GrowthStep, CacheStep, OwnStep

\* A priority write of an agent.
LEMMA WriteStep ==
  ASSUME GrowthInv, NEW c \in Chassis, NEW S \in SUBSET LRP, NEW new \in [LRP -> Int],
         \A l \in S : /\ new[l] >= 0 /\ new[l] <= Base + Rank(c)
                      /\ new[l] >= prio[l][c] \/ prio[l][c] < Base,
         TransactOk(c, S, new) \/ TransactFails(c, S, new),
         UNCHANGED <<up, hidden, exits>>,
         pc[c] \in Running, pc'[c] \in Running \ {"drain"},
         \A d \in Chassis \ {c} : pc'[d] = pc[d],
         pending' = [pending EXCEPT ![c] = NoPending]
  PROVE  GrowthStep
<1>1. TypeOK /\ c \in up
  BY DEF GrowthInv, RunningUp
<1>2. faults' \in {faults, faults + 1}
  BY DEF TransactOk, TransactFails, Fault
<1>3. Base' = Base \/ Trouble
  BY <1>1, <1>2, CostStep
<1>4. ASSUME NEW d \in Chassis, NEW l \in LRP
      PROVE  prio'[l][d] = prio[l][d] \/ (d = c /\ l \in S /\ prio'[l][d] = new[l])
  <2>1. prio' = prio \/ prio' = WithRows(prio, c, S, new)
    BY DEF TransactOk, TransactFails
  <2>2. prio \in [LRP -> [Chassis -> Priority]]
    BY <1>1 DEF TypeOK
  <2>3. WithRows(prio, c, S, new)[l][d] = IF d = c /\ l \in S THEN new[l] ELSE prio[l][d]
    BY <2>2, WithRowsAt
  <2> QED BY <2>1, <2>3
<1>5. \/ prio' = prio /\ nbCache' = nbCache
      \/ nbCache' = [nbCache EXCEPT ![c] = MonitorView(prio', hidden[c])]
      \/ nbCache' = nbCache /\ Trouble
  <2>1. CASE TransactOk(c, S, new)
    BY <2>1 DEF TransactOk
  <2>2. CASE TransactFails(c, S, new)
    <3>1. nbCache' = nbCache /\ (prio' = prio \/ faults' = faults + 1)
      BY <2>2 DEF TransactFails, Fault
    <3>2. faults' = faults + 1 => faults' # faults
      BY <1>1 DEF TypeOK
    <3> QED BY <1>1, <1>2, <3>1, <3>2, CostStep
  <2> QED BY <2>1, <2>2
<1>6. ASSUME NEW d \in Chassis, NEW l \in LRP
      PROVE  /\ pending'[d][l] = pending[d][l] \/ pending'[d][l] = NoRow
             /\ d = c => pending'[d][l] = NoRow
  BY <1>1 DEF TypeOK, NoPending
<1>7. RunningUp'
  BY <1>1 DEF GrowthInv, RunningUp
<1>8. \A d \in Chassis : AwayStep(d)
  BY <1>1 DEF AwayStep
<1>9. ASSUME NEW d \in Chassis, NEW l \in LRP
      PROVE  RowStep(d, l) /\ (pending'[d][l] # NoRow => pc'[d] = "boost")
  <2>1. CASE prio'[l][d] = prio[l][d]
    BY <1>6, <2>1 DEF RowStep, GrowthInv, BoostBelow
  <2>2. CASE d = c /\ l \in S /\ prio'[l][d] = new[l]
    BY <1>1, <1>6, <2>2 DEF RowStep
  <2>3. pending'[d][l] # NoRow => pc'[d] = "boost"
    BY <1>6 DEF GrowthInv, BoostBelow
  <2> QED BY <1>4, <2>1, <2>2, <2>3
<1>10. ASSUME NEW d \in Chassis, NEW e \in Chassis, NEW l \in LRP
       PROVE  nbCache'[d][l][e] = nbCache[d][l][e] \/ nbCache'[d][l][e] \in {NoRow, prio'[l][e]}
  <2>1. nbCache'[d] = nbCache[d] \/ nbCache'[d] = MonitorView(prio', hidden[c])
    BY <1>1, <1>5 DEF TypeOK
  <2>2. MonitorView(prio', hidden[c])[l][e] \in {NoRow, prio'[l][e]}
    BY ViewAt
  <2> QED BY <2>1, <2>2
<1>11. ASSUME NEW d \in Chassis, NEW l \in LRP PROVE OwnStep(d, l)
  <2>1. d # c => prio'[l][d] = prio[l][d] /\ nbCache'[d] = nbCache[d]
    BY <1>1, <1>4, <1>5 DEF TypeOK
  <2>2. CASE d # c
    BY <2>1, <2>2 DEF OwnStep
  <2>3. CASE d = c
    <3>1. CASE nbCache' = [nbCache EXCEPT ![c] = MonitorView(prio', hidden[c])]
      <4>1. nbCache'[c][l][c] \in {NoRow, prio'[l][c]}
        BY <1>1, <3>1 DEF MonitorView, TypeOK
      <4> QED BY <2>3, <4>1 DEF OwnStep
    <3> QED BY <1>5, <2>3, <3>1 DEF OwnStep
  <2> QED BY <2>2, <2>3
<1> QED BY <1>3, <1>7, <1>8, <1>9, <1>10, <1>11 DEF GrowthStep, CacheStep

\* The decision of EnsureActivePriorityLead.
LEMMA CheckLeadStep ==
  ASSUME TieFlaps = FALSE, PromptElections = TRUE,
         GrowthInv, TypeOK', NEW c \in Chassis, CheckLead(c)
  PROVE  GrowthStep
<1>1. TypeOK
  BY DEF GrowthInv
<1>2. /\ UNCHANGED <<prio, bound, up, nbCache, exits>>
      /\ pc[c] \in Running /\ pc[c] # "boost"
      /\ pc'[c] = IF pending'[c] = NoPending THEN "running" ELSE "boost"
      /\ \A d \in Chassis \ {c} : pc'[d] = pc[d]
      /\ \A l \in LRP : ElectionOver(l)
      /\ faults' \in {faults, faults + 1}
  BY <1>1 DEF CheckLead, SelectFails, Fault, Goto, Running, Phase, Live, TypeOK, ovnVars
<1>3. Base' = Base \/ Trouble
  BY <1>1, <1>2, CostStep
<1>4. \/ pending' = pending
      \/ pending' = [pending EXCEPT ![c] = Boosts(c, TRUE)] /\ faults' = faults
      \/ pending' = [pending EXCEPT ![c] = Boosts(c, FALSE)] /\ Trouble
  <2>1. \/ pending' = pending
        \/ pending' = [pending EXCEPT ![c] = Boosts(c, TRUE)] /\ faults' = faults
        \/ pending' = [pending EXCEPT ![c] = Boosts(c, FALSE)] /\ faults' = faults + 1
    BY DEF CheckLead, Fault
  <2>2. faults' = faults + 1 => faults' # faults
    BY <1>1 DEF TypeOK
  <2> QED BY <1>1, <1>2, <2>1, <2>2, CostStep
<1>5. RunningUp'
  BY <1>2 DEF GrowthInv, RunningUp
<1>6. \A d \in Chassis : AwayStep(d)
  BY <1>2 DEF AwayStep
<1>7. ASSUME NEW d \in Chassis, NEW l \in LRP
      PROVE  RowStep(d, l) /\ (pending'[d][l] # NoRow => pc'[d] = "boost")
  <2>1. pending[d][l] # NoRow => pc[d] = "boost"
    BY DEF GrowthInv, BoostBelow
  <2>2. CASE pending'[d][l] = pending[d][l]
    BY <1>2, <2>1, <2>2 DEF RowStep
  <2>3. ASSUME d = c, pending'[c][l] # pending[c][l], NEW confirmed \in BOOLEAN,
               pending'[c] = Boosts(c, confirmed), confirmed \/ Trouble
        PROVE  RowStep(d, l) /\ (pending'[d][l] # NoRow => pc'[d] = "boost")
    <3>1. pending'[c][l] # NoRow => pc'[c] = "boost"
      BY <1>2 DEF NoPending
    <3>2. CASE Boosts(c, confirmed)[l] = NoRow
      BY <1>2, <2>3, <3>1, <3>2 DEF RowStep
    <3>3. CASE Boosts(c, confirmed)[l] # NoRow
      <4>1. /\ Boosts(c, confirmed)[l] = BoostTarget(c, l)
            /\ BoostTarget(c, l) > prio[l][c] \/ prio[l][c] < Base
            /\ confirmed => c \in Winners(l)
        BY <1>2, <3>3, DecidedBoost
      <4>2. /\ BoostTarget(c, l) \in Int /\ prio[l][c] \in Int
            /\ Base \in Nat /\ Rank(c) \in Nat /\ Cardinality(Chassis) \in Nat
        BY <1>1, BoostTargetType, ValueTypes, BaseType, RankOrder, HAAssumption
        DEF minActivePriority
      <4>3. BoostTarget(c, l) <= Base' + Rank(c)
        <5>1. CASE Trouble
          BY <4>2, <5>1, AnyBoost DEF Trouble
        <5>2. CASE Base' = Base /\ confirmed
          BY <4>1, <5>2, ElectedBoost
        <5> QED BY <1>3, <2>3, <5>1, <5>2
      <4>4. prio[l][c] < Base => prio[l][c] < Base'
        BY <1>3, <4>2 DEF Trouble
      <4> QED BY <1>2, <2>3, <3>1, <4>1, <4>3, <4>4 DEF RowStep
    <3> QED BY <3>2, <3>3
  <2>4. d # c => pending'[d][l] = pending[d][l]
    BY <1>1, <1>4 DEF TypeOK
  <2>5. \/ pending' = pending
        \/ pending'[c] = Boosts(c, TRUE)
        \/ pending'[c] = Boosts(c, FALSE) /\ Trouble
    BY <1>1, <1>4 DEF TypeOK
  <2> QED BY <2>2, <2>3, <2>4, <2>5
<1> QED BY <1>2, <1>3, <1>5, <1>6, <1>7 DEF GrowthStep, CacheStep, OwnStep

\* Every step is one that keeps the invariant.
LEMMA NextGrowth ==
  ASSUME TieFlaps = FALSE, PromptElections = TRUE, GrowthInv, TypeOK', Next
  PROVE  GrowthStep
<1>1. TypeOK
  BY DEF GrowthInv
<1>2. ASSUME NEW l \in LRP, Release(l) \/ \E c \in Chassis : Claim(l, c) PROVE GrowthStep
  <2>1. UNCHANGED <<prio, up, pc, nbCache, pending, faults, exits>>
    BY <1>2 DEF Release, Claim, agentVars
  <2>2. Base' = Base
    BY <2>1 DEF Base
  <2>3. RunningUp'
    BY <2>1 DEF GrowthInv, RunningUp
  <2> QED BY <2>1, <2>2, <2>3, QuietStep DEF AwayStep
<1>3. ASSUME NEW c \in Chassis, Connect(c) PROVE GrowthStep
  <2>1. /\ UNCHANGED <<prio, up, pending, exits>> /\ c \in up
        /\ faults' \in {faults, faults + 1}
        /\ pc[c] = "down" /\ pc'[c] \in Live
        /\ \A d \in Chassis \ {c} : pc'[d] = pc[d]
        /\ \E h : nbCache' = [nbCache EXCEPT ![c] = MonitorView(prio, h)]
    BY <1>1, <1>3 DEF Connect, Fault, Goto, TypeOK, Live, ovnVars
  <2>2. Base' = Base \/ Trouble
    BY <1>1, <2>1, CostStep
  <2>3. RunningUp'
    BY <2>1 DEF GrowthInv, RunningUp
  <2>4. \A d \in Chassis : nbCache'[d] = nbCache[d] \/ \E h : nbCache'[d] = MonitorView(prio, h)
    BY <1>1, <2>1 DEF TypeOK
  <2>5. \A d \in Chassis : AwayStep(d)
    BY <2>1 DEF AwayStep, Live
  <2> QED BY <2>1, <2>2, <2>3, <2>4, <2>5, QuietStep
<1>4. ASSUME NEW c \in Chassis, RestoreDrainedGateways(c) PROVE GrowthStep
  <2> DEFINE S == {l \in LRP : OwnRow(c, l) = 0}
             new == [l \in LRP |-> 1]
  <2>1. /\ UNCHANGED <<up, hidden, pending, exits>>
        /\ pc[c] = "restore" /\ pc'[c] = "reconcile"
        /\ \A d \in Chassis \ {c} : pc'[d] = pc[d]
        /\ \/ faults' \in {faults, faults + 1} /\ UNCHANGED <<prio, nbCache>>
           \/ TransactOk(c, S, new) \/ TransactFails(c, S, new)
    BY <1>1, <1>4 DEF RestoreDrainedGateways, NoTransaction, SelectFails, Fault, Goto, TypeOK
  <2>2. pending' = [pending EXCEPT ![c] = NoPending]
    BY <1>1, <2>1, NothingPending DEF TypeOK
  <2>3. CASE faults' \in {faults, faults + 1} /\ UNCHANGED <<prio, nbCache>>
    <3>1. Base' = Base \/ Trouble
      BY <1>1, <2>1, <2>3, CostStep
    <3>2. RunningUp'
      BY <2>1 DEF GrowthInv, RunningUp, Running, Phase, Live
    <3>3. \A d \in Chassis : AwayStep(d)
      BY <2>1 DEF AwayStep
    <3> QED BY <2>1, <2>3, <3>1, <3>2, <3>3, QuietStep
  <2>4. CASE TransactOk(c, S, new) \/ TransactFails(c, S, new)
    <3>1. ASSUME NEW l \in S
          PROVE  /\ new[l] >= 0 /\ new[l] <= Base + Rank(c)
                 /\ new[l] >= prio[l][c] \/ prio[l][c] < Base
      <4>1. Base \in Nat /\ Base >= 2 /\ Rank(c) \in Nat /\ prio[l][c] \in Int
        BY <1>1, BaseType, RankOrder, ValueTypes DEF minActivePriority
      <4>2. prio[l][c] = 0 \/ prio[l][c] < Base
        BY DEF OwnRow, GrowthInv, OwnBelow, NoRow
      <4> QED BY <4>1, <4>2
    <3>2. S \in SUBSET LRP /\ new \in [LRP -> Int]
      OBVIOUS
    <3>3. pc[c] \in Running /\ pc'[c] \in Running \ {"drain"}
      BY <2>1 DEF Running, Phase, Live
    <3> HIDE DEF S, new
    <3> QED BY <2>1, <2>2, <2>4, <3>1, <3>2, <3>3, WriteStep
  <2> QED BY <2>1, <2>3, <2>4
<1>5. ASSUME NEW c \in Chassis, CheckLead(c) PROVE GrowthStep
  BY <1>5, CheckLeadStep
<1>6. ASSUME NEW c \in Chassis, BoostPriorities(c) PROVE GrowthStep
  <2> DEFINE S == {l \in LRP : pending[c][l] # NoRow}
  <2>1. /\ UNCHANGED <<up, hidden, exits>>
        /\ pc[c] = "boost" /\ pc'[c] = "running"
        /\ \A d \in Chassis \ {c} : pc'[d] = pc[d]
        /\ TransactOk(c, S, pending[c]) \/ TransactFails(c, S, pending[c])
        /\ pending' = [pending EXCEPT ![c] = NoPending]
    BY <1>1, <1>6 DEF BoostPriorities, Goto, TypeOK
  <2>2. pending[c] \in [LRP -> -1 .. MaxPriority + 1]
    BY <1>1 DEF TypeOK, NoRow
  <2>3. ASSUME NEW l \in S
        PROVE  /\ pending[c][l] >= 0 /\ pending[c][l] <= Base + Rank(c)
               /\ pending[c][l] >= prio[l][c] \/ prio[l][c] < Base
    BY <1>1, <2>2, ValueTypes, HAAssumption DEF GrowthInv, RanksKept, BoostBelow, NoRow
  <2>4. S \in SUBSET LRP /\ pending[c] \in [LRP -> Int]
    BY <2>2, HAAssumption
  <2>5. pc[c] \in Running /\ pc'[c] \in Running \ {"drain"}
    BY <2>1 DEF Running, Phase, Live
  <2> HIDE DEF S
  <2> QED BY <2>1, <2>3, <2>4, <2>5, WriteStep
<1>7. ASSUME NEW c \in Chassis, LowerPriorities(c) PROVE GrowthStep
  <2> DEFINE S == DrainCandidates(c)
             new == [l \in LRP |-> DrainPriority]
  <2>1. /\ UNCHANGED <<up, hidden, pending, exits>>
        /\ pc[c] = "drain" /\ pc'[c] \in {"leaving", "polling"}
        /\ \A d \in Chassis \ {c} : pc'[d] = pc[d]
        /\ \/ faults' \in {faults, faults + 1} /\ UNCHANGED <<prio, nbCache>>
           \/ TransactOk(c, S, new) \/ TransactFails(c, S, new)
    BY <1>1, <1>7 DEF LowerPriorities, NoTransaction, SelectFails, Fault, Goto, TypeOK
  <2>2. pending' = [pending EXCEPT ![c] = NoPending]
    BY <1>1, <2>1, NothingPending DEF TypeOK
  <2>3. CASE faults' \in {faults, faults + 1} /\ UNCHANGED <<prio, nbCache>>
    <3>1. Base' = Base \/ Trouble
      BY <1>1, <2>1, <2>3, CostStep
    <3>2. RunningUp'
      BY <2>1 DEF GrowthInv, RunningUp, Running, Phase
    <3>3. \A d \in Chassis : AwayStep(d)
      BY <2>1 DEF AwayStep
    <3> QED BY <2>1, <2>3, <3>1, <3>2, <3>3, QuietStep
  <2>4. CASE TransactOk(c, S, new) \/ TransactFails(c, S, new)
    <3>1. ASSUME NEW l \in S
          PROVE  /\ new[l] >= 0 /\ new[l] <= Base + Rank(c)
                 /\ new[l] >= prio[l][c] \/ prio[l][c] < Base
      <4>1. Base \in Nat /\ Rank(c) \in Nat /\ l \in LRP
        BY <1>1, BaseType, RankOrder DEF DrainCandidates
      <4>2. prio[l][c] < Base
        BY <2>1, <4>1 DEF GrowthInv, AwayBelow
      <4>3. new[l] = 0
        BY <4>1 DEF DrainPriority
      <4> QED BY <4>1, <4>2, <4>3
    <3>2. S \in SUBSET LRP /\ new \in [LRP -> Int]
      BY DEF DrainCandidates, DrainPriority
    <3>3. pc[c] \in Running /\ pc'[c] \in Running \ {"drain"}
      BY <2>1 DEF Running, Phase
    <3> HIDE DEF S, new
    <3> QED BY <2>1, <2>2, <2>4, <3>1, <3>2, <3>3, WriteStep
  <2> QED BY <2>1, <2>3, <2>4
<1>8. ASSUME NEW c \in Chassis, PollEmpty(c) \/ PollFails(c) \/ DrainEnds(c) PROVE GrowthStep
  <2>1. /\ UNCHANGED <<prio, up, nbCache, pending, exits>>
        /\ faults' \in {faults, faults + 1}
        /\ pc[c] \in {"polling", "settling"} /\ pc'[c] \in {"settling", "leaving"}
        /\ \A d \in Chassis \ {c} : pc'[d] = pc[d]
    BY <1>1, <1>8 DEF PollEmpty, PollFails, DrainEnds, Fault, Goto, TypeOK, ovnVars, agentVars
  <2>2. Base' = Base \/ Trouble
    BY <1>1, <2>1, CostStep
  <2>3. RunningUp'
    BY <2>1 DEF GrowthInv, RunningUp, Running, Phase
  <2>4. \A d \in Chassis : AwayStep(d)
    BY <2>1 DEF AwayStep
  <2> QED BY <2>1, <2>2, <2>3, <2>4, QuietStep
<1>9. ASSUME NEW c \in Chassis, Leave(c) \/ Crash(c) PROVE GrowthStep
  <2>1. /\ Forget(c) /\ UNCHANGED <<prio, faults>>
        /\ \/ up' = up /\ exits' = exits
           \/ up \ {c} \subseteq up' /\ up' \subseteq up /\ exits' = exits + 1
    BY <1>9 DEF Leave, Crash, ovnVars
  <2>2. /\ pc'[c] = "down" /\ \A d \in Chassis \ {c} : pc'[d] = pc[d]
        /\ nbCache'[c] = NoRows /\ \A d \in Chassis \ {c} : nbCache'[d] = nbCache[d]
        /\ pending'[c] = NoPending /\ \A d \in Chassis \ {c} : pending'[d] = pending[d]
    BY <1>1, <2>1 DEF Forget, Goto, TypeOK
  <2>3. (Base' = Base \/ Trouble) /\ (up' = up \/ Trouble)
    <3>1. exits' = exits + 1 => exits' # exits
      BY <1>1 DEF TypeOK
    <3> QED BY <1>1, <2>1, <3>1, CostStep
  <2>4. RunningUp'
    BY <2>1, <2>2 DEF GrowthInv, RunningUp, Running
  <2>5. \A d \in Chassis : AwayStep(d)
    BY <2>2, <2>3 DEF AwayStep
  <2>6. ASSUME NEW d \in Chassis, NEW l \in LRP
        PROVE  /\ RowStep(d, l) /\ OwnStep(d, l)
               /\ pending'[d][l] # NoRow => pc'[d] = "boost"
    <3>1. CASE d = c
      BY <2>1, <2>2, <3>1 DEF RowStep, OwnStep, NoPending, NoRows
    <3>2. CASE d # c
      BY <2>1, <2>2, <3>2 DEF RowStep, OwnStep, GrowthInv, BoostBelow
    <3> QED BY <3>1, <3>2
  <2>7. ASSUME NEW d \in Chassis, NEW e \in Chassis, NEW l \in LRP PROVE CacheStep(d, e, l)
    BY <2>2 DEF CacheStep, NoRows
  <2> QED BY <2>3, <2>4, <2>5, <2>6, <2>7 DEF GrowthStep
<1>10. ASSUME NEW c \in Chassis, MonitorUpdate(c) \/ NodeReturns(c)
       PROVE  GrowthStep
  <2>1. /\ UNCHANGED <<prio, pc, pending, faults, exits>>
        /\ up \subseteq up'
        /\ nbCache' = nbCache \/ nbCache' = [nbCache EXCEPT ![c] = MonitorView(prio, hidden[c])]
    BY <1>10 DEF MonitorUpdate, NodeReturns, ovnVars, agentVars
  <2>2. Base' = Base
    BY <2>1 DEF Base
  <2>3. RunningUp'
    BY <2>1 DEF GrowthInv, RunningUp
  <2>4. \A d \in Chassis : nbCache'[d] = nbCache[d] \/ \E h : nbCache'[d] = MonitorView(prio, h)
    BY <1>1, <2>1 DEF TypeOK
  <2>5. \A d \in Chassis : AwayStep(d)
    BY <2>1 DEF AwayStep
  <2> QED BY <2>1, <2>2, <2>3, <2>4, <2>5, QuietStep
<1>11. ASSUME NEW c \in Chassis, Stop(c) PROVE GrowthStep
  <2>1. /\ UNCHANGED <<prio, up, nbCache, pending, faults>> /\ exits' = exits + 1
        /\ pc[c] = "running" /\ \A d \in Chassis \ {c} : pc'[d] = pc[d]
    BY <1>1, <1>11 DEF Stop, Goto, TypeOK, ovnVars, agentVars
  <2>2. Trouble
    <3>1. exits' # exits
      BY <1>1, <2>1 DEF TypeOK
    <3> QED BY <1>1, <2>1, <3>1, CostStep
  <2>3. RunningUp'
    BY <2>1 DEF GrowthInv, RunningUp, Running, Phase, Live
  <2> QED BY <2>1, <2>2, <2>3, QuietStep DEF AwayStep
<1>12. ASSUME NEW c \in Chassis, RefreshState(c) PROVE GrowthStep
  <2>1. /\ UNCHANGED <<prio, up, pc, nbCache, pending, exits>>
        /\ faults' \in {faults, faults + 1}
    BY <1>12 DEF RefreshState, Fault, ovnVars
  <2>2. Base' = Base \/ Trouble
    BY <1>1, <2>1, CostStep
  <2>3. RunningUp'
    BY <2>1 DEF GrowthInv, RunningUp
  <2> QED BY <2>1, <2>2, <2>3, QuietStep DEF AwayStep
<1> QED
  BY <1>2, <1>3, <1>4, <1>5, <1>6, <1>7, <1>8, <1>9, <1>10, <1>11, <1>12
  DEF Next, AgentStep

\* Nothing is above the highest initial priority at first.
LEMMA InitGrowth == Init => GrowthInv
<1> SUFFICES ASSUME Init PROVE GrowthInv
  OBVIOUS
<1>1. TypeOK
  BY InitType
<1>2. ASSUME NEW c \in Chassis, NEW l \in LRP
      PROVE  /\ prio[l][c] <= Base + Rank(c) /\ NoRow <= Base + Rank(c) /\ NoRow < Base
  <2>1. prio[l][c] \in InitPriorities
    BY DEF Init
  <2>2. Base \in Nat /\ Rank(c) \in Nat /\ Cardinality(Chassis) \in Nat
    BY <1>1, BaseType, RankOrder
  <2>3. Base = HighestInit
    <3>1. \A n \in Nat : n * (0 + 0) = 0
      OBVIOUS
    <3> QED BY <2>2, <3>1, HighestInitBounds DEF Init, Base
  <2>4. prio[l][c] <= Base /\ prio[l][c] \in Int
    BY <1>1, <2>1, <2>3, HighestInitBounds, ValueTypes
  <2> QED BY <2>2, <2>4 DEF NoRow
<1>3. /\ up = Chassis
      /\ \A c \in Chassis : pc[c] = "down" /\ nbCache[c] = NoRows /\ pending[c] = NoPending
  BY DEF Init
<1>4. RunningUp /\ AwayBelow /\ BoostBelow
  BY <1>3 DEF RunningUp, AwayBelow, BoostBelow, NoPending
<1>5. RanksKept
  BY <1>2, <1>3 DEF RanksKept, NoPending
<1>6. CacheBelow /\ OwnBelow
  BY <1>2, <1>3 DEF CacheBelow, OwnBelow, NoRows
<1> QED BY <1>1, <1>4, <1>5, <1>6 DEF GrowthInv

(***************************************************************************)
(* Priorities do not run away, for any number of chassis and ports, with   *)
(* incomplete caches and every kind of failure: if OVN decides ties by a   *)
(* fixed order and ends its elections before an agent reads them, an exit  *)
(* or a failure costs at most one priority per chassis                     *)
(* (EnsureActivePriorityLead).                                             *)
(***************************************************************************)
THEOREM PrioritiesBounded ==
  ASSUME TieFlaps = FALSE, PromptElections = TRUE
  PROVE  Spec => []PriorityGrowth
<1>1. ASSUME GrowthInv, [Next]_vars PROVE GrowthInv'
  <2>1. TypeOK'
    BY <1>1, TypeInvariant DEF GrowthInv
  <2>2. CASE Next
    BY <1>1, <2>1, <2>2, NextGrowth, GrowthStepKeeps
  <2>3. CASE UNCHANGED vars
    BY <1>1, <2>3 DEF vars, ovnVars, agentVars, GrowthInv, TypeOK, RunningUp, RanksKept,
                      AwayBelow, CacheBelow, OwnBelow, BoostBelow, Base, Rank
  <2> QED BY <1>1, <2>2, <2>3
<1>2. ASSUME GrowthInv PROVE PriorityGrowth
  <2>1. ASSUME NEW l \in LRP, NEW c \in Chassis
        PROVE  prio[l][c] < HighestInit + Cardinality(Chassis) * (1 + exits + faults)
    <3>1. TypeOK /\ prio[l][c] <= Base + Rank(c)
      BY <1>2 DEF GrowthInv, RanksKept
    <3>2. /\ Base \in Nat /\ Rank(c) \in Nat /\ Cardinality(Chassis) \in Nat
          /\ Rank(c) < Cardinality(Chassis) /\ prio[l][c] \in Int
      BY <3>1, BaseType, RankOrder, ValueTypes
    <3>3. HighestInit + Cardinality(Chassis) * (1 + exits + faults) = Base + Cardinality(Chassis)
      <4>1. exits \in Nat /\ faults \in Nat
        BY <3>1, HAAssumption DEF TypeOK
      <4>2. \A n, k \in Nat : n * (1 + k) = n * k + n /\ n * k \in Nat
        OBVIOUS
      <4>3. 1 + exits + faults = 1 + (exits + faults) /\ exits + faults \in Nat
        BY <4>1
      <4> QED BY <3>2, <4>2, <4>3, HighestInitBounds DEF Base
    <3> QED BY <3>1, <3>2, <3>3
  <2> QED BY <2>1 DEF PriorityGrowth, HighestInit
<1> QED BY <1>1, <1>2, InitGrowth, PTL DEF Spec
=============================================================================
