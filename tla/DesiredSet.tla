---------------------------- MODULE DesiredSet ----------------------------
(***************************************************************************)
(* What a reconciled table promises to whoever uses its entries: it is     *)
(* made before it is broken.  An entry is added only when it is wanted; as *)
(* long as a wanted one is missing nothing is taken out, and what is       *)
(* wanted never is, but by other hands.  What is wanted may change at any  *)
(* time; a step goes by what was wanted when it was taken.                 *)
(***************************************************************************)
EXTENDS Integers

VARIABLES
  table,   \* entries there are
  want,    \* entries there should be
  lost     \* how often other hands have taken some out

vars == <<table, want, lost>>

Init == table = {} /\ lost = 0

Add == table \subseteq table' /\ table' \subseteq table \cup want

Remove == want \subseteq table' /\ table' \subseteq table \cup want

Sync == (Add \/ Remove) /\ lost' = lost

Lose == table' \subseteq table /\ lost' = lost + 1

Next == Sync \/ Lose

Spec == Init /\ [][Next]_vars
=============================================================================
