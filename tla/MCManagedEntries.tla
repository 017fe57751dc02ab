-------------------------- MODULE MCManagedEntries --------------------------
(* ManagedEntries with two or three chassis and one router.  No action        *)
(* distinguishes the chassis 1 and 2, so that it is enough to start with the  *)
(* router on 1.                                                               *)
EXTENDS ManagedEntries

CONSTANTS r1

OneRouter == {r1}
AllHosts  == [r \in Router |-> Chassis]
TwoHosts  == [r \in Router |-> {1, 2}]
NoOthers  == {}
OneOther  == {[id |-> 1, router |-> r1, mac |-> Other]}

FirstInit == Init /\ bound = [r \in Router |-> 1]
FromFirst == FirstInit /\ [][Next]_vars /\ Fairness
=============================================================================
