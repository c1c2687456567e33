---------------------------- MODULE MCEventCheck ----------------------------
(* Instances of EventCheck for TLC.                                        *)
EXTENDS EventCheck, TLC

CONSTANTS r1, r2, r3, p1, e1

OneEvent == [r \in Requests |-> e1]
OneProc  == [r \in Requests |-> p1]

(* All requests ask for the same event on the same process.                *)
Symmetry == Permutations(Requests)
=============================================================================
