------------------------------- MODULE MCHellban -------------------------------
(* Instances of Hellban for TLC.                                           *)
EXTENDS Hellban, TLC

CONSTANTS p1, p2, c1, c2, u1, e1, e2, e3

(* Checks and communities are interchangeable.                             *)
Symmetry == Permutations(Checks) \cup Permutations(Communities)
=============================================================================
