--------------------------- MODULE MCFederationOutbox ---------------------------
(* An instance of FederationOutbox for TLC: two processes.                 *)
EXTENDS FederationOutbox

CONSTANTS d1, d2, p1, p2, wait1, catchup1, catchup2

LastElsewhere == [i \in Edus |-> IF i = 3 THEN d2 ELSE d1]
CallerProc == [c \in Callers |-> IF c = catchup2 THEN p2 ELSE p1]
=============================================================================
