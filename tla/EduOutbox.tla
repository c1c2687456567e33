------------------------------- MODULE EduOutbox -------------------------------
(***************************************************************************)
(* What the federation outbox promises, without processes, locks or calls: *)
(* an EDU that was queued is delivered to its destination before it is     *)
(* forgotten, at least once, in batches of at most MaxBatch for one        *)
(* destination; and every queued EDU is forgotten in the end.              *)
(***************************************************************************)
EXTENDS Naturals, FiniteSets

CONSTANTS
    Edus,       \* EDU ids, natural numbers
    DestOf,     \* the destination server of each EDU
    MaxBatch    \* EDUs in one Matrix transaction

VARIABLE status     \* new, pending, delivered (not yet forgotten), settled

Init == status = [i \in Edus |-> "new"]

Queue(i) ==
    /\ status[i] = "new"
    /\ status' = [status EXCEPT ![i] = "pending"]

Batches ==
    {S \in SUBSET Edus :
        Cardinality(S) <= MaxBatch /\ \A i, j \in S : DestOf[i] = DestOf[j]}

(* A transaction reaches the destination; some of it may be a repetition.  *)
Deliver(S) ==
    /\ \A i \in S : status[i] \in {"pending", "delivered"}
    /\ status' = [i \in Edus |-> IF i \in S THEN "delivered" ELSE status[i]]

Settle(S) ==
    /\ \A i \in S : status[i] = "delivered"
    /\ status' = [i \in Edus |-> IF i \in S THEN "settled" ELSE status[i]]

Next ==
    \/ \E i \in Edus : Queue(i)
    \/ \E S \in Batches : Deliver(S) \/ Settle(S)

Spec ==
    /\ Init /\ [][Next]_status
    /\ \A i \in Edus : (status[i] = "pending") ~> (status[i] = "settled")
=============================================================================
