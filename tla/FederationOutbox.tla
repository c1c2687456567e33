---------------------------- MODULE FederationOutbox ----------------------------
(***************************************************************************)
(* Outgoing federation: EDUs (to-device messages that instruct a           *)
(* moderation bot to redact) are rows of destination_edus; processes that  *)
(* share the database send them in Matrix transactions                     *)
(* (homeserver/outbound_transactions.go, tasks/federation_catchup.go,      *)
(* InsertEdu, BeginMatrixTransaction and GetDestinationsNeedingCatchup of  *)
(* storage/psql.go, the trigger of migration 18).                          *)
(*                                                                         *)
(* A caller is a goroutine that calls SendNextTransactionTo: the one that  *)
(* runs waitForEdus in each process, and the workers of the catchup task.  *)
(* In a process, callers for one destination share a singleflight; across  *)
(* processes only the lock on the destination's row keeps them apart.      *)
(***************************************************************************)
EXTENDS Naturals, FiniteSets, Sequences

CONSTANTS
    Edus,        \* ids of the EDUs that may be inserted, natural numbers
    Dests,       \* destination servers
    DestOf,      \* [Edus -> Dests]
    Procs,       \* policyserv processes
    Callers,     \* goroutines that call SendNextTransactionTo
    ProcOf,      \* [Callers -> Procs]
    Listeners,   \* the callers that run waitForEdus; the others do catchup
    None,        \* no caller, no destination
    MaxBatch,    \* EDUs in one transaction (100)
    MaxFaults    \* bound: failed calls, timeouts, lost notifications, crashes

ASSUME OutboxAssumption ==
    /\ Edus \subseteq Nat
    /\ IsFiniteSet(Edus)
    /\ DestOf \in [Edus -> Dests]
    /\ ProcOf \in [Callers -> Procs]
    /\ Listeners \subseteq Callers
    /\ None \notin Callers \cup Dests
    /\ MaxBatch \in Nat \ {0}
    /\ MaxFaults \in Nat

VARIABLES
    inserted,   \* history: EDUs that were inserted
    queued,     \* rows of destination_edus as other transactions see them
    lock,       \* holder of the lock on each destination's row
    notes,      \* notifications each process has yet to hand to waitForEdus
    stage,      \* where each caller is in SendNextTransactionTo
    target,     \* the destination it is called for
    leader,     \* the caller whose singleflight call it waits for, or itself
    batch,      \* EDUs its open database transaction has deleted
    flight,     \* singleflight map: the leading caller per process and dest
    deliveries, \* history: how often each EDU reached its destination
    faults      \* faults so far

vars == <<inserted, queued, lock, notes, stage, target, leader, batch, flight,
          deliveries, faults>>
rows == <<inserted, queued>>
calls == <<stage, target, leader, batch, flight>>

Keys == Procs \X Dests
KeyOf(c) == <<ProcOf[c], target[c]>>
Active == {"begin", "locked", "send", "commit"}

Init ==
    /\ inserted = {}
    /\ queued = {}
    /\ lock = [d \in Dests |-> None]
    /\ notes = [p \in Procs |-> <<>>]
    /\ stage = [c \in Callers |-> "idle"]
    /\ target = [c \in Callers |-> None]
    /\ leader = [c \in Callers |-> c]
    /\ batch = [c \in Callers |-> {}]
    /\ flight = [k \in Keys |-> None]
    /\ deliveries = [i \in Edus |-> 0]
    /\ faults = 0

Fault == faults < MaxFaults /\ faults' = faults + 1

(* The processes whose waitForEdus goroutine is modelled.                  *)
Listening == {ProcOf[c] : c \in Listeners}
Notify(ps, d) ==
    notes' = [p \in Procs |-> IF p \in ps THEN Append(notes[p], d) ELSE notes[p]]

(* Mutant: the trigger sends the new row's id instead of its destination.  *)
InsertEduNotifyingId(i) ==
    /\ i \notin inserted
    /\ inserted' = inserted \cup {i}
    /\ queued' = queued \cup {i}
    /\ Notify(Listening, i)
    /\ UNCHANGED <<lock, calls, deliveries, faults>>

(* InsertEdu.  The trigger notifies every listening process; a process     *)
(* that is reconnecting misses it.                                         *)
InsertEdu(i) ==
    /\ i \notin inserted
    /\ inserted' = inserted \cup {i}
    /\ queued' = queued \cup {i}
    /\ \/ Notify(Listening, DestOf[i]) /\ UNCHANGED faults
       \/ /\ Fault
          /\ \E missed \in Listening : Notify(Listening \ {missed}, DestOf[i])
    /\ UNCHANGED <<lock, calls, deliveries>>

(***************************************************************************)
(* SendNextTransactionTo                                                   *)
(***************************************************************************)

(* Enter the singleflight for d: lead a new call, or wait for the one that *)
(* is registered.                                                          *)
Call(c, d) ==
    LET k == <<ProcOf[c], d>> IN
    /\ target' = [target EXCEPT ![c] = d]
    /\ IF flight[k] = None
       THEN /\ flight' = [flight EXCEPT ![k] = c]
            /\ stage' = [stage EXCEPT ![c] = "begin"]
            /\ UNCHANGED leader
       ELSE /\ leader' = [leader EXCEPT ![c] = flight[k]]
            /\ stage' = [stage EXCEPT ![c] = "join"]
            /\ UNCHANGED flight
    /\ UNCHANGED batch

(* waitForEdus takes the next notification and sends, one at a time.       *)
Notified(c) ==
    LET p == ProcOf[c] IN
    /\ c \in Listeners
    /\ stage[c] = "idle"
    /\ notes[p] # <<>>
    /\ Call(c, Head(notes[p]))
    /\ notes' = [notes EXCEPT ![p] = Tail(@)]
    /\ UNCHANGED <<rows, lock, deliveries, faults>>

(* Mutant: the query counts, and is off by one.                            *)
NeedingCatchupSeveral ==
    {DestOf[i] : i \in {j \in queued : \E k \in queued : k # j /\ DestOf[k] = DestOf[j]}}

(* Destinations with a row no open transaction has locked by deleting it.  *)
NeedingCatchup ==
    {DestOf[i] : i \in queued \ UNION {batch[c] : c \in Callers}}

(* FederationCatchup: the query finds d behind ...                         *)
CatchupFinds(c, d) ==
    /\ c \notin Listeners
    /\ stage[c] = "idle"
    /\ d \in NeedingCatchup
    /\ stage' = [stage EXCEPT ![c] = "due"]
    /\ target' = [target EXCEPT ![c] = d]
    /\ UNCHANGED <<rows, lock, notes, leader, batch, flight, deliveries, faults>>

(* ... and later a worker of the task's pool makes the call.               *)
CatchupCalls(c) ==
    /\ stage[c] = "due"
    /\ Call(c, target[c])
    /\ UNCHANGED <<rows, lock, notes, deliveries, faults>>

(* The singleflight call led by c returns: the row lock and the deleted    *)
(* rows of its database transaction are released, the call leaves the map  *)
(* if it is still there, and every caller that waited for it returns.      *)
Return(c) ==
    /\ lock' = [d \in Dests |-> IF lock[d] = c THEN None ELSE lock[d]]
    /\ batch' = [batch EXCEPT ![c] = {}]
    /\ flight' = [flight EXCEPT ![KeyOf(c)] = IF @ = c THEN None ELSE @]
    /\ stage' = [b \in Callers |->
                    IF b = c \/ (stage[b] = "join" /\ leader[b] = c)
                    THEN "forget" ELSE stage[b]]
    /\ leader' = [b \in Callers |-> IF stage[b] = "join" /\ leader[b] = c
                                    THEN b ELSE leader[b]]
    /\ UNCHANGED target

(* Mutant: the destination's row is not locked first.                      *)
LockNothing(c) ==
    /\ stage[c] = "begin"
    /\ stage' = [stage EXCEPT ![c] = "locked"]
    /\ UNCHANGED <<rows, lock, notes, target, leader, batch, flight, deliveries, faults>>

(* BeginMatrixTransaction: the UPDATE of the destination waits for its row *)
(* lock ...                                                                *)
LockDestination(c) ==
    /\ stage[c] = "begin"
    /\ lock[target[c]] = None
    /\ lock' = [lock EXCEPT ![target[c]] = c]
    /\ stage' = [stage EXCEPT ![c] = "locked"]
    /\ UNCHANGED <<rows, notes, target, leader, batch, flight, deliveries, faults>>

Oldest(d) ==
    {i \in queued :
        /\ DestOf[i] = d
        /\ Cardinality({j \in queued : DestOf[j] = d /\ j < i}) < MaxBatch}

(* ... and the DELETE takes the oldest EDUs; with none, the call succeeds. *)
TakeEdus(c) ==
    /\ stage[c] = "locked"
    /\ IF Oldest(target[c]) = {}
       THEN Return(c)
       ELSE /\ batch' = [batch EXCEPT ![c] = Oldest(target[c])]
            /\ stage' = [stage EXCEPT ![c] = "send"]
            /\ UNCHANGED <<lock, target, leader, flight>>
    /\ UNCHANGED <<rows, notes, deliveries, faults>>

Reach(c) ==
    deliveries' = [i \in Edus |-> IF i \in batch[c] THEN deliveries[i] + 1
                                  ELSE deliveries[i]]

(* SendTransaction succeeds.                                               *)
Deliver(c) ==
    /\ stage[c] = "send"
    /\ Reach(c)
    /\ stage' = [stage EXCEPT ![c] = "commit"]
    /\ UNCHANGED <<rows, lock, notes, target, leader, batch, flight, faults>>

(* sqlTxn.Commit(): the deleted rows are gone.                             *)
Commit(c) ==
    /\ stage[c] = "commit"
    /\ queued' = queued \ batch[c]
    /\ Return(c)
    /\ UNCHANGED <<inserted, notes, deliveries, faults>>

(* Mutant: the failed send does not roll the DELETE back.                  *)
FailCommitted(c) ==
    /\ stage[c] \in Active
    /\ Fault
    /\ queued' = queued \ batch[c]
    /\ Return(c)
    /\ UNCHANGED <<inserted, notes, deliveries>>

(* The database fails or the minute is over before SendTransaction; the    *)
(* send fails, before or after the destination got it; or the commit       *)
(* fails.  The deferred Rollback keeps the rows.                           *)
Fail(c) ==
    /\ stage[c] \in Active
    /\ Fault
    /\ \/ stage[c] = "send" /\ Reach(c)
       \/ UNCHANGED deliveries
    /\ Return(c)
    /\ UNCHANGED <<rows, notes>>

(* The deferred Forget of every caller removes whatever call is registered *)
(* for the destination by then, also a later one.                          *)
Forget(c) ==
    /\ stage[c] = "forget"
    /\ flight' = [flight EXCEPT ![KeyOf(c)] = None]
    /\ stage' = [stage EXCEPT ![c] = "idle"]
    /\ target' = [target EXCEPT ![c] = None]
    /\ UNCHANGED <<rows, lock, notes, leader, batch, deliveries, faults>>

(* A process dies: its database transactions roll back, its goroutines,    *)
(* singleflight and undelivered notifications are gone; it starts again.   *)
Crash(p) ==
    LET on == {c \in Callers : ProcOf[c] = p} IN
    /\ Fault
    /\ lock' = [d \in Dests |-> IF lock[d] \in on THEN None ELSE lock[d]]
    /\ stage' = [c \in Callers |-> IF c \in on THEN "idle" ELSE stage[c]]
    /\ target' = [c \in Callers |-> IF c \in on THEN None ELSE target[c]]
    /\ leader' = [c \in Callers |-> IF c \in on THEN c ELSE leader[c]]
    /\ batch' = [c \in Callers |-> IF c \in on THEN {} ELSE batch[c]]
    /\ flight' = [k \in Keys |-> IF k[1] = p THEN None ELSE flight[k]]
    /\ notes' = [notes EXCEPT ![p] = <<>>]
    /\ UNCHANGED <<rows, deliveries>>

Progress(c) ==
    \/ Notified(c) \/ (\E d \in Dests : CatchupFinds(c, d)) \/ CatchupCalls(c)
    \/ LockDestination(c) \/ TakeEdus(c) \/ Deliver(c) \/ Commit(c) \/ Forget(c)

Next ==
    \/ \E i \in Edus : InsertEdu(i)
    \/ \E c \in Callers : Progress(c) \/ Fail(c)
    \/ \E p \in Procs : Crash(p)

Spec == Init /\ [][Next]_vars

(* Goroutines and timers run, so each step of a call that can be taken is  *)
(* taken, and catchup is attempted again and again for a destination that  *)
(* needs it.  Faults, insertions and crashes are not forced; the number of *)
(* faults is bounded by MaxFaults, which stands for "the destination and   *)
(* the database work in the end".                                          *)
Fairness == \A c \in Callers : WF_vars(Progress(c))

FairSpec == Spec /\ Fairness

(***************************************************************************)
(* Properties                                                              *)
(***************************************************************************)

(* Types of all variables of the outbox.                                   *)
TypeOK ==
    /\ inserted \in SUBSET Edus
    /\ queued \in SUBSET Edus
    /\ lock \in [Dests -> Callers \cup {None}]
    /\ notes \in [Procs -> Seq(Dests)]
    /\ stage \in [Callers -> {"idle", "due", "join", "forget"} \cup Active]
    /\ target \in [Callers -> Dests \cup {None}]
    /\ leader \in [Callers -> Callers]
    /\ batch \in [Callers -> SUBSET Edus]
    /\ flight \in [Keys -> Callers \cup {None}]
    /\ deliveries \in [Edus -> Nat]
    /\ faults \in Nat

(* "Lock the destination to prevent concurrent transactions" (psql.go:698):*)
(* no two Matrix transactions to one destination are under way at a time,  *)
(* although Forget lets one process have several calls for it.             *)
OneTransactionPerDestination ==
    \A b, c \in Callers :
        (b # c /\ stage[b] \in {"send", "commit"} /\ stage[c] \in {"send", "commit"})
            => target[b] # target[c]

(* An EDU leaves the table only after it reached its destination, whatever *)
(* fails between the DELETE and the COMMIT.                                *)
NothingLost == \A i \in inserted : i \in queued \/ deliveries[i] >= 1

(* An EDU reaches its destination once, and once more at most for every    *)
(* fault: overlapping callers never send the same rows twice.              *)
RepeatsAreFaults == \A i \in Edus : deliveries[i] <= 1 + faults

(* The outbox implements the abstract one: at least once, and eventually.  *)
Status ==
    [i \in Edus |->
        IF i \notin inserted THEN "new"
        ELSE IF i \notin queued THEN "settled"
        ELSE IF deliveries[i] = 0 THEN "pending" ELSE "delivered"]

Abstract == INSTANCE EduOutbox WITH status <- Status

ImplementsOutbox == Abstract!Spec
=============================================================================
