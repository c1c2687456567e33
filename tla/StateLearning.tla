------------------------------ MODULE StateLearning ------------------------------
(***************************************************************************)
(* The queue of rooms whose state is to be learned (homeserver/            *)
(* learn_state.go, tasks/state_cache.go, storage/psql.go) and what the     *)
(* learners store (homeserver/learning, trust).                            *)
(*                                                                         *)
(* The events that ask for learning are numbered in the order they come;   *)
(* the number stands for the event, for the state at it and, two minutes   *)
(* being the same for all, for after_ts.                                   *)
(***************************************************************************)
EXTENDS Tables

CONSTANTS
    Procs,
    StateAt,   \* StateAt[r][n]: the state of room r at event n
    MaxFaults  \* bound: runs of the task that end early

ASSUME LearnAssumption ==
    /\ MaxFaults \in Nat
    /\ DOMAIN StateAt = Rooms
    /\ \A r \in Rooms : DOMAIN StateAt[r] = 1 .. MaxEvents

VARIABLES
    ripe,       \* the queue's items up to this one are due
    queue,      \* [Rooms -> the event of the room's item, 0 for none]
    pushCache,  \* learnStateCache of each process
    learned,    \* what the learners have stored of each room
    faults

learning == <<events, ripe, queue, pushCache, learned, faults>>

LearnInit ==
    /\ ripe = 0
    /\ queue = [r \in Rooms |-> 0]
    /\ pushCache = [p \in Procs |-> {}]
    /\ learned = [r \in Rooms |-> Nothing]
    /\ faults = 0

(* Rooms whose item is deleted in a transaction that is open.              *)
Taken == {key[t] : t \in {u \in Tasks : at[u] # "idle"}}

(* The learners that fail for the room's item, each time.                  *)
Failures ==
    [r \in Rooms |->
        [n \in 1 .. MaxEvents |-> {l \in Learners : Fails(l, r, StateAt[r][n])}]]
Failing(r) == Failures[r][queue[r]]

(* queueLearnStateIfNeeded for an event that was not prohibited, comes     *)
(* from a trusted origin, and is due for its room or can be learned from;  *)
(* and PushStateLearnQueue.  A push made less than a minute ago answers    *)
(* for this one, and so does an item that is there.  The insert fails with *)
(* the database, or when it has waited a minute for the transaction that   *)
(* deletes the room's item; the cache keeps that as well.                  *)
QueueLearn(p, r) ==
    /\ events < MaxEvents /\ MoreWork
    /\ r \in DOMAIN Source
    /\ events' = events + 1
    /\ pushCache' = [pushCache EXCEPT ![p] = @ \cup {r}]
    /\ \/ /\ r \notin Taken \cup pushCache[p]
          /\ queue' = [queue EXCEPT ![r] = IF @ = 0 THEN events + 1 ELSE @]
       \/ UNCHANGED queue
    /\ UNCHANGED <<tables, writers, ripe, learned, faults>>

(* A minute has passed.                                                    *)
ForgetPush(p, r) ==
    /\ r \in pushCache[p]
    /\ pushCache' = [pushCache EXCEPT ![p] = @ \ {r}]
    /\ UNCHANGED <<tables, writers, events, ripe, queue, learned, faults>>

(* Two minutes have passed.                                                *)
Ripen ==
    /\ ripe < events
    /\ ripe' = ripe + 1
    /\ UNCHANGED <<tables, writers, events, queue, pushCache, learned, faults>>

(* The first item that is due and that no transaction has locked.          *)
NextDue(r) ==
    LET free == {x \in Rooms \ Taken : queue[x] \in 1 .. ripe}
    IN  r \in free /\ \A x \in free : queue[r] <= queue[x]

(* The run of the task is over.                                           *)
End(t) ==
    /\ Goto(t, "idle")
    /\ key' = [key EXCEPT ![t] = None]
    /\ Drop(t)

Take(t, r, s) ==
    /\ at[t] = "idle"
    /\ NextDue(r)
    /\ Goto(t, s)
    /\ key' = [key EXCEPT ![t] = r]
    /\ UNCHANGED <<tables, copy, events, ripe, queue, pushCache, learned>>

(* PopStateLearnQueue.                                                     *)
Pop(t, r) == Take(t, r, "learn") /\ UNCHANGED faults

(* PopStateLearnQueue when the item cannot be read although it is deleted, *)
(* the task's two minutes being over: the error is returned without the    *)
(* transaction, which nobody rolls back.                                   *)
PopLeaks(t, r) ==
    /\ faults < MaxFaults
    /\ faults' = faults + 1
    /\ Take(t, r, "leaked")

(* Mutant: the errors of the learners are logged and not returned.         *)
LearnRegardless(t) ==
    LET r == key[t] IN
    /\ at[t] = "learn"
    /\ r \in DOMAIN Source
    /\ Goto(t, "fresh")
    /\ learned' = [learned EXCEPT ![r] = LearnFrom(r, @, StateAt[r][queue[r]], Failing(r))]
    /\ UNCHANGED <<tables, key, copy, events, ripe, queue, pushCache, faults>>

(* LearnState up to LearnFrom.  Learners fail that cannot decode the state *)
(* or write to the database; then the item is rolled back and the task     *)
(* ends.                                                                   *)
Learn(t) ==
    LET r == key[t] IN
    /\ at[t] = "learn"
    /\ r \in DOMAIN Source
    /\ \E bad \in SUBSET Learners :
          /\ Failing(r) \subseteq bad
          /\ \/ bad = Failing(r) /\ UNCHANGED faults
             \/ bad # Failing(r) /\ faults < MaxFaults /\ faults' = faults + 1
          /\ learned' = [learned EXCEPT ![r] = LearnFrom(r, @, StateAt[r][queue[r]], bad)]
          /\ IF bad = {} THEN Goto(t, "fresh") /\ UNCHANGED <<key, copy>> ELSE End(t)
    /\ UNCHANGED <<tables, events, ripe, queue, pushCache>>

(* LearnState reads the room afresh ...                                    *)
Refetch(t) ==
    /\ at[t] = "fresh"
    /\ key[t] \in DOMAIN Source
    /\ Hold(t, key[t])
    /\ UNCHANGED learning

(* ... and stores it with the new stamp.                                   *)
Stamp(t) ==
    LET r == key[t] IN
    /\ at[t] = "write"
    /\ Write(t, [copy[t] EXCEPT !.stamp = queue[r]],
                [intended[r] EXCEPT !.stamp = queue[r]])
    /\ Goto(t, "commit")
    /\ UNCHANGED learning

(* Mutant: the transaction is rolled back at the end, too.                 *)
CommitNever(t) ==
    /\ at[t] = "commit"
    /\ End(t)
    /\ UNCHANGED <<tables, learning>>

Commit(t) ==
    /\ at[t] = "commit"
    /\ queue' = [queue EXCEPT ![key[t]] = 0]
    /\ End(t)
    /\ UNCHANGED <<tables, events, ripe, pushCache, learned, faults>>

(* LearnState, or the commit, fails or runs out of time: the deferred      *)
(* rollback puts the item back.  Or the process dies, which also ends a    *)
(* transaction that was left open.                                         *)
Abandon(t) ==
    /\ at[t] # "idle"
    /\ \/ faults < MaxFaults /\ faults' = faults + 1
       \/ at[t] = "leaked" /\ UNCHANGED faults
    /\ End(t)
    /\ UNCHANGED <<tables, events, ripe, queue, pushCache, learned>>

Task(t) ==
    \/ \E r \in Rooms : Pop(t, r)
    \/ Learn(t) \/ Refetch(t) \/ Stamp(t) \/ Commit(t)

LearnNext ==
    \/ \E p \in Procs, r \in Rooms : QueueLearn(p, r) \/ ForgetPush(p, r)
    \/ Ripen
    \/ \E t \in Tasks : Task(t) \/ Abandon(t)
    \/ \E t \in Tasks, r \in Rooms : PopLeaks(t, r)
=============================================================================
