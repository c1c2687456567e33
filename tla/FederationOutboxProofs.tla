------------------------- MODULE FederationOutboxProofs -------------------------
(***************************************************************************)
(* Theorems about FederationOutbox for any number of EDUs, destinations,   *)
(* processes, callers and faults.                                          *)
(***************************************************************************)
EXTENDS FederationOutbox, FiniteSetTheorems, TLAPS

(* A caller that is not idle has a destination.                            *)
Targeted == \A c \in Callers : stage[c] # "idle" => target[c] \in Dests

(* The stages in which a call holds the lock of its destination's row.     *)
Holding == {"locked", "send", "commit"}

(* A call that is past the UPDATE of its destination holds that row lock.  *)
HoldersAreLocked == \A c \in Callers : stage[c] \in Holding => lock[target[c]] = c

(* The EDUs a database transaction has deleted are rows of its destination *)
(* and belong to a call that is sending or committing.                     *)
BatchesAreRows ==
    \A c \in Callers : \A i \in batch[c] :
        /\ i \in queued
        /\ DestOf[i] = target[c]
        /\ stage[c] \in {"send", "commit"}

(* Rows are inserted first, an EDU that was never inserted is not sent, and*)
(* what is about to be committed has reached its destination.              *)
SentFromRows ==
    /\ queued \subseteq inserted
    /\ \A i \in Edus \ inserted : deliveries[i] = 0
    /\ \A c \in Callers : stage[c] = "commit" => \A i \in batch[c] : deliveries[i] >= 1

(* An EDU that was forgotten, or that is about to be.                      *)
Sent(i) ==
    \/ i \in inserted \ queued
    \/ \E c \in Callers : stage[c] = "commit" /\ i \in batch[c]

(* Only such an EDU may have been delivered once more than there were      *)
(* faults.                                                                 *)
RepeatsCounted ==
    \A i \in Edus : deliveries[i] <= faults \/ (Sent(i) /\ deliveries[i] <= 1 + faults)

IInv == TypeOK /\ Targeted /\ HoldersAreLocked /\ BatchesAreRows /\ SentFromRows /\ NothingLost

(***************************************************************************)
(* Types                                                                   *)
(***************************************************************************)

(* Every variable has its type initially, and every caller is idle.        *)
LEMMA TypeInit == ASSUME OutboxAssumption, Init PROVE TypeOK /\ Targeted
  BY DEF OutboxAssumption, Init, TypeOK, Targeted, Keys

(* Entering the singleflight keeps the types of what it changes.           *)
LEMMA CallTypes ==
  ASSUME OutboxAssumption, TypeOK, NEW c \in Callers, NEW d \in Dests, Call(c, d)
  PROVE  /\ stage' \in [Callers -> {"idle", "due", "join", "forget"} \cup Active]
         /\ target' \in [Callers -> Dests \cup {None}]
         /\ leader' \in [Callers -> Callers]
         /\ batch' \in [Callers -> SUBSET Edus]
         /\ flight' \in [Keys -> Callers \cup {None}]
  <1>1. <<ProcOf[c], d>> \in Keys
    BY DEF OutboxAssumption, Keys
  <1> DEFINE k == <<ProcOf[c], d>>
  <1>2. flight[k] \in Callers \cup {None}
    BY <1>1 DEF TypeOK
  <1>3. CASE flight[k] = None
    <2>1. /\ flight' = [flight EXCEPT ![k] = c]
          /\ stage' = [stage EXCEPT ![c] = "begin"]
          /\ target' = [target EXCEPT ![c] = d]
          /\ UNCHANGED <<leader, batch>>
      BY <1>3 DEF Call
    <2> HIDE DEF k
    <2> QED BY <2>1 DEF TypeOK, Active
  <1>4. CASE flight[k] # None
    <2>1. /\ leader' = [leader EXCEPT ![c] = flight[k]]
          /\ stage' = [stage EXCEPT ![c] = "join"]
          /\ target' = [target EXCEPT ![c] = d]
          /\ UNCHANGED <<flight, batch>>
      BY <1>4 DEF Call
    <2>2. flight[k] \in Callers
      BY <1>2, <1>4
    <2> HIDE DEF k
    <2> QED BY <2>1, <2>2 DEF TypeOK, Active
  <1> QED BY <1>3, <1>4

(* The return of a singleflight call keeps the types of what it changes.   *)
LEMMA ReturnTypes ==
  ASSUME OutboxAssumption, TypeOK, NEW c \in Callers, Return(c)
  PROVE  /\ lock' \in [Dests -> Callers \cup {None}]
         /\ stage' \in [Callers -> {"idle", "due", "join", "forget"} \cup Active]
         /\ target' \in [Callers -> Dests \cup {None}]
         /\ leader' \in [Callers -> Callers]
         /\ batch' \in [Callers -> SUBSET Edus]
         /\ flight' \in [Keys -> Callers \cup {None}]
  BY DEF OutboxAssumption, TypeOK, Return, Active

(* A delivery keeps the counters natural.                                  *)
LEMMA ReachTypes ==
  ASSUME TypeOK, NEW c \in Callers, Reach(c)
  PROVE  deliveries' \in [Edus -> Nat]
  BY DEF TypeOK, Reach

(* Every step keeps the types.                                             *)
LEMMA TypeStep ==
  ASSUME OutboxAssumption, TypeOK, Targeted, [Next]_vars
  PROVE  TypeOK'
  <1> USE DEF OutboxAssumption
  <1>1. ASSUME NEW i \in Edus, InsertEdu(i) PROVE TypeOK'
    <2>1. notes' \in [Procs -> Seq(Dests)]
      <3>1. ASSUME NEW ps, Notify(ps, DestOf[i]) PROVE notes' \in [Procs -> Seq(Dests)]
        BY <3>1 DEF Notify, TypeOK
      <3> QED BY <1>1, <3>1 DEF InsertEdu
    <2>2. faults' \in Nat
      BY <1>1 DEF InsertEdu, Fault, TypeOK
    <2> QED BY <1>1, <2>1, <2>2 DEF InsertEdu, TypeOK, calls
  <1>2. ASSUME NEW c \in Callers, Notified(c) PROVE TypeOK'
    <2>1. ProcOf[c] \in Procs /\ notes[ProcOf[c]] \in Seq(Dests) /\ notes[ProcOf[c]] # <<>>
      BY <1>2 DEF Notified, TypeOK
    <2>2. Head(notes[ProcOf[c]]) \in Dests /\ Tail(notes[ProcOf[c]]) \in Seq(Dests)
      BY <2>1
    <2>3. notes' \in [Procs -> Seq(Dests)]
      BY <1>2, <2>2 DEF Notified, TypeOK
    <2> QED
      BY <1>2, <2>2, <2>3, CallTypes DEF Notified, TypeOK, rows
  <1>3. ASSUME NEW c \in Callers, NEW d \in Dests, CatchupFinds(c, d) PROVE TypeOK'
    BY <1>3 DEF CatchupFinds, TypeOK, rows
  <1>4. ASSUME NEW c \in Callers, CatchupCalls(c) PROVE TypeOK'
    <2>1. target[c] \in Dests
      BY <1>4 DEF CatchupCalls, Targeted
    <2> QED BY <1>4, <2>1, CallTypes DEF CatchupCalls, TypeOK, rows
  <1>5. ASSUME NEW c \in Callers, LockDestination(c) PROVE TypeOK'
    BY <1>5 DEF LockDestination, TypeOK, rows, Active
  <1>6. ASSUME NEW c \in Callers, TakeEdus(c) PROVE TypeOK'
    <2>1. CASE Oldest(target[c]) = {}
      BY <1>6, <2>1, ReturnTypes DEF TakeEdus, TypeOK, rows
    <2>2. CASE Oldest(target[c]) # {}
      <3>1. Oldest(target[c]) \in SUBSET Edus
        BY DEF Oldest, TypeOK
      <3>2. batch' \in [Callers -> SUBSET Edus]
        BY <1>6, <2>2, <3>1 DEF TakeEdus, TypeOK
      <3>3. stage' \in [Callers -> {"idle", "due", "join", "forget"} \cup Active]
        <4>1. stage' = [stage EXCEPT ![c] = "send"] /\ "send" \in Active
          BY <1>6, <2>2 DEF TakeEdus, Active
        <4> QED BY <4>1 DEF TypeOK
      <3> QED BY <1>6, <2>2, <3>2, <3>3 DEF TakeEdus, TypeOK, rows
    <2> QED BY <2>1, <2>2
  <1>7. ASSUME NEW c \in Callers, Deliver(c) PROVE TypeOK'
    BY <1>7, ReachTypes DEF Deliver, TypeOK, rows, Active
  <1>8. ASSUME NEW c \in Callers, Commit(c) PROVE TypeOK'
    BY <1>8, ReturnTypes DEF Commit, TypeOK
  <1>9. ASSUME NEW c \in Callers, Forget(c) PROVE TypeOK'
    BY <1>9 DEF Forget, TypeOK, rows
  <1>10. ASSUME NEW c \in Callers, Fail(c) PROVE TypeOK'
    <2>1. deliveries' \in [Edus -> Nat]
      BY <1>10, ReachTypes DEF Fail, TypeOK
    <2> QED BY <1>10, <2>1, ReturnTypes DEF Fail, Fault, TypeOK, rows
  <1>11. ASSUME NEW p \in Procs, Crash(p) PROVE TypeOK'
    BY <1>11 DEF Crash, Fault, TypeOK, rows
  <1>12. CASE UNCHANGED vars
    BY <1>12 DEF vars, TypeOK
  <1> QED
    BY <1>1, <1>2, <1>3, <1>4, <1>5, <1>6, <1>7, <1>8, <1>9, <1>10, <1>11, <1>12
    DEF Next, Progress

(***************************************************************************)
(* Who holds what                                                          *)
(***************************************************************************)

(* What a returning call does to the others: nothing they hold is touched. *)
LEMMA ReturnEffect ==
  ASSUME TypeOK, NEW c \in Callers, Return(c)
  PROVE  /\ stage'[c] = "forget"
         /\ batch'[c] = {}
         /\ target' = target
         /\ \A b \in Callers \ {c} :
               /\ batch'[b] = batch[b]
               /\ stage'[b] = stage[b] \/ (stage[b] = "join" /\ stage'[b] = "forget")
         /\ \A d \in Dests : \A b \in Callers \ {c} : lock[d] = b => lock'[d] = b
  BY DEF Return, TypeOK

(* What entering the singleflight does.                                    *)
LEMMA CallEffect ==
  ASSUME TypeOK, NEW c \in Callers, NEW d \in Dests, Call(c, d)
  PROVE  /\ stage'[c] \in {"begin", "join"}
         /\ target'[c] = d
         /\ batch' = batch
         /\ \A b \in Callers \ {c} : stage'[b] = stage[b] /\ target'[b] = target[b]
  BY DEF Call, TypeOK

(* The next destination waitForEdus is told about is one.                  *)
LEMMA NotedDestination ==
  ASSUME OutboxAssumption, TypeOK, NEW c \in Callers, Notified(c)
  PROVE  Head(notes[ProcOf[c]]) \in Dests
  BY DEF OutboxAssumption, TypeOK, Notified

(* Every step keeps callers targeted and holders locked.                   *)
LEMMA LockStep ==
  ASSUME OutboxAssumption, TypeOK, Targeted, HoldersAreLocked, [Next]_vars
  PROVE  Targeted' /\ HoldersAreLocked'
  <1> USE DEF Targeted, HoldersAreLocked, Holding
  <1>1. ASSUME NEW i \in Edus, InsertEdu(i) PROVE Targeted' /\ HoldersAreLocked'
    BY <1>1 DEF InsertEdu, calls
  <1>2. ASSUME NEW c \in Callers, NEW d \in Dests, Call(c, d), lock' = lock
        PROVE  Targeted' /\ HoldersAreLocked'
    BY <1>2, CallEffect
  <1>3. ASSUME NEW c \in Callers, NEW d \in Dests, CatchupFinds(c, d)
        PROVE  Targeted' /\ HoldersAreLocked'
    BY <1>3 DEF CatchupFinds, TypeOK
  <1>4. ASSUME NEW c \in Callers, LockDestination(c)
        PROVE  Targeted' /\ HoldersAreLocked'
    BY <1>4, OutboxAssumption DEF LockDestination, TypeOK
  <1>5. ASSUME NEW c \in Callers, Return(c), stage[c] # "idle"
        PROVE  Targeted' /\ HoldersAreLocked'
    <2>1. \A b \in Callers \ {c} : stage'[b] # "idle" => target'[b] \in Dests
      BY <1>5, ReturnEffect
    <2>2. ASSUME NEW b \in Callers, stage'[b] \in Holding PROVE lock'[target'[b]] = b
      <3>1. b # c /\ stage[b] \in Holding
        BY <1>5, <2>2, ReturnEffect
      <3> QED BY <1>5, <3>1, ReturnEffect
    <2> QED BY <1>5, <2>1, <2>2, ReturnEffect
  <1>6. ASSUME NEW c \in Callers, TakeEdus(c), Oldest(target[c]) # {}
        PROVE  Targeted' /\ HoldersAreLocked'
    BY <1>6 DEF TakeEdus, TypeOK
  <1>7. ASSUME NEW c \in Callers, Deliver(c) PROVE Targeted' /\ HoldersAreLocked'
    BY <1>7 DEF Deliver, TypeOK
  <1>8. ASSUME NEW c \in Callers, Forget(c) PROVE Targeted' /\ HoldersAreLocked'
    BY <1>8 DEF Forget, TypeOK
  <1>9. ASSUME NEW p \in Procs, Crash(p) PROVE Targeted' /\ HoldersAreLocked'
    <2>1. ASSUME NEW b \in Callers, stage'[b] # "idle"
          PROVE  /\ ProcOf[b] # p /\ stage'[b] = stage[b] /\ target'[b] = target[b]
                 /\ \A d \in Dests : lock[d] = b => lock'[d] = b
      BY <1>9, <2>1 DEF Crash, TypeOK
    <2> QED BY <2>1
  <1>10. CASE UNCHANGED vars
    BY <1>10 DEF vars
  <1>11. ASSUME NEW c \in Callers, Progress(c) \/ Fail(c)
         PROVE  Targeted' /\ HoldersAreLocked'
    <2>1. CASE Notified(c)
      BY <2>1, <1>2, NotedDestination DEF Notified
    <2>2. CASE CatchupCalls(c)
      BY <2>2, <1>2 DEF CatchupCalls
    <2>3. CASE TakeEdus(c) /\ Oldest(target[c]) = {}
      BY <2>3, <1>5 DEF TakeEdus
    <2>4. CASE Commit(c)
      BY <2>4, <1>5 DEF Commit
    <2>5. CASE Fail(c)
      BY <2>5, <1>5 DEF Fail, Active
    <2> QED
      BY <2>1, <2>2, <2>3, <2>4, <2>5, <1>3, <1>4, <1>6, <1>7, <1>8, <1>11 DEF Progress
  <1> QED BY <1>1, <1>9, <1>10, <1>11 DEF Next

(***************************************************************************)
(* What became of the EDUs                                                 *)
(***************************************************************************)

(* Two calls in flight never have an EDU in common.                        *)
LEMMA BatchesAreDisjoint ==
  ASSUME HoldersAreLocked, BatchesAreRows, NEW b \in Callers, NEW c \in Callers, b # c
  PROVE  batch[b] \cap batch[c] = {}
  BY DEF HoldersAreLocked, BatchesAreRows, Holding

(* Every step keeps the invariant about rows, batches and deliveries.      *)
LEMMA RowStep ==
  ASSUME OutboxAssumption, IInv, [Next]_vars
  PROVE  BatchesAreRows' /\ SentFromRows' /\ NothingLost'
  <1> USE DEF BatchesAreRows, SentFromRows, NothingLost
  <1>0. TypeOK /\ TypeOK'
    BY TypeStep DEF IInv
  <1>1. ASSUME NEW i \in Edus, InsertEdu(i)
        PROVE  BatchesAreRows' /\ SentFromRows' /\ NothingLost'
    BY <1>0, <1>1 DEF InsertEdu, calls, IInv
  <1>2. ASSUME NEW c \in Callers, NEW d \in Dests, Call(c, d), UNCHANGED <<rows, deliveries>>,
               stage[c] \in {"idle", "due"}
        PROVE  BatchesAreRows' /\ SentFromRows' /\ NothingLost'
    <2>1. batch[c] = {}
      BY <1>2 DEF IInv
    <2> QED BY <1>0, <1>2, <2>1, CallEffect DEF IInv, rows
  <1>3. ASSUME NEW c \in Callers, UNCHANGED <<rows, deliveries>>, Return(c)
        PROVE  BatchesAreRows' /\ SentFromRows' /\ NothingLost'
    BY <1>0, <1>3, ReturnEffect DEF IInv, rows
  <1>4. ASSUME NEW c \in Callers, NEW d \in Dests, CatchupFinds(c, d)
        PROVE  BatchesAreRows' /\ SentFromRows' /\ NothingLost'
    BY <1>0, <1>4 DEF CatchupFinds, IInv, TypeOK, rows
  <1>5. ASSUME NEW c \in Callers, LockDestination(c)
        PROVE  BatchesAreRows' /\ SentFromRows' /\ NothingLost'
    BY <1>0, <1>5 DEF LockDestination, IInv, TypeOK, rows
  <1>6. ASSUME NEW c \in Callers, TakeEdus(c), Oldest(target[c]) # {}
        PROVE  BatchesAreRows' /\ SentFromRows' /\ NothingLost'
    <2>1. /\ batch'[c] = Oldest(target[c])
          /\ stage'[c] = "send" /\ target' = target
          /\ \A b \in Callers \ {c} : batch'[b] = batch[b] /\ stage'[b] = stage[b]
      BY <1>0, <1>6 DEF TakeEdus, TypeOK
    <2>2. \A i \in Oldest(target[c]) : i \in queued /\ DestOf[i] = target[c]
      BY DEF Oldest
    <2>3. UNCHANGED <<rows, deliveries>>
      BY <1>6 DEF TakeEdus
    <2> QED BY <1>0, <2>1, <2>2, <2>3 DEF IInv, rows
  <1>7. ASSUME NEW c \in Callers, stage[c] = "send", Reach(c), UNCHANGED rows
        PROVE  /\ \A i \in Edus \ inserted' : deliveries'[i] = 0
               /\ \A b \in Callers : \A i \in batch[b] :
                     (b = c \/ stage[b] = "commit") => deliveries'[i] >= 1
               /\ \A i \in Edus : deliveries'[i] >= deliveries[i]
    <2>1. \A i \in batch[c] : i \in inserted
      BY <1>0 DEF IInv
    <2>2. \A i \in Edus :
             /\ deliveries[i] \in Nat
             /\ i \in batch[c] => deliveries'[i] = deliveries[i] + 1
             /\ i \notin batch[c] => deliveries'[i] = deliveries[i]
      BY <1>0, <1>7 DEF TypeOK, Reach
    <2>3. \A b \in Callers : \A i \in batch[b] : i \in Edus
      BY <1>0 DEF TypeOK
    <2>4. /\ SentFromRows /\ BatchesAreRows
      BY DEF IInv
    <2>5. \A i \in Edus : deliveries'[i] >= deliveries[i]
      BY <2>2
    <2>6. \A i \in batch[c] : deliveries'[i] >= 1
      <3> SUFFICES ASSUME NEW i \in batch[c] PROVE deliveries'[i] >= 1
        OBVIOUS
      <3>1. deliveries[i] \in Nat /\ deliveries'[i] = deliveries[i] + 1
        BY <2>2, <2>3
      <3> QED BY <3>1
    <2>7. \A b \in Callers : \A i \in batch[b] : stage[b] = "commit" => deliveries'[i] >= 1
      <3> SUFFICES ASSUME NEW b \in Callers, NEW i \in batch[b], stage[b] = "commit"
                   PROVE  deliveries'[i] >= 1
        OBVIOUS
      <3>1. i \in Edus /\ deliveries[i] >= 1
        BY <2>3, <2>4
      <3>2. \/ deliveries'[i] = deliveries[i]
            \/ deliveries'[i] = deliveries[i] + 1
        BY <2>2, <3>1
      <3>3. deliveries[i] \in Nat
        BY <2>2, <3>1
      <3> QED BY <3>1, <3>2, <3>3
    <2>8. \A i \in Edus \ inserted : i \notin batch[c]
      BY <2>1
    <2> QED BY <1>7, <2>2, <2>4, <2>5, <2>6, <2>7, <2>8 DEF rows
  <1>8. ASSUME NEW c \in Callers, Deliver(c)
        PROVE  BatchesAreRows' /\ SentFromRows' /\ NothingLost'
    <2>1. /\ stage'[c] = "commit" /\ stage[c] = "send" /\ Reach(c) /\ UNCHANGED rows
          /\ target' = target /\ batch' = batch
          /\ \A b \in Callers \ {c} : stage'[b] = stage[b]
      BY <1>0, <1>8 DEF Deliver, TypeOK
    <2>2. \A i \in inserted : i \in Edus /\ deliveries[i] \in Nat /\ deliveries'[i] \in Nat
      BY <1>0 DEF TypeOK
    <2>3. BatchesAreRows'
      BY <2>1 DEF IInv, rows
    <2>4. SentFromRows'
      BY <1>7, <2>1 DEF IInv, rows
    <2>5. NothingLost'
      <3>1. \A i \in inserted : deliveries'[i] >= deliveries[i]
        BY <1>7, <2>1, <2>2
      <3>2. NothingLost
        BY DEF IInv
      <3> QED BY <2>1, <2>2, <3>1, <3>2 DEF rows
    <2> QED BY <2>3, <2>4, <2>5
  <1>9. ASSUME NEW c \in Callers, Fail(c)
        PROVE  BatchesAreRows' /\ SentFromRows' /\ NothingLost'
    <2>1. CASE UNCHANGED deliveries
      BY <1>3, <1>9, <2>1 DEF Fail
    <2>2. CASE stage[c] = "send" /\ Reach(c)
      <3>1. \A i \in inserted : i \in Edus /\ deliveries[i] \in Nat /\ deliveries'[i] \in Nat
        BY <1>0 DEF TypeOK
      <3>2. Return(c) /\ UNCHANGED rows
        BY <1>9 DEF Fail
      <3>3. BatchesAreRows'
        BY <1>0, <3>2, ReturnEffect DEF IInv, rows
      <3>4. SentFromRows'
        <4>1. \A b \in Callers : stage'[b] = "commit" =>
                b # c /\ stage[b] = "commit" /\ batch'[b] = batch[b]
          BY <1>0, <3>2, ReturnEffect
        <4> QED BY <1>7, <2>2, <3>2, <4>1 DEF IInv, rows
      <3>5. NothingLost'
        <4>1. \A i \in inserted : deliveries'[i] >= deliveries[i]
          BY <1>7, <2>2, <3>1, <3>2
        <4>2. NothingLost
          BY DEF IInv
        <4> QED BY <3>1, <3>2, <4>1, <4>2 DEF rows
      <3> QED BY <3>3, <3>4, <3>5
    <2> QED BY <1>9, <2>1, <2>2 DEF Fail
  <1>10. ASSUME NEW c \in Callers, Commit(c)
         PROVE  BatchesAreRows' /\ SentFromRows' /\ NothingLost'
    <2>1. /\ stage[c] = "commit" /\ queued' = queued \ batch[c]
          /\ UNCHANGED <<inserted, deliveries>> /\ Return(c)
      BY <1>10 DEF Commit
    <2>2. \A b \in Callers \ {c} : batch[b] \cap batch[c] = {}
      BY BatchesAreDisjoint DEF IInv
    <2>3. /\ \A b \in Callers \ {c} :
                batch'[b] = batch[b] /\ (stage'[b] = stage[b] \/ stage[b] = "join")
          /\ batch'[c] = {} /\ target' = target /\ stage'[c] = "forget"
      BY <1>0, <2>1, ReturnEffect
    <2>4. BatchesAreRows'
      <3>1. \A b \in Callers \ {c} : \A i \in batch[b] : i \in queued \ batch[c]
        BY <2>2 DEF IInv
      <3>2. \A b \in Callers \ {c} : batch[b] # {} => stage'[b] = stage[b]
        BY <2>3 DEF IInv
      <3> QED BY <2>1, <2>3, <3>1, <3>2 DEF IInv
    <2>5. SentFromRows'
      <3>1. \A b \in Callers : stage'[b] = "commit" => b # c /\ stage[b] = "commit"
        BY <1>0, <2>1, ReturnEffect
      <3> QED BY <2>1, <2>3, <3>1 DEF IInv
    <2>6. NothingLost'
      BY <2>1 DEF IInv
    <2> QED BY <2>4, <2>5, <2>6
  <1>11. ASSUME NEW c \in Callers, Forget(c)
         PROVE  BatchesAreRows' /\ SentFromRows' /\ NothingLost'
    BY <1>0, <1>11 DEF Forget, IInv, TypeOK, rows
  <1>12. ASSUME NEW p \in Procs, Crash(p)
         PROVE  BatchesAreRows' /\ SentFromRows' /\ NothingLost'
    <2>1. ASSUME NEW b \in Callers
          PROVE  \/ batch'[b] = {}
                 \/ /\ batch'[b] = batch[b] /\ stage'[b] = stage[b]
                    /\ target'[b] = target[b]
      BY <1>0, <1>12 DEF Crash, TypeOK
    <2>2. ASSUME NEW b \in Callers, stage'[b] = "commit" PROVE stage[b] = "commit"
      BY <1>0, <1>12, <2>2 DEF Crash, TypeOK
    <2> QED BY <1>12, <2>1, <2>2 DEF Crash, IInv, rows
  <1>13. CASE UNCHANGED vars
    BY <1>13 DEF vars, IInv
  <1>14. ASSUME NEW c \in Callers, Progress(c) \/ Fail(c)
         PROVE  BatchesAreRows' /\ SentFromRows' /\ NothingLost'
    <2>1. CASE Notified(c)
      BY <2>1, <1>0, <1>2, NotedDestination DEF Notified
    <2>2. CASE CatchupCalls(c)
      BY <2>2, <1>2 DEF CatchupCalls, Targeted, IInv
    <2>3. CASE TakeEdus(c) /\ Oldest(target[c]) = {}
      BY <2>3, <1>3 DEF TakeEdus
    <2> QED
      BY <2>1, <2>2, <2>3, <1>4, <1>5, <1>6, <1>8, <1>9, <1>10, <1>11, <1>14 DEF Progress
  <1> QED BY <1>1, <1>12, <1>13, <1>14 DEF Next

(* The inductive invariant.                                                *)
THEOREM Invariant == ASSUME OutboxAssumption PROVE Spec => []IInv
  <1>1. Init => IInv
    BY TypeInit DEF Init, IInv, HoldersAreLocked, Holding, BatchesAreRows, SentFromRows,
                    NothingLost
  <1>2. IInv /\ [Next]_vars => IInv'
    BY TypeStep, LockStep, RowStep DEF IInv
  <1> QED BY <1>1, <1>2, PTL DEF Spec

(***************************************************************************)
(* The theorems                                                            *)
(***************************************************************************)

(* Every variable keeps its type.                                          *)
THEOREM TypeCorrect == ASSUME OutboxAssumption PROVE Spec => []TypeOK
  BY Invariant, PTL DEF IInv

(* The row lock alone keeps two Matrix transactions to one destination     *)
(* from being under way at a time, whatever Forget does to the             *)
(* singleflight, however many processes share the database.                *)
THEOREM OneAtATime == ASSUME OutboxAssumption PROVE Spec => []OneTransactionPerDestination
  <1>1. IInv => OneTransactionPerDestination
    BY DEF IInv, HoldersAreLocked, Holding, OneTransactionPerDestination
  <1> QED BY <1>1, Invariant, PTL

(* No EDU leaves the table before it reached its destination, whatever     *)
(* fails, times out or crashes in between.                                 *)
THEOREM NoEduLost == ASSUME OutboxAssumption PROVE Spec => []NothingLost
  BY Invariant, PTL DEF IInv

(* An EDU that is still to be sent by c was not sent already.              *)
LEMMA UnsentBatch ==
  ASSUME IInv, NEW c \in Callers, stage[c] = "send", NEW i \in batch[c]
  PROVE  ~Sent(i)
  <1>1. i \in queued
    BY DEF IInv, BatchesAreRows
  <1>2. \A b \in Callers : stage[b] = "commit" => i \notin batch[b]
    BY BatchesAreDisjoint DEF IInv
  <1> QED BY <1>1, <1>2 DEF Sent

(* Every step keeps the count of repetitions.                              *)
LEMMA RepeatStep ==
  ASSUME OutboxAssumption, IInv, RepeatsCounted, [Next]_vars
  PROVE  RepeatsCounted'
  <1> USE DEF RepeatsCounted
  <1>0. TypeOK /\ TypeOK'
    BY TypeStep DEF IInv
  <1>1. \A i \in Edus : deliveries[i] \in Nat /\ deliveries'[i] \in Nat
    BY <1>0 DEF TypeOK
  <1>2. faults \in Nat /\ faults' \in Nat
    BY <1>0 DEF TypeOK
  <1>3. ASSUME UNCHANGED deliveries, faults' = faults,
               \A i \in Edus : Sent(i) => Sent(i)'
        PROVE  RepeatsCounted'
    BY <1>1, <1>2, <1>3
  <1>4. ASSUME faults' = faults + 1,
               \A i \in Edus : deliveries'[i] # deliveries[i] =>
                   deliveries'[i] = deliveries[i] + 1 /\ ~Sent(i)
        PROVE  RepeatsCounted'
    BY <1>1, <1>2, <1>4
  <1>5. ASSUME NEW i \in Edus, InsertEdu(i) PROVE RepeatsCounted'
    <2>1. faults' = faults \/ faults' = faults + 1
      BY <1>5 DEF InsertEdu, Fault
    <2>2. \A j \in Edus : Sent(j) => Sent(j)'
      BY <1>5 DEF InsertEdu, Sent, calls
    <2> QED BY <1>3, <1>4, <1>5, <2>1, <2>2 DEF InsertEdu
  <1>6. ASSUME NEW c \in Callers, UNCHANGED rows, stage[c] # "commit",
               UNCHANGED <<deliveries, faults>>,
               \A b \in Callers \ {c} : stage[b] = "commit" =>
                   batch'[b] = batch[b] /\ stage'[b] = stage[b]
        PROVE  RepeatsCounted'
    <2>1. \A i \in Edus : Sent(i) => Sent(i)'
      BY <1>6 DEF Sent, rows
    <2> QED BY <1>3, <1>6, <2>1
  <1>7. ASSUME NEW c \in Callers, LockDestination(c) \/ Forget(c)
        PROVE  RepeatsCounted'
    BY <1>0, <1>6, <1>7 DEF LockDestination, Forget, TypeOK
  <1>8. ASSUME NEW c \in Callers, NEW d \in Dests, Call(c, d), stage[c] \in {"idle", "due"},
               UNCHANGED <<rows, deliveries, faults>>
        PROVE  RepeatsCounted'
    BY <1>0, <1>6, <1>8, CallEffect
  <1>9. ASSUME NEW c \in Callers, TakeEdus(c) PROVE RepeatsCounted'
    <2>1. CASE Oldest(target[c]) = {}
      BY <1>0, <1>6, <1>9, <2>1, ReturnEffect DEF TakeEdus
    <2>2. CASE Oldest(target[c]) # {}
      BY <1>0, <1>6, <1>9, <2>2 DEF TakeEdus, TypeOK
    <2> QED BY <2>1, <2>2
  <1>10. ASSUME NEW c \in Callers, Deliver(c) PROVE RepeatsCounted'
    <2>1. /\ stage[c] = "send" /\ Reach(c) /\ stage'[c] = "commit"
          /\ UNCHANGED <<rows, batch, faults>>
          /\ \A b \in Callers \ {c} : stage'[b] = stage[b]
      BY <1>0, <1>10 DEF Deliver, TypeOK
    <2>2. \A i \in Edus : Sent(i) => Sent(i)'
      BY <2>1 DEF Sent, rows
    <2>3. \A i \in batch[c] : ~Sent(i) /\ Sent(i)'
      BY <2>1, UnsentBatch DEF Sent
    <2>4. \A i \in Edus : deliveries'[i] = IF i \in batch[c] THEN deliveries[i] + 1
                                          ELSE deliveries[i]
      BY <1>0, <2>1 DEF Reach, TypeOK
    <2> QED BY <1>1, <1>2, <2>1, <2>2, <2>3, <2>4
  <1>11. ASSUME NEW c \in Callers, Commit(c) PROVE RepeatsCounted'
    <2>1. \A i \in batch[c] : i \in inserted' \ queued'
      BY <1>11 DEF Commit, IInv, BatchesAreRows, SentFromRows
    <2>2. \A b \in Callers \ {c} : stage[b] = "commit" =>
             batch'[b] = batch[b] /\ stage'[b] = stage[b]
      BY <1>0, <1>11, ReturnEffect DEF Commit
    <2>3. \A i \in Edus : Sent(i) => Sent(i)'
      BY <1>11, <2>1, <2>2 DEF Commit, Sent
    <2> QED BY <1>3, <1>11, <2>3 DEF Commit
  <1>12. ASSUME NEW c \in Callers, Fail(c) PROVE RepeatsCounted'
    <2>1. CASE UNCHANGED deliveries
      BY <1>4, <1>12, <2>1 DEF Fail, Fault
    <2>2. CASE stage[c] = "send" /\ Reach(c)
      <3>1. \A i \in Edus : deliveries'[i] = IF i \in batch[c] THEN deliveries[i] + 1
                                            ELSE deliveries[i]
        BY <1>0, <2>2 DEF Reach, TypeOK
      <3>2. \A i \in batch[c] : ~Sent(i)
        BY <2>2, UnsentBatch
      <3> QED BY <1>4, <1>12, <3>1, <3>2 DEF Fail, Fault
    <2> QED BY <1>12, <2>1, <2>2 DEF Fail
  <1>13. ASSUME NEW p \in Procs, Crash(p) PROVE RepeatsCounted'
    BY <1>4, <1>13 DEF Crash, Fault
  <1>14. CASE UNCHANGED vars
    BY <1>3, <1>14 DEF vars, Sent
  <1>15. ASSUME NEW c \in Callers, Progress(c) \/ Fail(c) PROVE RepeatsCounted'
    <2>1. CASE Notified(c)
      BY <1>8, <2>1, <1>0, NotedDestination DEF Notified
    <2>2. CASE CatchupCalls(c)
      BY <1>8, <2>2 DEF CatchupCalls, Targeted, IInv
    <2>3. ASSUME NEW d \in Dests, CatchupFinds(c, d) PROVE RepeatsCounted'
      BY <1>0, <1>6, <2>3 DEF CatchupFinds, TypeOK
    <2> QED
      BY <2>1, <2>2, <2>3, <1>7, <1>9, <1>10, <1>11, <1>12, <1>15 DEF Progress
  <1> QED BY <1>5, <1>13, <1>14, <1>15 DEF Next

(* Without faults an EDU is delivered once at most, and every fault adds   *)
(* one repetition at most: overlapping callers do not repeat anything.     *)
THEOREM RepeatsNeedFaults == ASSUME OutboxAssumption PROVE Spec => []RepeatsAreFaults
  <1>1. Init => RepeatsCounted
    BY DEF Init, RepeatsCounted
  <1>2. IInv /\ RepeatsCounted /\ [Next]_vars => RepeatsCounted'
    BY RepeatStep
  <1>3. IInv /\ RepeatsCounted => RepeatsAreFaults
    BY DEF IInv, TypeOK, RepeatsCounted, RepeatsAreFaults
  <1> QED BY <1>1, <1>2, <1>3, Invariant, PTL DEF Spec

(***************************************************************************)
(* The outbox implements EduOutbox, up to liveness                         *)
(***************************************************************************)

(* The EDUs of one transaction number MaxBatch at most: among more, two    *)
(* would have the same number of older ones, below MaxBatch.               *)
LEMMA OldestAreFew ==
  ASSUME OutboxAssumption, TypeOK, NEW d
  PROVE  IsFiniteSet(Oldest(d)) /\ Cardinality(Oldest(d)) <= MaxBatch
  <1> DEFINE Older(i) == {j \in queued : DestOf[j] = d /\ j < i}
             T == 0 .. (MaxBatch - 1)
             f == [i \in Oldest(d) |-> Cardinality(Older(i))]
  <1>1. IsFiniteSet(queued) /\ queued \subseteq Nat
    BY FS_Subset DEF OutboxAssumption, TypeOK
  <1>2. IsFiniteSet(Oldest(d)) /\ Cardinality(Oldest(d)) \in Nat
    BY <1>1, FS_Subset, FS_CardinalityType DEF Oldest
  <1>3. MaxBatch \in Nat \ {0}
    BY DEF OutboxAssumption
  <1>4. IsFiniteSet(T) /\ Cardinality(T) = MaxBatch
    BY <1>3, FS_Interval
  <1>5. \A i \in Nat : IsFiniteSet(Older(i)) /\ Cardinality(Older(i)) \in Nat
    BY <1>1, FS_Subset, FS_CardinalityType
  <1>6. f \in [Oldest(d) -> T]
    <2>1. \A i \in Oldest(d) : i \in Nat /\ Cardinality(Older(i)) < MaxBatch
      BY <1>1 DEF Oldest
    <2> QED BY <1>3, <1>5, <2>1
  <1>7. ASSUME NEW x \in Oldest(d), NEW y \in Oldest(d), x < y PROVE f[x] # f[y]
    <2>1. x \in Nat /\ y \in Nat /\ x \in queued /\ DestOf[x] = d
      BY <1>1 DEF Oldest
    <2>2. Older(x) \subseteq Older(y)
      <3> SUFFICES ASSUME NEW j \in queued, j < x PROVE j < y
        OBVIOUS
      <3> QED BY <1>1, <1>7, <2>1
    <2>3. x \in Older(y) /\ x \notin Older(x)
      BY <1>7, <2>1
    <2>4. Cardinality(Older(x)) # Cardinality(Older(y))
      BY <1>5, <2>1, <2>2, <2>3, FS_Subset
    <2> QED BY <2>4
  <1>8. \A x, y \in Oldest(d) : x # y => f[x] # f[y]
    <2>1. Oldest(d) \subseteq Nat
      BY <1>1 DEF Oldest
    <2> QED BY <1>7, <2>1
  <1>9. ~(Cardinality(T) < Cardinality(Oldest(d)))
    <2> HIDE DEF f, T
    <2> QED BY <1>2, <1>4, <1>6, <1>8, FS_PigeonHole
  <1> QED BY <1>2, <1>3, <1>4, <1>9

(* What a database transaction took fits in one Matrix transaction.        *)
BatchesFit ==
    \A c \in Callers : batch[c] # {} => Cardinality(batch[c]) <= MaxBatch

(* Every step keeps the size of the batches.                               *)
LEMMA FitStep ==
  ASSUME OutboxAssumption, IInv, BatchesFit, [Next]_vars
  PROVE  BatchesFit'
  <1> USE DEF BatchesFit
  <1>0. TypeOK
    BY DEF IInv
  <1>1. ASSUME \A c \in Callers : batch'[c] \in {{}, batch[c]} PROVE BatchesFit'
    BY <1>1
  <1>2. ASSUME NEW c \in Callers, Return(c) PROVE BatchesFit'
    BY <1>0, <1>1, <1>2, ReturnEffect
  <1>3. ASSUME NEW c \in Callers, TakeEdus(c) PROVE BatchesFit'
    <2>1. CASE Oldest(target[c]) = {}
      BY <1>2, <1>3, <2>1 DEF TakeEdus
    <2>2. CASE Oldest(target[c]) # {}
      <3>1. batch' = [batch EXCEPT ![c] = Oldest(target[c])]
        BY <1>3, <2>2 DEF TakeEdus
      <3>2. Cardinality(Oldest(target[c])) <= MaxBatch
        BY <1>0, OldestAreFew
      <3> QED BY <1>0, <3>1, <3>2 DEF TypeOK
    <2> QED BY <2>1, <2>2
  <1>4. ASSUME NEW p \in Procs, Crash(p) PROVE BatchesFit'
    BY <1>0, <1>1, <1>4 DEF Crash, TypeOK
  <1>5. ASSUME UNCHANGED batch PROVE BatchesFit'
    BY <1>5
  <1>6. ASSUME NEW c \in Callers, Progress(c) \/ Fail(c) PROVE BatchesFit'
    <2>1. CASE Notified(c) \/ CatchupCalls(c) \/ \E d \in Dests : CatchupFinds(c, d)
      BY <1>5, <2>1 DEF Notified, CatchupCalls, CatchupFinds, Call
    <2>2. CASE LockDestination(c) \/ Deliver(c) \/ Forget(c)
      BY <1>5, <2>2 DEF LockDestination, Deliver, Forget
    <2>3. CASE Commit(c) \/ Fail(c)
      BY <1>2, <2>3 DEF Commit, Fail
    <2> QED BY <1>3, <1>6, <2>1, <2>2, <2>3 DEF Progress
  <1>7. ASSUME NEW i \in Edus, InsertEdu(i) PROVE BatchesFit'
    BY <1>5, <1>7 DEF InsertEdu, calls
  <1> QED BY <1>4, <1>5, <1>6, <1>7 DEF Next, vars

(* A step of the system is a step of EduOutbox or leaves the status of     *)
(* every EDU as it was.                                                    *)
LEMMA OutboxStep ==
  ASSUME OutboxAssumption, IInv, IInv', BatchesFit, [Next]_vars
  PROVE  [Abstract!Next]_Status
  <1> USE DEF Abstract!Next
  <1>0. TypeOK /\ TypeOK'
    BY DEF IInv
  <1>9. \A S : Abstract!Cardinality(S) = Cardinality(S)
    BY DEF Cardinality, Abstract!Cardinality
  <1>1. ASSUME UNCHANGED <<rows, deliveries>> PROVE Status' = Status
    BY <1>1 DEF Status, rows
  <1>2. ASSUME NEW i \in Edus, InsertEdu(i) PROVE Abstract!Queue(i)
    <2>1. Status[i] = "new"
      BY <1>2 DEF InsertEdu, Status
    <2>2. deliveries[i] = 0
      BY <1>2 DEF InsertEdu, IInv, SentFromRows
    <2>3. Status' = [Status EXCEPT ![i] = "pending"]
      BY <1>0, <1>2, <2>2 DEF InsertEdu, Status
    <2> QED BY <2>1, <2>3 DEF Abstract!Queue
  <1>3. ASSUME NEW c \in Callers, stage[c] = "send", Reach(c), UNCHANGED rows
        PROVE  Abstract!Deliver(batch[c]) /\ batch[c] \in Abstract!Batches
    <2>1. \A i \in batch[c] : i \in Edus /\ i \in queued /\ i \in inserted /\ DestOf[i] = target[c]
      BY <1>0 DEF IInv, BatchesAreRows, SentFromRows, TypeOK
    <2>2. \A i \in Edus : deliveries'[i] = IF i \in batch[c] THEN deliveries[i] + 1
                                          ELSE deliveries[i]
      BY <1>0, <1>3 DEF Reach, TypeOK
    <2>3. \A i \in batch[c] : Status[i] \in {"pending", "delivered"} /\ deliveries'[i] # 0
      <3> SUFFICES ASSUME NEW i \in batch[c]
                   PROVE  Status[i] \in {"pending", "delivered"} /\ deliveries'[i] # 0
        OBVIOUS
      <3>1. deliveries[i] \in Nat /\ deliveries'[i] = deliveries[i] + 1
        BY <1>0, <2>1, <2>2 DEF TypeOK
      <3> QED BY <2>1, <3>1 DEF Status
    <2>4. Status' = [i \in Edus |-> IF i \in batch[c] THEN "delivered" ELSE Status[i]]
      BY <1>3, <2>1, <2>2, <2>3 DEF Status, rows
    <2>5. batch[c] \in SUBSET Edus /\ Cardinality(batch[c]) <= MaxBatch
      <3>1. CASE batch[c] = {}
        BY <3>1, FS_EmptySet DEF OutboxAssumption
      <3>2. CASE batch[c] # {}
        BY <1>0, <3>2 DEF BatchesFit, TypeOK
      <3> QED BY <3>1, <3>2
    <2>6. batch[c] \in Abstract!Batches
      BY <2>1, <2>5, <1>9 DEF Abstract!Batches
    <2>7. Abstract!Deliver(batch[c])
      BY <2>3, <2>4 DEF Abstract!Deliver
    <2> QED BY <2>6, <2>7
  <1>4. ASSUME NEW c \in Callers, Commit(c)
        PROVE  Abstract!Settle(batch[c]) /\ batch[c] \in Abstract!Batches
    <2>1. \A i \in batch[c] : /\ i \in Edus
                             /\ i \in queued
                             /\ i \in inserted
                             /\ DestOf[i] = target[c]
      BY <1>0 DEF IInv, BatchesAreRows, SentFromRows, TypeOK
    <2>2. \A i \in batch[c] : deliveries[i] # 0
      BY <1>0, <1>4, <2>1 DEF Commit, IInv, SentFromRows, TypeOK
    <2>3. \A i \in batch[c] : Status[i] = "delivered"
      BY <2>1, <2>2 DEF Status
    <2>4. Status' = [i \in Edus |-> IF i \in batch[c] THEN "settled" ELSE Status[i]]
      BY <1>4, <2>1 DEF Commit, Status
    <2>5. batch[c] \in SUBSET Edus /\ Cardinality(batch[c]) <= MaxBatch
      <3>1. CASE batch[c] = {}
        BY <3>1, FS_EmptySet DEF OutboxAssumption
      <3>2. CASE batch[c] # {}
        BY <1>0, <3>2 DEF BatchesFit, TypeOK
      <3> QED BY <3>1, <3>2
    <2>6. batch[c] \in Abstract!Batches
      BY <2>1, <2>5, <1>9 DEF Abstract!Batches
    <2>7. Abstract!Settle(batch[c])
      BY <2>3, <2>4 DEF Abstract!Settle
    <2> QED BY <2>6, <2>7
  <1>5. ASSUME NEW c \in Callers, Progress(c) \/ Fail(c) PROVE [Abstract!Next]_Status
    <2>1. CASE Deliver(c)
      BY <1>3, <2>1 DEF Deliver
    <2>2. CASE Commit(c)
      BY <1>4, <2>2
    <2>3. CASE Fail(c)
      BY <1>1, <1>3, <2>3 DEF Fail
    <2>4. CASE UNCHANGED <<rows, deliveries>>
      BY <1>1, <2>4
    <2> QED
      BY <1>5, <2>1, <2>2, <2>3, <2>4
      DEF Progress, Notified, CatchupFinds, CatchupCalls, LockDestination, TakeEdus, Forget
  <1>6. ASSUME NEW p \in Procs, Crash(p) PROVE [Abstract!Next]_Status
    BY <1>1, <1>6 DEF Crash
  <1>7. CASE UNCHANGED vars
    BY <1>1, <1>7 DEF vars, rows
  <1> QED BY <1>2, <1>5, <1>6, <1>7 DEF Next

(* The system implements the abstract outbox step by step: an EDU is       *)
(* queued, delivered in batches of MaxBatch at most to one destination and *)
(* forgotten only after that (the safety part of ImplementsOutbox).        *)
THEOREM ImplementsOutboxSteps ==
  ASSUME OutboxAssumption
  PROVE  Spec => Abstract!Init /\ [][Abstract!Next]_Status
  <1>1. Init => Abstract!Init
    BY DEF Init, Abstract!Init, Status
  <1>2. Init => BatchesFit
    BY DEF Init, BatchesFit
  <1>3. IInv /\ BatchesFit /\ [Next]_vars => BatchesFit'
    BY FitStep
  <1>4. IInv /\ IInv' /\ BatchesFit /\ [Next]_vars => [Abstract!Next]_Status
    BY OutboxStep
  <1> QED BY <1>1, <1>2, <1>3, <1>4, Invariant, PTL DEF Spec
=============================================================================
