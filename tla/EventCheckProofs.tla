--------------------------- MODULE EventCheckProofs ---------------------------
(***************************************************************************)
(* Safety of the event checking path, for any number of requests, events,  *)
(* processes and pool workers, with or without a read replica.             *)
(***************************************************************************)
EXTENDS EventCheck, FiniteSetTheorems, TLAPS

(* The sets of results and classes, spelled out.                           *)
LEMMA StringFacts ==
    /\ Results = {"Neutral", "Allowed", "Prohibited", "error"}
    /\ Classes = {"Neutral", "Allowed", "Prohibited"}
    /\ Cleared = {"Neutral", "Allowed"}
BY DEF Results, Classes, Cleared

(* The types of the variables are invariant.                               *)
LEMMA TypeInit == Init => TypeOK
<1> SUFFICES ASSUME Init PROVE TypeOK
  OBVIOUS
<1>1. NoRow \in [stored : BOOLEAN, keys : SUBSET (Harms \cup {"Allowed"})]
  BY DEF NoRow
<1> QED
  BY <1>1 DEF Init, TypeOK, AllKinds

(* Handing a result to the members of a scan keeps task and flight typed.  *)
LEMMA LandTypes ==
  ASSUME TypeOK, NEW s \in Scans, NEW x \in Results, Land(s, x)
  PROVE  /\ task' \in [Requests -> {"none", "ready", "flight", "gone"} \cup Results]
         /\ flight' \in [Scans -> {"none", "lookup", "scan"} \cup Classes]
BY DEF TypeOK, Land, Members

(* The reply of a handler keeps pc, answer and ch typed.                   *)
LEMMA FinishTypes ==
  ASSUME TypeOK, NEW r \in Requests,
         NEW a \in {"unscanned", "ok", "spam", "signed", "refused", "failed", "timeout"},
         Finish(r, a)
  PROVE  /\ pc' \in [Requests -> {"idle", "submit", "wait", "done", "lost"}]
         /\ answer' \in [Requests -> {"none", "unscanned", "ok", "spam", "signed",
                                      "refused", "failed", "timeout"}]
         /\ ch' \in [Requests -> {"empty", "closed"} \cup Results]
BY DEF TypeOK, Finish

(* redactIfNeeded keeps the redacted events a set of events.               *)
LEMMA RedactTypes ==
  ASSUME TypeOK, NEW r \in Requests, RedactIfNeeded(r)
  PROVE  redacted' \in SUBSET Events
BY ConstantsAssumption DEF TypeOK, RedactIfNeeded

(* The scan a request belongs to is a process and an event.                *)
LEMMA ScanOfType == \A r \in Requests : ScanOf(r) \in Scans
BY ConstantsAssumption DEF ScanOf, Scans

(* UpsertEventResult keeps the events table and the history typed.         *)
LEMMA WriteRowTypes ==
  ASSUME TypeOK, NEW s \in Scans, flight[s] \in Classes, WriteRow(s)
  PROVE  /\ row' \in [Events -> [stored : BOOLEAN, keys : SUBSET (Harms \cup {"Allowed"})]]
         /\ judged' \in [Events -> SUBSET Classes]
         /\ persisted' \in [Scans -> Nat]
<1>1. PICK harms \in SUBSET Harms :
         /\ row' = [row EXCEPT ![s[2]] = Encode(flight[s], harms)]
         /\ judged' = [judged EXCEPT ![s[2]] = @ \cup {flight[s]}]
         /\ persisted' = [persisted EXCEPT ![s] = @ + 1]
  BY DEF WriteRow
<1>2. Encode(flight[s], harms) \in [stored : BOOLEAN, keys : SUBSET (Harms \cup {"Allowed"})]
  BY DEF Encode
<1>3. s[2] \in Events
  BY DEF Scans
<1>4. row' \in [Events -> [stored : BOOLEAN, keys : SUBSET (Harms \cup {"Allowed"})]]
  BY <1>1, <1>2, <1>3 DEF TypeOK
<1>5. judged' \in [Events -> SUBSET Classes]
  BY <1>1, <1>3 DEF TypeOK
<1>6. persisted' \in [Scans -> Nat]
  BY <1>1 DEF TypeOK
<1> QED
  BY <1>4, <1>5, <1>6

(* Every step keeps the types.                                             *)
LEMMA TypeNext == TypeOK /\ [Next]_vars => TypeOK'
<1> SUFFICES ASSUME TypeOK, [Next]_vars PROVE TypeOK'
  OBVIOUS
<1> USE DEF handlerVars, chanVars, dbVars, history
<1>1. ASSUME NEW r \in Requests, AnswerUnscanned(r) PROVE TypeOK'
  BY <1>1, FinishTypes, ConstantsAssumption DEF AnswerUnscanned, TypeOK, AllKinds
<1>2. ASSUME NEW r \in Requests, AnswerFromStore(r) PROVE TypeOK'
  BY <1>2, FinishTypes DEF AnswerFromStore, TypeOK, AllKinds
<1>3. ASSUME NEW r \in Requests, RunFilters(r) PROVE TypeOK'
  BY <1>3, ConstantsAssumption DEF RunFilters, TypeOK, AllKinds
<1>4. ASSUME NEW r \in Requests, PoolAccepts(r) PROVE TypeOK'
  BY <1>4, FinishTypes DEF PoolAccepts, TypeOK
<1>5. ASSUME NEW r \in Requests, PoolRefuses(r) PROVE TypeOK'
  BY <1>5, FinishTypes, RedactTypes DEF PoolRefuses, AnswerError, TypeOK
<1>6. ASSUME NEW r \in Requests, HandlerReceives(r) PROVE TypeOK'
  <2>1. CASE ch[r] = "error"
    BY <1>6, <2>1, FinishTypes, RedactTypes DEF HandlerReceives, AnswerError, TypeOK
  <2>2. CASE ch[r] # "error"
    BY <1>6, <2>2, FinishTypes, RedactTypes DEF HandlerReceives, AnswerVerdict, TypeOK
  <2> QED BY <2>1, <2>2
<1>7. ASSUME NEW r \in Requests, HandlerTimesOut(r) PROVE TypeOK'
  BY <1>7, FinishTypes DEF HandlerTimesOut, TypeOK
<1>8. ASSUME NEW r \in Requests, Disconnect(r) \/ Deadline(r) \/ ContextEnds(r) PROVE TypeOK'
  BY <1>8 DEF Disconnect, Deadline, ContextEnds, Cancel, TypeOK
<1>9. ASSUME NEW r \in Requests, WorkerStarts(r) PROVE TypeOK'
  <2>1. task' \in [Requests -> {"none", "ready", "flight", "gone"} \cup Results]
    BY <1>9 DEF WorkerStarts, TypeOK
  <2>2. flight' \in [Scans -> {"none", "lookup", "scan"} \cup Classes]
    BY <1>9, ScanOfType DEF WorkerStarts, TypeOK
  <2> QED BY <1>9, <2>1, <2>2 DEF WorkerStarts, TypeOK
<1>10. ASSUME NEW r \in Requests, NotifySends(r) \/ NotifyGivesUp(r) PROVE TypeOK'
  BY <1>10 DEF NotifySends, NotifyGivesUp, TypeOK
<1>11. ASSUME NEW r \in Requests,
              RelayTakes(r) \/ RelayCancelled(r) \/ RelaySends(r) \/ RelayGivesUp(r)
       PROVE TypeOK'
  BY <1>11 DEF RelayTakes, RelayCancelled, RelaySends, RelayGivesUp, TypeOK
<1>12. ASSUME NEW s \in Scans, Lookup(s) PROVE TypeOK'
  <2>1. Decode(Read(s[2])) \in Results /\ "error" \in Results
    BY DEF Decode, Results, Classes
  <2> QED
    BY <1>12, <2>1, LandTypes DEF Lookup, TypeOK
<1>13. ASSUME NEW s \in Scans, Scan(s) PROVE TypeOK'
  BY <1>13, LandTypes DEF Scan, TypeOK, Results
<1>14. ASSUME NEW s \in Scans, Store(s) PROVE TypeOK'
  <2>1. flight[s] \in Results /\ flight[s] \in Classes /\ "error" \in Results
    BY <1>14 DEF Store, Results
  <2> QED
    BY <1>14, <2>1, LandTypes, WriteRowTypes DEF Store, TypeOK
<1>15. ASSUME NEW e \in Events, Replicate(e) PROVE TypeOK'
  BY <1>15 DEF Replicate, TypeOK
<1>16. ASSUME NEW p \in Procs, Die(p), panicked' \in BOOLEAN PROVE TypeOK'
  BY <1>16 DEF Die, TypeOK
<1>17. ASSUME NEW p \in Procs, Crash(p) PROVE TypeOK'
  BY <1>16, <1>17 DEF Crash, TypeOK
<1>18. ASSUME NEW r \in Requests, Panic(r) PROVE TypeOK'
  BY <1>16, <1>18, ConstantsAssumption DEF Panic
<1>19. CASE UNCHANGED vars
  BY <1>19 DEF vars, TypeOK
<1> QED
  BY <1>1, <1>2, <1>3, <1>4, <1>5, <1>6, <1>7, <1>8, <1>9, <1>10, <1>11, <1>12,
     <1>13, <1>14, <1>15, <1>17, <1>18, <1>19
     DEF Next, Step, Environment, ScanStep

(* Type correctness of the checking path.                                  *)
THEOREM TypeCorrect == Spec => []TypeOK
BY TypeInit, TypeNext, PTL DEF Spec

(***************************************************************************)
(* The server acts only on persisted verdicts.                             *)
(*                                                                         *)
(* A result travels from the scan through notifyResult, resCh, the relay   *)
(* and ch to the handler.  Backed(e, x) says what must have been persisted *)
(* for event e before result x may be anywhere on that way; the inductive  *)
(* invariant says it of every place a result can be.                       *)
(***************************************************************************)
Backed(e, x) ==
    /\ x \in Cleared => judged[e] \cap Cleared # {}
    /\ x = "Prohibited" => judged[e] # {}

Carried(r) ==
    /\ Backed(EventOf[r], task[r])
    /\ Backed(EventOf[r], resCh[r])
    /\ Backed(EventOf[r], relay[r])
    /\ Backed(EventOf[r], ch[r])

StoredAreJudged ==
    \A e \in Events : row[e].stored \/ replica[e].stored => judged[e] # {}

IInv ==
    /\ TypeOK
    /\ \A r \in Requests : Carried(r)
    /\ \A r \in Requests : kind[r] \in Kinds \cup {"none"}
    /\ StoredAreJudged
    /\ ActsOnPersistedVerdict

(* Initially nothing is held, stored or answered.                          *)
LEMMA IInvInit == Init => IInv
<1> SUFFICES ASSUME Init PROVE IInv
  OBVIOUS
<1>1. TypeOK
  BY TypeInit
<1>2. \A r \in Requests : Carried(r)
  BY StringFacts DEF Init, Carried, Backed
<1>3. StoredAreJudged
  BY DEF Init, StoredAreJudged, NoRow
<1>4. ActsOnPersistedVerdict
  BY DEF Init, ActsOnPersistedVerdict
<1> QED
  BY <1>1, <1>2, <1>3, <1>4 DEF Init, IInv

(* What was judged stays judged, so what was backed stays backed.          *)
LEMMA BackedGrows ==
  ASSUME NEW e \in Events, NEW x, judged[e] \subseteq judged'[e], Backed(e, x)
  PROVE  Backed(e, x)'
BY DEF Backed

(* A landing scan hands its result to its members only.                    *)
LEMMA LandCarries ==
  ASSUME IInv, NEW s \in Scans, NEW x \in Results, Land(s, x),
         \A e \in Events : judged[e] \subseteq judged'[e],
         Backed(s[2], x)', UNCHANGED <<relay, chanVars>>
  PROVE  \A r \in Requests : Carried(r)'
<1> SUFFICES ASSUME NEW r \in Requests PROVE Carried(r)'
  OBVIOUS
<1>1. EventOf[r] \in Events /\ Carried(r)
  BY ConstantsAssumption DEF IInv
<1>2. /\ Backed(EventOf[r], resCh[r])'
      /\ Backed(EventOf[r], relay[r])'
      /\ Backed(EventOf[r], ch[r])'
  BY <1>1 DEF Carried, Backed, chanVars
<1>3. Backed(EventOf[r], task[r])'
  <2>1. CASE r \in Members(s)
    <3>1. EventOf[r] = s[2]
      BY <2>1 DEF Members, ScanOf
    <3>2. task'[r] \in {"gone", x}
      BY <2>1 DEF Land
    <3>3. CASE task'[r] = "gone"
      BY <3>3, StringFacts DEF Backed
    <3>4. CASE task'[r] = x
      BY <3>1, <3>4 DEF Backed
    <3> QED BY <3>2, <3>3, <3>4
  <2>2. CASE r \notin Members(s)
    BY <2>2, <1>1 DEF Land, Carried, Backed
  <2> QED BY <2>1, <2>2
<1> QED
  BY <1>2, <1>3 DEF Carried

(* Steps that record no verdict and hand over no result leave the carried  *)
(* results, the tables and the history alone.                              *)
LEMMA QuietStep ==
  ASSUME IInv, TypeOK', UNCHANGED <<kind, answer, dbVars, redacted, judged>>,
         \A r \in Requests :
            /\ task'[r] \in {task[r], "ready", "flight", "gone"}
            /\ resCh'[r] \in {resCh[r], task[r], "closed"}
            /\ relay'[r] \in {relay[r], resCh[r], "gone", "wait"}
            /\ ch'[r] \in {ch[r], relay[r], "closed"}
  PROVE  IInv'
<1>1. ASSUME NEW r \in Requests PROVE Carried(r)'
  <2>1. Carried(r) /\ EventOf[r] \in Events
    BY ConstantsAssumption DEF IInv
  <2> QED
    BY <2>1, StringFacts DEF Carried, Backed
<1>2. StoredAreJudged'
  BY DEF IInv, StoredAreJudged, dbVars
<1>3. ActsOnPersistedVerdict'
  BY DEF IInv, ActsOnPersistedVerdict
<1> QED
  BY <1>1, <1>2, <1>3 DEF IInv

(* An answer is backed by the result the handler received.                 *)
LEMMA AnswerStep ==
  ASSUME IInv, TypeOK', NEW r \in Requests, NEW a, Finish(r, a),
         a \in {"signed", "ok"} => judged[EventOf[r]] \cap Cleared # {},
         a = "spam" => judged[EventOf[r]] # {},
         \/ UNCHANGED redacted
         \/ RedactIfNeeded(r) /\ (kind[r] = "sign" \/ judged[EventOf[r]] # {}),
         kind' \in [Requests -> Kinds \cup {"none"}],
         \A q \in Requests : task'[q] \in {task[q], "ready"},
         UNCHANGED <<relay, resCh, dbVars, judged>>
  PROVE  IInv'
<1> USE DEF dbVars
<1>1. ASSUME NEW q \in Requests PROVE Carried(q)'
  <2>1. Carried(q) /\ ch'[q] \in {ch[q], "closed"} /\ task'[q] \in {task[q], "ready"}
    BY DEF IInv, TypeOK, Finish
  <2> QED
    BY <2>1, StringFacts DEF Carried, Backed
<1>2. StoredAreJudged'
  BY DEF IInv, StoredAreJudged
<1>3. \A q \in Requests : answer'[q] = IF q = r THEN a ELSE answer[q]
  BY DEF IInv, TypeOK, Finish
<1>4. \A q \in Requests :
        /\ answer'[q] \in {"signed", "ok"} => judged'[EventOf[q]] \cap Cleared # {}
        /\ answer'[q] = "spam" => judged'[EventOf[q]] # {}
  BY <1>3 DEF IInv, ActsOnPersistedVerdict
<1>5. ASSUME "sign" \notin Kinds, NEW e \in redacted' PROVE judged'[e] # {}
  <2>1. kind[r] # "sign"
    BY <1>5 DEF IInv
  <2>2. CASE UNCHANGED redacted
    BY <1>5, <2>2 DEF IInv, ActsOnPersistedVerdict
  <2>3. CASE RedactIfNeeded(r) /\ judged[EventOf[r]] # {}
    BY <1>5, <2>3 DEF IInv, ActsOnPersistedVerdict, RedactIfNeeded
  <2> QED
    BY <2>1, <2>2, <2>3
<1> QED
  BY <1>1, <1>2, <1>4, <1>5 DEF IInv, ActsOnPersistedVerdict

(* The replies of the handlers keep the invariant.                         *)
LEMMA IInvHandler ==
  ASSUME IInv, TypeOK', NEW r \in Requests,
         \/ AnswerUnscanned(r) \/ AnswerFromStore(r) \/ PoolRefuses(r)
         \/ HandlerReceives(r) \/ HandlerTimesOut(r)
  PROVE  IInv'
<1>0. /\ kind \in [Requests -> Kinds \cup {"none"}]
      /\ EventOf[r] \in Events
      /\ Carried(r)
  BY ConstantsAssumption DEF IInv, TypeOK
<1> USE DEF handlerVars, chanVars, dbVars, history
<1>1. CASE AnswerUnscanned(r)
  <2>1. kind' \in [Requests -> Kinds \cup {"none"}]
    BY <1>0, <1>1 DEF AnswerUnscanned
  <2> QED
    BY <1>1, <2>1, AnswerStep DEF AnswerUnscanned
<1>2. CASE AnswerFromStore(r)
  <2>1. kind' \in [Requests -> Kinds \cup {"none"}]
    BY <1>0, <1>2 DEF AnswerFromStore
  <2>2. judged[EventOf[r]] # {}
    BY <1>0, <1>2 DEF AnswerFromStore, Recorded, Read, IInv, StoredAreJudged
  <2>3. Finish(r, "spam")
    BY <1>2 DEF AnswerFromStore, Decode
  <2> QED
    BY <1>2, <2>1, <2>2, <2>3, AnswerStep DEF AnswerFromStore
<1>3. CASE PoolRefuses(r)
  <2>1. UNCHANGED <<kind, cancelled, task, relay, resCh, flight, row, replica, judged>>
    BY <1>3 DEF PoolRefuses
  <2>2. CASE AnswerError(r) /\ kind[r] = "sign"
    BY <1>0, <2>1, <2>2, AnswerStep DEF AnswerError
  <2>3. CASE AnswerError(r) /\ kind[r] # "sign"
    BY <1>0, <2>1, <2>3, AnswerStep DEF AnswerError
  <2>4. CASE UNCHANGED <<answer, ch, redacted>>
    BY <1>0, <2>1, <2>4, QuietStep DEF IInv
  <2> QED BY <1>3, <2>2, <2>3, <2>4 DEF PoolRefuses
<1>4. CASE HandlerReceives(r)
  <2>1. CASE ch[r] = "error" /\ kind[r] = "sign"
    BY <1>0, <1>4, <2>1, AnswerStep DEF HandlerReceives, AnswerError
  <2>2. CASE ch[r] = "error" /\ kind[r] # "sign"
    BY <1>0, <1>4, <2>2, AnswerStep DEF HandlerReceives, AnswerError
  <2>3. CASE ch[r] = "Prohibited"
    <3>1. judged[EventOf[r]] # {}
      BY <1>0, <2>3 DEF Carried, Backed
    <3>2. PICK a \in {"refused", "spam"} : Finish(r, a)
      BY <1>4, <2>3 DEF HandlerReceives, AnswerVerdict
    <3>3. UNCHANGED redacted \/ RedactIfNeeded(r)
      BY <1>4, <2>3 DEF HandlerReceives, AnswerVerdict
    <3> QED
      BY <1>0, <1>4, <3>1, <3>2, <3>3, AnswerStep DEF HandlerReceives
  <2>4. CASE ch[r] \in Cleared
    <3>1. judged[EventOf[r]] \cap Cleared # {}
      BY <1>0, <2>4 DEF Carried, Backed
    <3>2. PICK a \in {"signed", "ok"} : Finish(r, a)
      BY <1>4, <2>4, StringFacts DEF HandlerReceives, AnswerVerdict
    <3>3. UNCHANGED redacted
      BY <1>4, <2>4, StringFacts DEF HandlerReceives, AnswerVerdict
    <3> QED
      BY <1>0, <1>4, <3>1, <3>2, <3>3, AnswerStep DEF HandlerReceives
  <2> QED
    BY <1>4, <2>1, <2>2, <2>3, <2>4, StringFacts DEF HandlerReceives
<1>5. CASE HandlerTimesOut(r)
  BY <1>0, <1>5, AnswerStep DEF HandlerTimesOut
<1> QED
  BY <1>1, <1>2, <1>3, <1>4, <1>5

(* Steps of the workers and senders that only pass results on keep it.     *)
LEMMA IInvQuiet ==
  ASSUME IInv, TypeOK', NEW r \in Requests,
         \/ PoolAccepts(r) \/ Disconnect(r) \/ Deadline(r) \/ ContextEnds(r)
         \/ WorkerStarts(r)
         \/ NotifySends(r) \/ NotifyGivesUp(r)
         \/ RelayTakes(r) \/ RelayCancelled(r) \/ RelaySends(r) \/ RelayGivesUp(r)
  PROVE  IInv'
<1> USE DEF handlerVars, chanVars, dbVars, history
<1>0. TypeOK
  BY DEF IInv
<1>1. CASE PoolAccepts(r)
  <2>1. /\ UNCHANGED <<kind, cancelled, relay, resCh, flight, row, replica, redacted, judged>>
        /\ \A q \in Requests : task'[q] \in {task[q], "ready"}
        /\ kind \in [Requests -> Kinds \cup {"none"}]
    BY <1>0, <1>1 DEF PoolAccepts, TypeOK, IInv
  <2>2. CASE UNCHANGED <<answer, ch>>
    BY <1>0, <2>1, <2>2, QuietStep
  <2>3. CASE Finish(r, "failed")
    BY <2>1, <2>3, AnswerStep
  <2> QED BY <1>1, <2>2, <2>3 DEF PoolAccepts
<1>2. CASE Disconnect(r) \/ Deadline(r) \/ ContextEnds(r)
  BY <1>0, <1>2, QuietStep DEF Disconnect, Deadline, ContextEnds, Cancel, TypeOK
<1>3. CASE WorkerStarts(r)
  BY <1>0, <1>3, QuietStep DEF WorkerStarts, TypeOK
<1>4. CASE NotifySends(r) \/ NotifyGivesUp(r)
  BY <1>0, <1>4, QuietStep DEF NotifySends, NotifyGivesUp, TypeOK
<1>5. CASE RelayTakes(r) \/ RelayCancelled(r)
  BY <1>0, <1>5, QuietStep DEF RelayTakes, RelayCancelled, TypeOK
<1>6. CASE RelaySends(r) \/ RelayGivesUp(r)
  BY <1>0, <1>6, QuietStep DEF RelaySends, RelayGivesUp, TypeOK
<1> QED
  BY <1>1, <1>2, <1>3, <1>4, <1>5, <1>6

(* The start of a check keeps it.                                          *)
LEMMA IInvRunFilters ==
  ASSUME IInv, TypeOK', NEW r \in Requests, RunFilters(r)
  PROVE  IInv'
<1> USE DEF handlerVars, chanVars, dbVars, history
<1>1. kind' \in [Requests -> Kinds \cup {"none"}]
  BY DEF RunFilters, IInv, TypeOK
<1>2. ASSUME NEW q \in Requests PROVE Carried(q)'
  <2>1. Carried(q) /\ relay'[q] \in {relay[q], "wait"}
    BY DEF IInv, TypeOK, RunFilters
  <2> QED
    BY <2>1, StringFacts DEF Carried, Backed, RunFilters
<1>3. StoredAreJudged' /\ ActsOnPersistedVerdict'
  BY DEF RunFilters, IInv, StoredAreJudged, ActsOnPersistedVerdict
<1> QED
  BY <1>1, <1>2, <1>3 DEF IInv

(* Lookup, scan and upsert keep it: a result lands after it was persisted. *)
LEMMA IInvScan ==
  ASSUME IInv, TypeOK', NEW s \in Scans, ScanStep(s)
  PROVE  IInv'
<1> USE DEF handlerVars, chanVars, dbVars, history
<1>0. s[2] \in Events /\ "error" \in Results /\ Backed(s[2], "error")'
  BY StringFacts DEF Scans, Backed
<1>1. ASSUME UNCHANGED <<kind, answer, dbVars, redacted, judged>>,
             \A r \in Requests : Carried(r)'
      PROVE  IInv'
  BY <1>1 DEF IInv, StoredAreJudged, ActsOnPersistedVerdict
<1>2. ASSUME UNCHANGED <<task, relay, chanVars, judged>>
      PROVE  \A r \in Requests : Carried(r)'
  BY <1>2 DEF IInv, Carried, Backed
<1>3. CASE Lookup(s)
  <2>1. CASE Land(s, "error")
    BY <1>0, <1>1, <1>3, <2>1, LandCarries DEF Lookup
  <2>2. CASE Recorded(s[2]) /\ Land(s, Decode(Read(s[2])))
    <3>1. judged[s[2]] # {}
      BY <1>0, <2>2 DEF Recorded, Read, IInv, StoredAreJudged
    <3>2. Land(s, "Prohibited") /\ "Prohibited" \in Results
      BY <2>2, StringFacts DEF Decode
    <3>3. Backed(s[2], "Prohibited")'
      BY <1>3, <3>1, StringFacts DEF Backed, Lookup
    <3>4. \A r \in Requests : Carried(r)'
      BY <1>3, <3>2, <3>3, LandCarries DEF Lookup
    <3> QED
      BY <1>1, <1>3, <3>4 DEF Lookup
  <2>3. CASE UNCHANGED task
    BY <1>1, <1>2, <1>3, <2>3 DEF Lookup
  <2> QED
    BY <1>3, <2>1, <2>2, <2>3 DEF Lookup
<1>4. CASE Scan(s)
  <2>1. CASE Land(s, "error")
    BY <1>0, <1>1, <1>4, <2>1, LandCarries DEF Scan
  <2>2. CASE UNCHANGED task
    BY <1>1, <1>2, <1>4, <2>2 DEF Scan
  <2> QED
    BY <1>4, <2>1, <2>2 DEF Scan
<1>5. CASE Store(s)
  <2>1. CASE Land(s, "error") /\ UNCHANGED <<row, judged, persisted>>
    BY <1>0, <1>1, <1>5, <2>1, LandCarries DEF Store
  <2>2. ASSUME WriteRow(s), NEW x \in {"error", flight[s]}, Land(s, x)
        PROVE  IInv'
    <3>1. flight[s] \in Classes /\ x \in Results
      BY <1>5, <2>2, StringFacts DEF Store, Results
    <3>2. judged' = [judged EXCEPT ![s[2]] = @ \cup {flight[s]}]
      BY <2>2 DEF WriteRow
    <3>3. judged \in [Events -> SUBSET Classes]
      BY DEF IInv, TypeOK
    <3>4. \A e \in Events : judged[e] \subseteq judged'[e]
      BY <1>0, <3>2, <3>3
    <3>5. flight[s] \in judged'[s[2]]
      BY <1>0, <3>2, <3>3
    <3>6. Backed(s[2], x)'
      BY <2>2, <3>5, StringFacts DEF Backed
    <3>7. \A r \in Requests : Carried(r)'
      BY <1>5, <2>2, <3>1, <3>4, <3>6, LandCarries DEF Store
    <3>8. \A e \in Events : e # s[2] => row'[e] = row[e]
      BY <1>0, <2>2 DEF WriteRow, IInv, TypeOK
    <3>9. StoredAreJudged'
      <4> SUFFICES ASSUME NEW e \in Events, row'[e].stored \/ replica'[e].stored
                   PROVE  judged'[e] # {}
        BY DEF StoredAreJudged
      <4>1. CASE e = s[2]
        BY <3>5, <4>1
      <4>2. CASE e # s[2]
        BY <1>5, <3>4, <3>8, <4>2 DEF IInv, StoredAreJudged, Store
      <4> QED BY <4>1, <4>2
    <3>10. ActsOnPersistedVerdict'
      <4>1. \A r \in Requests : EventOf[r] \in Events
        BY ConstantsAssumption
      <4>2. ActsOnPersistedVerdict /\ redacted \subseteq Events
        BY DEF IInv, TypeOK
      <4>3. UNCHANGED <<answer, redacted>>
        BY <1>5 DEF Store
      <4> QED
        BY <3>4, <4>1, <4>2, <4>3 DEF ActsOnPersistedVerdict
    <3> QED
      BY <1>5, <3>7, <3>9, <3>10 DEF IInv, Store
  <2> QED
    BY <1>5, <2>1, <2>2 DEF Store
<1> QED
  BY <1>3, <1>4, <1>5 DEF ScanStep

(* The end of a process keeps it: what was answered and stored stays.      *)
LEMMA IInvDeath ==
  ASSUME IInv, TypeOK', NEW p \in Procs, Die(p)
  PROVE  IInv'
<1>1. \A r \in Requests :
        /\ task'[r] \in {task[r], "gone"}
        /\ relay'[r] \in {relay[r], "gone"}
        /\ resCh'[r] \in {resCh[r], "closed"}
        /\ ch'[r] \in {ch[r], "closed"}
  BY DEF Die
<1> QED
  BY <1>1, QuietStep DEF Die, dbVars, history

(* Replication keeps it: the replica shows rows that were written.         *)
LEMMA IInvReplicate ==
  ASSUME IInv, TypeOK', NEW e \in Events, Replicate(e)
  PROVE  IInv'
<1>1. UNCHANGED <<kind, answer, task, relay, resCh, ch, redacted, row, judged>>
  BY DEF Replicate, handlerVars, chanVars, history
<1>2. \A r \in Requests : Carried(r)'
  BY <1>1 DEF IInv, Carried, Backed
<1>3. StoredAreJudged'
  BY <1>1 DEF Replicate, IInv, TypeOK, StoredAreJudged
<1> QED
  BY <1>1, <1>2, <1>3 DEF IInv, ActsOnPersistedVerdict

(* Every step keeps the invariant.                                         *)
LEMMA IInvNext == IInv /\ [Next]_vars => IInv'
<1> SUFFICES ASSUME IInv, [Next]_vars PROVE IInv'
  OBVIOUS
<1>1. TypeOK'
  BY TypeNext DEF IInv
<1>2. ASSUME NEW r \in Requests, Step(r) \/ Environment(r) PROVE IInv'
  <2>1. CASE Panic(r)
    BY <1>1, <2>1, IInvDeath, ConstantsAssumption DEF Panic
  <2> QED
    BY <1>1, <1>2, <2>1, IInvHandler, IInvQuiet, IInvRunFilters
       DEF Step, Environment
<1>3. ASSUME NEW p \in Procs, Crash(p) PROVE IInv'
  BY <1>1, <1>3, IInvDeath DEF Crash
<1>4. CASE UNCHANGED vars
  BY <1>4 DEF vars, IInv, TypeOK, Carried, Backed, StoredAreJudged,
              ActsOnPersistedVerdict
<1> QED
  BY <1>1, <1>2, <1>3, <1>4, IInvScan, IInvReplicate DEF Next

(* No request, whatever the interleaving, cancellation, crash or replica   *)
(* lag, is answered, and no event redacted, on a verdict that was not      *)
(* persisted for that event.                                               *)
THEOREM VerdictsBackAnswers == Spec => []ActsOnPersistedVerdict
<1>1. IInv => ActsOnPersistedVerdict
  BY DEF IInv
<1> QED
  BY <1>1, IInvInit, IInvNext, PTL DEF Spec

(***************************************************************************)
(* One persisted verdict per process and event.  The bound alone is not    *)
(* inductive: a scan past its lookup must not have persisted anything yet, *)
(* and a process that has persisted a verdict must find the row for ever.  *)
(***************************************************************************)
PInv ==
    /\ TypeOK
    /\ \A s \in Scans :
        /\ persisted[s] <= 1
        /\ persisted[s] >= 1 => row[s[2]].stored
        /\ flight[s] \in {"scan"} \cup Classes => persisted[s] = 0

(* A scan keeps PInv: it looks the event up before it persists a verdict.  *)
LEMMA PInvScan ==
  ASSUME PInv, TypeOK', ~ReadReplica, NEW t \in Scans, ScanStep(t)
  PROVE  PInv'
<1> USE DEF handlerVars, chanVars, dbVars, history
<1> SUFFICES ASSUME NEW s \in Scans
             PROVE  /\ persisted'[s] <= 1
                    /\ persisted'[s] >= 1 => row'[s[2]].stored
                    /\ flight'[s] \in {"scan"} \cup Classes => persisted'[s] = 0
  BY DEF PInv
<1>0. /\ persisted[s] \in Nat /\ persisted[t] \in Nat
      /\ s[2] \in Events /\ t[2] \in Events
  BY DEF PInv, TypeOK, Scans
<1>1. \A x : Land(t, x) => flight' = [flight EXCEPT ![t] = "none"]
  BY DEF Land
<1>2. CASE Lookup(t)
  <2>1. flight'[s] = flight[s] \/ flight'[s] = "none" \/ (s = t /\ ~Recorded(t[2]))
    BY <1>1, <1>2 DEF Lookup, PInv, TypeOK
  <2>2. UNCHANGED <<persisted, row>>
    BY <1>2 DEF Lookup
  <2>3. ~Recorded(t[2]) => ~row[t[2]].stored
    BY DEF Recorded, Read
  <2> QED
    BY <1>0, <2>1, <2>2, <2>3, StringFacts DEF PInv
<1>3. CASE Scan(t)
  <2>1. flight'[s] = flight[s] \/ flight'[s] = "none" \/ (s = t /\ flight[t] = "scan")
    BY <1>1, <1>3 DEF Scan, PInv, TypeOK
  <2>2. UNCHANGED <<persisted, row>>
    BY <1>3 DEF Scan
  <2> QED
    BY <1>0, <2>1, <2>2, StringFacts DEF PInv
<1>4. CASE Store(t)
  <2>1. flight' = [flight EXCEPT ![t] = "none"] /\ flight[t] \in Classes
    BY <1>1, <1>4 DEF Store
  <2>2. CASE UNCHANGED <<row, judged, persisted>>
    BY <1>0, <2>1, <2>2, StringFacts DEF PInv, TypeOK
  <2>3. CASE WriteRow(t)
    <3>1. PICK harms \in SUBSET Harms :
            /\ row' = [row EXCEPT ![t[2]] = Encode(flight[t], harms)]
            /\ persisted' = [persisted EXCEPT ![t] = @ + 1]
      BY <2>3 DEF WriteRow
    <3>2. row'[t[2]].stored
      BY <1>0, <3>1 DEF Encode, PInv, TypeOK
    <3>3. s[2] = t[2] \/ row'[s[2]] = row[s[2]]
      BY <1>0, <3>1 DEF PInv, TypeOK
    <3>4. persisted[t] = 0
      BY <2>1 DEF PInv
    <3>5. persisted'[s] = IF s = t THEN 1 ELSE persisted[s]
      BY <3>1, <3>4 DEF PInv, TypeOK
    <3>6. flight'[s] = IF s = t THEN "none" ELSE flight[s]
      BY <2>1 DEF PInv, TypeOK
    <3> QED
      BY <1>0, <3>2, <3>3, <3>5, <3>6, StringFacts DEF PInv
  <2> QED
    BY <1>4, <2>2, <2>3 DEF Store
<1> QED
  BY <1>2, <1>3, <1>4 DEF ScanStep

(* Steps that touch no table, scan or counter keep PInv.                   *)
LEMMA PInvOther ==
  ASSUME PInv, TypeOK', UNCHANGED <<persisted, row>>,
         \A s \in Scans : flight'[s] \in {flight[s], "lookup", "none"}
  PROVE  PInv'
BY StringFacts DEF PInv

(* Every step keeps PInv when reads go to the primary.                     *)
LEMMA PInvNext == ~ReadReplica /\ PInv /\ [Next]_vars => PInv'
<1> SUFFICES ASSUME ~ReadReplica, PInv, [Next]_vars PROVE PInv'
  OBVIOUS
<1> USE DEF handlerVars, chanVars, dbVars, history
<1>1. TypeOK /\ TypeOK'
  BY TypeNext DEF PInv
<1>2. ASSUME NEW r \in Requests, Environment(r) PROVE PInv'
  BY <1>1, <1>2, PInvOther
     DEF Environment, AnswerUnscanned, AnswerFromStore, RunFilters, PoolRefuses,
         Disconnect, Cancel
<1>3. ASSUME NEW p \in Procs, Die(p) PROVE PInv'
  BY <1>1, <1>3, PInvOther DEF Die
<1>4. ASSUME NEW r \in Requests, WorkerStarts(r) PROVE PInv'
  BY <1>1, <1>4, PInvOther DEF WorkerStarts, TypeOK
<1>5. ASSUME NEW r \in Requests, Step(r) PROVE PInv'
  <2>1. CASE Panic(r)
    BY <1>3, <2>1, ConstantsAssumption DEF Panic
  <2>2. CASE UNCHANGED <<flight, persisted, row>>
    BY <1>1, <2>2, PInvOther
  <2> QED
    BY <1>4, <1>5, <2>1, <2>2
       DEF Step, PoolAccepts, HandlerReceives, HandlerTimesOut, Deadline, ContextEnds,
           Cancel, NotifySends, NotifyGivesUp, RelayTakes, RelayCancelled, RelaySends,
           RelayGivesUp
<1>6. ASSUME NEW e \in Events, Replicate(e) PROVE PInv'
  BY <1>6 DEF Replicate
<1>7. ASSUME NEW p \in Procs, Crash(p) PROVE PInv'
  BY <1>3, <1>7 DEF Crash
<1>8. CASE UNCHANGED vars
  BY <1>1, <1>8, PInvOther DEF vars
<1> QED
  BY <1>1, <1>2, <1>5, <1>6, <1>7, <1>8, PInvScan DEF Next

(* Without a replica every process persists at most one verdict per event. *)
THEOREM OneVerdictPerProcess == Spec => []PersistedOncePerProcess
<1>1. CASE ReadReplica
  BY <1>1, PTL DEF PersistedOncePerProcess
<1>2. CASE ~ReadReplica
  <2>1. Init => PInv
    BY TypeInit DEF Init, PInv
  <2>2. PInv => PersistedOncePerProcess
    BY DEF PInv, PersistedOncePerProcess
  <2>3. PInv /\ [Next]_vars => PInv'
    BY <1>2, PInvNext
  <2> QED
    BY <2>1, <2>2, <2>3, PTL DEF Spec
<1> QED
  BY <1>1, <1>2
(***************************************************************************)
(* A refusal is final on one process without a replica: the request came   *)
(* when the row was there, so no scan of the event is past its lookup, and *)
(* the only result that can reach it is what is read back from the row.    *)
(***************************************************************************)

(* A request that has not come has nothing on its way to it.               *)
Unborn(r) ==
    /\ answer[r] = "none"
    /\ task[r] = "none" /\ relay[r] = "none"
    /\ resCh[r] = "empty" /\ ch[r] = "empty"

(* A refused event is never cleared for r.                                 *)
Barred(r) ==
    /\ pc[r] # "idle"
    /\ row[EventOf[r]].stored
    /\ answer[r] \notin {"signed", "ok"}
    /\ {task[r], relay[r], resCh[r], ch[r]} \cap Cleared = {}

RInv ==
    /\ PInv
    /\ \A s \in Scans : row[s[2]].stored => persisted[s] >= 1
    /\ \A r \in Requests : pc[r] = "idle" => Unborn(r)
    /\ \A r \in late : Barred(r)

(* Steps that hand over no new result to a request that came late, and     *)
(* persist nothing.                                                        *)
LEMMA RInvQuiet ==
  ASSUME RInv, PInv', UNCHANGED <<row, persisted, late>>,
         \A r \in Requests :
            /\ pc'[r] = "idle" => pc[r] = "idle" /\ answer'[r] = answer[r] /\ task'[r] = task[r]
                  /\ relay'[r] = relay[r] /\ resCh'[r] = resCh[r] /\ ch'[r] = ch[r]
            /\ pc[r] # "idle" => pc'[r] # "idle"
            /\ task'[r] \in {task[r], "ready", "flight", "gone", "error", "Prohibited"}
            /\ resCh'[r] \in {resCh[r], task[r], "closed"}
            /\ relay'[r] \in {relay[r], resCh[r], "gone"}
            /\ ch'[r] \in {ch[r], relay[r], "closed"}
            /\ answer'[r] \in {"signed", "ok"} => answer[r] \in {"signed", "ok"} \/ ch[r] \in Cleared
  PROVE  RInv'
<1>1. \A s \in Scans : row'[s[2]].stored => persisted'[s] >= 1
  BY DEF RInv
<1>2. \A r \in Requests : pc'[r] = "idle" => Unborn(r)'
  BY DEF RInv, Unborn
<1>3. ASSUME NEW r \in late' PROVE Barred(r)'
  <2>1. r \in Requests /\ Barred(r)
    BY <1>3 DEF RInv, PInv, TypeOK
  <2>2. /\ pc'[r] # "idle" /\ row'[EventOf[r]].stored
        /\ task'[r] \notin Cleared /\ relay'[r] \notin Cleared
        /\ resCh'[r] \notin Cleared /\ ch'[r] \notin Cleared
    BY <2>1, StringFacts DEF Barred
  <2>3. answer'[r] \notin {"signed", "ok"}
    BY <2>1 DEF Barred
  <2> QED BY <2>2, <2>3 DEF Barred
<1> QED
  BY <1>1, <1>2, <1>3 DEF RInv

(* What the handlers do.                                                   *)
LEMMA RInvRequest ==
  ASSUME ~ReadReplica, RInv, PInv', NEW r \in Requests, Step(r) \/ Environment(r),
         ~Panic(r), ~RunFilters(r)
  PROVE  RInv'
<1> USE DEF handlerVars, chanVars, dbVars, history
<1>0. TypeOK /\ TypeOK'
  BY DEF RInv, PInv
<1>1. ASSUME NEW a \in {"unscanned", "ok", "spam", "signed", "refused", "failed", "timeout"},
             Finish(r, a), a \in {"signed", "ok"} => ch[r] \in Cleared,
             UNCHANGED <<row, persisted, late, relay, resCh>>,
             \A q \in Requests : task'[q] \in {task[q], "ready"},
             \A q \in Requests : q # r => task'[q] = task[q]
      PROVE  RInv'
  <2>1. \A q \in Requests :
          /\ pc'[q] = IF q = r THEN "done" ELSE pc[q]
          /\ answer'[q] = IF q = r THEN a ELSE answer[q]
          /\ ch'[q] = IF q = r THEN "closed" ELSE ch[q]
    BY <1>0, <1>1 DEF Finish, TypeOK
  <2> QED
    BY <1>1, <2>1, RInvQuiet
<1>2. CASE AnswerUnscanned(r)
  BY <1>1, <1>2 DEF AnswerUnscanned
<1>3. CASE AnswerFromStore(r)
  <2>1. Finish(r, "spam")
    BY <1>3 DEF AnswerFromStore, Decode
  <2> QED BY <1>1, <1>3, <2>1 DEF AnswerFromStore
<1>4. CASE HandlerTimesOut(r)
  BY <1>1, <1>4 DEF HandlerTimesOut
<1>5. CASE HandlerReceives(r)
  <2>1. \E a \in {"ok", "spam", "signed", "refused", "failed"} :
          Finish(r, a) /\ (a \in {"signed", "ok"} => ch[r] \in Cleared)
    <3>1. CASE ch[r] = "error"
      BY <1>5, <3>1 DEF HandlerReceives, AnswerError
    <3>2. CASE ch[r] = "Prohibited"
      BY <1>5, <3>2 DEF HandlerReceives, AnswerVerdict
    <3>3. CASE ch[r] \in Cleared
      BY <1>5, <3>3, StringFacts DEF HandlerReceives, AnswerVerdict
    <3> QED BY <1>5, <3>1, <3>2, <3>3, StringFacts DEF HandlerReceives
  <2> QED BY <1>1, <1>5, <2>1 DEF HandlerReceives
<1>6. CASE PoolRefuses(r)
  <2>1. CASE AnswerError(r)
    <3>1. \E a \in {"refused", "failed"} : Finish(r, a)
      BY <2>1 DEF AnswerError
    <3> QED BY <1>1, <1>6, <3>1 DEF PoolRefuses
  <2>2. CASE pc' = [pc EXCEPT ![r] = "wait"] /\ UNCHANGED <<answer, ch, redacted>>
    BY <1>0, <1>6, <2>2, RInvQuiet DEF PoolRefuses, TypeOK
  <2> QED BY <1>6, <2>1, <2>2 DEF PoolRefuses
<1>7. CASE PoolAccepts(r)
  <2>1. /\ UNCHANGED <<row, persisted, late, relay, resCh>>
        /\ \A q \in Requests : task'[q] \in {task[q], "ready"}
        /\ \A q \in Requests : q # r => task'[q] = task[q]
    BY <1>0, <1>7 DEF PoolAccepts, TypeOK
  <2>2. CASE pc' = [pc EXCEPT ![r] = "wait"] /\ UNCHANGED <<answer, ch>>
    BY <1>0, <2>1, <2>2, RInvQuiet DEF TypeOK
  <2>3. CASE Finish(r, "failed")
    BY <1>1, <2>1, <2>3
  <2> QED BY <1>7, <2>2, <2>3 DEF PoolAccepts
<1>8. CASE Disconnect(r) \/ Deadline(r) \/ ContextEnds(r)
  BY <1>8, RInvQuiet DEF Disconnect, Deadline, ContextEnds, Cancel
<1>9. ASSUME UNCHANGED <<pc, answer, row, persisted, late>>, pc[r] # "idle",
             \A q \in Requests \ {r} : /\ task'[q] = task[q] /\ relay'[q] = relay[q]
                                       /\ resCh'[q] = resCh[q] /\ ch'[q] = ch[q],
             task'[r] \in {task[r], "flight", "gone"},
             resCh'[r] \in {resCh[r], task[r], "closed"},
             relay'[r] \in {relay[r], resCh[r], "gone"},
             ch'[r] \in {ch[r], relay[r], "closed"}
      PROVE  RInv'
  BY <1>9, RInvQuiet
<1>10. pc[r] = "idle" => task[r] = "none" /\ relay[r] = "none"
  BY DEF RInv, Unborn
<1>11. CASE WorkerStarts(r)
  BY <1>0, <1>9, <1>10, <1>11 DEF WorkerStarts, TypeOK
<1>12. CASE NotifySends(r) \/ NotifyGivesUp(r)
  <2>1. pc[r] # "idle"
    BY <1>10, <1>12, StringFacts DEF NotifySends, NotifyGivesUp
  <2> QED BY <1>0, <1>9, <1>12, <2>1 DEF NotifySends, NotifyGivesUp, TypeOK
<1>13. CASE RelayTakes(r) \/ RelayCancelled(r)
  BY <1>0, <1>9, <1>10, <1>13 DEF RelayTakes, RelayCancelled, TypeOK
<1>14. CASE RelaySends(r) \/ RelayGivesUp(r)
  <2>1. pc[r] # "idle"
    BY <1>10, <1>14, StringFacts DEF RelaySends, RelayGivesUp
  <2> QED BY <1>0, <1>9, <1>14, <2>1 DEF RelaySends, RelayGivesUp, TypeOK
<1> QED
  BY <1>2, <1>3, <1>4, <1>5, <1>6, <1>7, <1>8, <1>11, <1>12, <1>13, <1>14
     DEF Step, Environment

(* A request that comes when the event is refused has nothing on its way.  *)
LEMMA RInvRunFilters ==
  ASSUME ~ReadReplica, RInv, PInv', NEW r \in Requests, RunFilters(r)
  PROVE  RInv'
<1> USE DEF handlerVars, chanVars, dbVars, history
<1>0. TypeOK /\ Unborn(r)
  BY DEF RInv, PInv, RunFilters
<1>1. /\ UNCHANGED <<answer, task, resCh, ch, row, persisted>>
      /\ pc' = [pc EXCEPT ![r] = "submit"]
      /\ relay' = [relay EXCEPT ![r] = "wait"]
      /\ late' \subseteq late \cup {r}
      /\ r \in late' \ late => row[EventOf[r]].stored
  BY DEF RunFilters, Recorded, Read
<1>2. \A s \in Scans : row'[s[2]].stored => persisted'[s] >= 1
  BY <1>1 DEF RInv
<1>3. \A q \in Requests : pc'[q] = "idle" => Unborn(q)'
  BY <1>0, <1>1 DEF RInv, Unborn, TypeOK
<1>4. ASSUME NEW q \in late' PROVE Barred(q)'
  <2>1. CASE q = r
    <3>1. row[EventOf[r]].stored
      BY <1>1, <1>4, <2>1 DEF RInv, Barred
    <3> QED BY <1>0, <1>1, <2>1, <3>1, StringFacts DEF Barred, Unborn, TypeOK
  <2>2. CASE q # r
    BY <1>0, <1>1, <1>4, <2>2 DEF RInv, Barred, TypeOK
  <2> QED BY <2>1, <2>2
<1> QED
  BY <1>2, <1>3, <1>4 DEF RInv

(* A scan never lands a verdict it reached on a request that came late.    *)
LEMMA RInvScan ==
  ASSUME ~ReadReplica, \A p, q \in Procs : p = q,
         RInv, PInv', NEW t \in Scans, ScanStep(t)
  PROVE  RInv'
<1> USE DEF handlerVars, chanVars, dbVars, history
<1>0. /\ TypeOK /\ TypeOK'
      /\ \A s \in Scans : s = <<s[1], s[2]>> /\ s[1] \in Procs /\ s[2] \in Events
  BY DEF RInv, PInv, Scans
<1>1. UNCHANGED <<pc, answer, relay, resCh, ch, late>>
  BY DEF ScanStep, Lookup, Scan, Store
<1>2. ASSUME NEW x, Land(t, x), NEW r \in Requests
      PROVE  task'[r] = task[r] \/ (task[r] = "flight" /\ ScanOf(r) = t /\ task'[r] \in {"gone", x})
  BY <1>2 DEF Land, Members
<1>3. CASE UNCHANGED <<row, persisted>>
           /\ \A r \in Requests :
                \/ task'[r] = task[r]
                \/ task[r] = "flight" /\ task'[r] \in {"gone", "error", "Prohibited"}
  <2>1. \A r \in Requests : pc'[r] = "idle" => task'[r] = task[r]
    BY <1>1, <1>3 DEF RInv, Unborn
  <2> QED BY <1>1, <1>3, <2>1, RInvQuiet
<1>4. CASE Lookup(t)
  BY <1>2, <1>3, <1>4 DEF Lookup, Decode
<1>5. CASE Scan(t)
  BY <1>2, <1>3, <1>5 DEF Scan
<1>6. CASE Store(t) /\ UNCHANGED <<row, persisted>> /\ Land(t, "error")
  BY <1>2, <1>3, <1>6
<1>7. ASSUME Store(t), WriteRow(t), NEW x, Land(t, x)
      PROVE  RInv'
  <2>1. /\ flight[t] \in Classes /\ persisted[t] = 0
        /\ ~row[t[2]].stored
    BY <1>0, <1>7 DEF Store, RInv, PInv
  <2>2. PICK harms \in SUBSET Harms :
            /\ row' = [row EXCEPT ![t[2]] = Encode(flight[t], harms)]
            /\ persisted' = [persisted EXCEPT ![t] = @ + 1]
    BY <1>7 DEF WriteRow
  <2>3. \A s \in Scans : row'[s[2]].stored => persisted'[s] >= 1
    <3> SUFFICES ASSUME NEW s \in Scans, row'[s[2]].stored PROVE persisted'[s] >= 1
      OBVIOUS
    <3>1. CASE s[2] = t[2]
      <4>1. s = t
        BY <1>0, <3>1
      <4> QED BY <2>1, <2>2, <4>1, <1>0 DEF TypeOK
    <3>2. CASE s[2] # t[2]
      <4>1. row'[s[2]] = row[s[2]] /\ persisted'[s] = persisted[s]
        BY <1>0, <2>2, <3>2 DEF TypeOK
      <4> QED BY <4>1 DEF RInv
    <3> QED BY <3>1, <3>2
  <2>4. \A r \in Requests : pc'[r] = "idle" => Unborn(r)'
    BY <1>1, <1>2, <1>7 DEF RInv, Unborn
  <2>5. ASSUME NEW r \in late' PROVE Barred(r)'
    <3>1. r \in Requests /\ Barred(r) /\ EventOf[r] \in Events /\ ScanOf(r)[2] = EventOf[r]
      BY <1>0, <1>1, <2>5, ConstantsAssumption DEF RInv, TypeOK, ScanOf
    <3>2. EventOf[r] # t[2]
      BY <2>1, <3>1 DEF Barred
    <3>3. task'[r] = task[r] /\ row'[EventOf[r]] = row[EventOf[r]]
      BY <1>0, <1>2, <1>7, <2>2, <3>1, <3>2 DEF TypeOK
    <3> QED BY <1>1, <3>1, <3>3 DEF Barred
  <2> QED BY <2>3, <2>4, <2>5 DEF RInv
<1> QED
  BY <1>4, <1>5, <1>6, <1>7 DEF ScanStep, Store

(* Every step keeps it.                                                    *)
LEMMA RInvNext ==
  ASSUME ~ReadReplica, \A p, q \in Procs : p = q, RInv, [Next]_vars
  PROVE  RInv'
<1>1. PInv' /\ TypeOK
  BY PInvNext DEF RInv, PInv
<1>2. ASSUME NEW p \in Procs, Die(p) PROVE RInv'
  <2>1. \A r \in Requests :
          /\ pc'[r] = "idle" => pc[r] = "idle" /\ answer'[r] = answer[r] /\ task'[r] = task[r]
                  /\ relay'[r] = relay[r] /\ resCh'[r] = resCh[r] /\ ch'[r] = ch[r]
          /\ pc[r] # "idle" => pc'[r] # "idle"
          /\ task'[r] \in {task[r], "gone"}
          /\ relay'[r] \in {relay[r], "gone"}
          /\ resCh'[r] \in {resCh[r], "closed"}
          /\ ch'[r] \in {ch[r], "closed"}
          /\ answer'[r] = answer[r]
    BY <1>2 DEF Die
  <2>2. UNCHANGED <<row, persisted, late>>
    BY <1>2 DEF Die, dbVars, history
  <2> QED BY <1>1, <2>1, <2>2, RInvQuiet
<1>3. ASSUME NEW r \in Requests, Step(r) \/ Environment(r) PROVE RInv'
  <2>1. CASE Panic(r)
    <3>1. Die(ProcOf[r]) /\ ProcOf[r] \in Procs
      BY <2>1, ConstantsAssumption DEF Panic
    <3> QED BY <1>2, <3>1
  <2> QED BY <1>1, <1>3, <2>1, RInvRequest, RInvRunFilters
<1>4. ASSUME NEW p \in Procs, Crash(p) PROVE RInv'
  BY <1>2, <1>4 DEF Crash
<1>5. ASSUME NEW e \in Events, Replicate(e) PROVE RInv'
  BY <1>5 DEF Replicate
<1>6. CASE UNCHANGED vars
  BY <1>1, <1>6, RInvQuiet DEF vars
<1> QED
  BY <1>1, <1>3, <1>4, <1>5, <1>6, RInvScan DEF Next

(* On one process without a replica no request that comes after a refusal  *)
(* is on record is ever cleared, whatever scans, cancellations and         *)
(* restarts are under way when it comes.                                   *)
THEOREM RefusalFinal == Spec => []RefusalIsFinal
<1>1. CASE ReadReplica \/ Cardinality(Procs) # 1
  <2>1. RefusalIsFinal
    BY <1>1 DEF RefusalIsFinal
  <2> QED BY <2>1, PTL
<1>2. CASE ~ReadReplica /\ Cardinality(Procs) = 1
  <2>0. \A p, q \in Procs : p = q
    <3>1. \E x : Procs = {x}
      BY <1>2, FS_Singleton, ConstantsAssumption
    <3> QED BY <3>1
  <2>1. Init => RInv
    BY TypeInit DEF Init, PInv, RInv, Unborn, NoRow, Scans
  <2>2. RInv => RefusalIsFinal
    BY DEF RInv, Barred, RefusalIsFinal
  <2>3. RInv /\ [Next]_vars => RInv'
    BY <1>2, <2>0, RInvNext
  <2> QED
    BY <2>1, <2>2, <2>3, PTL DEF Spec
<1> QED
  BY <1>1, <1>2
=============================================================================
