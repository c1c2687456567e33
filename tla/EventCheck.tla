------------------------------ MODULE EventCheck ------------------------------
(***************************************************************************)
(* The event checking path: the HTTP handlers that ask for a verdict on an *)
(* event (homeserver/api_msc4284_check.go, api_msc4284_sign.go,            *)
(* api_transactions.go, api/http_server_api_check.go), the relay goroutine *)
(* of homeserver/run_filters.go, the worker pool and per-event             *)
(* singleflight of queue/pool.go, and the events table of storage/psql.go. *)
(*                                                                         *)
(* Every request owns two buffered channels of capacity one: `resCh` (made *)
(* by RunFilters, filled by notifyResult, closed by the relay) and `ch`    *)
(* (made by the handler, filled by the relay's rebroadcast goroutine,      *)
(* closed when the handler returns).  A goroutine or a channel that holds  *)
(* a result has that result as its value.  The error result the relay      *)
(* makes up when the context is cancelled is never sent, because the       *)
(* rebroadcast goroutine looks at the same context before it sends.        *)
(***************************************************************************)
EXTENDS Naturals, FiniteSets

CONSTANTS
    Requests,     \* the requests the server receives
    Events,       \* event IDs
    Procs,        \* policyserv processes that share one database
    EventOf,      \* [Requests -> Events], the event a request is about
    ProcOf,       \* [Requests -> Procs], the process that receives it
    Kinds,        \* the endpoints in use
    Harms,        \* harm identifiers a filter may report
    MaxWorkers,   \* workers of one process's pool
    ReadReplica   \* TRUE when PS_DATABASE_READ names a lagging replica

AllKinds == {"check", "sign", "send", "api"}

ASSUME ConstantsAssumption ==
    /\ EventOf \in [Requests -> Events]
    /\ ProcOf \in [Requests -> Procs]
    /\ Kinds \subseteq AllKinds
    /\ IsFiniteSet(Procs)
    /\ MaxWorkers \in Nat \ {0}
    /\ ReadReplica \in BOOLEAN
    /\ "Allowed" \notin Harms

Classes == {"Neutral", "Allowed", "Prohibited"}
Cleared == {"Neutral", "Allowed"}
Results == Classes \cup {"error"}

VARIABLES
    kind,       \* endpoint of each request
    pc,         \* handler: idle, submit (in pool.Submit), wait (select), done, lost
    answer,     \* what the handler replied
    cancelled,  \* the request context is done
    task,       \* workFn, then the result its notifyResult goroutine sends
    relay,      \* RunFilters' goroutine, then the result it rebroadcasts
    resCh,      \* channel between notifyResult and the relay
    ch,         \* channel between the relay and the handler
    flight,     \* singleflight: phase of the scan of an event on a process,
                \* or the verdict it is about to persist
    row,        \* events table on the primary
    replica,    \* events table as the read-only connection sees it
    redacted,   \* events for which a redaction was instructed
    panicked,   \* a goroutine sent on a closed channel
    judged,     \* history: verdicts ever persisted for an event
    persisted,  \* history: how often a process persisted a verdict
    late        \* history: requests received after a refusal was recorded

handlerVars == <<kind, pc, answer, cancelled>>
chanVars    == <<resCh, ch>>
dbVars      == <<row, replica>>
history     == <<judged, persisted, late>>
vars == <<kind, pc, answer, cancelled, task, relay, resCh, ch, flight,
          row, replica, redacted, panicked, judged, persisted, late>>

Scans == Procs \X Events
ScanOf(r) == <<ProcOf[r], EventOf[r]>>
Members(s) == {r \in Requests : ScanOf(r) = s /\ task[r] = "flight"}

(* The stored form of a verdict: a JSON object whose keys are the harms,   *)
(* plus "Allowed".  UpsertEventResult never writes an empty string, so the *)
(* branch of GetEventResult for one is not reachable.                      *)
NoRow == [stored |-> FALSE, keys |-> {}]
Encode(class, harms) ==
    [stored |-> TRUE,
     keys |-> harms \cup (IF class = "Allowed" THEN {"Allowed"} ELSE {})]

(* Mutant: a class that is not one.                                        *)
DecodeMisspelt(stored) == "prohibited"

(* GetEventResult assigns AllowedContent() when "Allowed" is the only key  *)
(* and then, in every case, overwrites it with ProhibitedContent(harms).   *)
Decode(stored) == "Prohibited"

(* GetEventResult reads through the read-only connection.                  *)
Read(e) == IF ReadReplica THEN replica[e] ELSE row[e]
Recorded(e) == Read(e).stored

Init ==
    /\ kind = [r \in Requests |-> "none"]
    /\ pc = [r \in Requests |-> "idle"]
    /\ answer = [r \in Requests |-> "none"]
    /\ cancelled = [r \in Requests |-> FALSE]
    /\ task = [r \in Requests |-> "none"]
    /\ relay = [r \in Requests |-> "none"]
    /\ resCh = [r \in Requests |-> "empty"]
    /\ ch = [r \in Requests |-> "empty"]
    /\ flight = [s \in Scans |-> "none"]
    /\ row = [e \in Events |-> NoRow]
    /\ replica = [e \in Events |-> NoRow]
    /\ redacted = {}
    /\ panicked = FALSE
    /\ judged = [e \in Events |-> {}]
    /\ persisted = [s \in Scans |-> 0]
    /\ late = {}

(***************************************************************************)
(* Handlers                                                                *)
(***************************************************************************)

(* The handler writes its response and returns, which closes ch.           *)
Finish(r, a) ==
    /\ pc' = [pc EXCEPT ![r] = "done"]
    /\ answer' = [answer EXCEPT ![r] = a]
    /\ ch' = [ch EXCEPT ![r] = "closed"]

(* redactIfNeeded: nothing when the sender's own server asks, otherwise    *)
(* SendRedactInstruction, whose failure is logged and ignored.             *)
RedactIfNeeded(r) ==
    \E sameDomainOrFailed \in BOOLEAN :
        redacted' = IF sameDomainOrFailed THEN redacted
                    ELSE redacted \cup {EventOf[r]}

(* Answers given without a scan: unknown room, unparsable event, signature *)
(* that does not verify; for the API, GetEventResult or GetEvent failing.  *)
AnswerUnscanned(r) ==
    /\ pc[r] = "idle"
    /\ \E k \in Kinds : kind' = [kind EXCEPT ![r] = k]
    /\ Finish(r, "unscanned")
    /\ UNCHANGED <<cancelled, task, relay, resCh, flight, dbVars,
                   redacted, panicked, history>>

(* httpCheckEventIdCommunityApi renders a stored result straight away.     *)
AnswerFromStore(r) ==
    /\ pc[r] = "idle"
    /\ "api" \in Kinds
    /\ Recorded(EventOf[r])
    /\ kind' = [kind EXCEPT ![r] = "api"]
    /\ Finish(r, IF Decode(Read(EventOf[r])) = "Prohibited" THEN "spam" ELSE "ok")
    /\ UNCHANGED <<cancelled, task, relay, resCh, flight, dbVars,
                   redacted, panicked, history>>

(* The request reaches RunFilters: the relay goroutine is started and the  *)
(* handler enters pool.Submit.  The API endpoint gets here only when it    *)
(* found no stored result.                                                 *)
RunFilters(r) ==
    /\ pc[r] = "idle"
    /\ \E k \in Kinds :
        /\ k = "api" => ~Recorded(EventOf[r])
        /\ kind' = [kind EXCEPT ![r] = k]
    /\ pc' = [pc EXCEPT ![r] = "submit"]
    /\ relay' = [relay EXCEPT ![r] = "wait"]
    /\ late' = IF Recorded(EventOf[r]) /\ Decode(Read(EventOf[r])) = "Prohibited"
               THEN late \cup {r} ELSE late
    /\ UNCHANGED <<answer, cancelled, task, chanVars, flight, dbVars,
                   redacted, panicked, judged, persisted>>

Busy(p) == {r \in Requests : ProcOf[r] = p /\ task[r] \in {"ready", "flight"}}

(* The goroutine of a transaction's PDU assigns RunFilters' error to the   *)
(* `err` of the handler's loop and reads it again, while the loop goes on  *)
(* with the other PDUs: what it reads may be theirs.                       *)
ReadsErrOfLoop(r) == kind[r] = "send"

(* ants blocks the handler until a worker is free, then runs workFn on it. *)
PoolAccepts(r) ==
    /\ pc[r] = "submit"
    /\ Cardinality(Busy(ProcOf[r])) < MaxWorkers
    /\ task' = [task EXCEPT ![r] = "ready"]
    /\ \/ pc' = [pc EXCEPT ![r] = "wait"] /\ UNCHANGED <<answer, ch>>
       \/ ReadsErrOfLoop(r) /\ Finish(r, "failed")
    /\ UNCHANGED <<kind, cancelled, relay, resCh, flight, dbVars,
                   redacted, panicked, history>>

(* The reply when the scan could not be started or ended in an error; the  *)
(* signing endpoint also asks for a redaction.                             *)
AnswerError(r) ==
    /\ Finish(r, IF kind[r] = "sign" THEN "refused" ELSE "failed")
    /\ IF kind[r] = "sign" THEN RedactIfNeeded(r) ELSE UNCHANGED redacted

PoolRefuses(r) ==
    /\ pc[r] = "submit"
    /\ \/ AnswerError(r)
       \/ /\ ReadsErrOfLoop(r)
          /\ pc' = [pc EXCEPT ![r] = "wait"]
          /\ UNCHANGED <<answer, ch, redacted>>
    /\ UNCHANGED <<kind, cancelled, task, relay, resCh, flight, dbVars,
                   panicked, history>>

(* The reply to a verdict.                                                 *)
AnswerVerdict(r) ==
    IF ch[r] = "Prohibited"
    THEN /\ Finish(r, IF kind[r] = "sign" THEN "refused" ELSE "spam")
         /\ IF kind[r] = "api" THEN UNCHANGED redacted ELSE RedactIfNeeded(r)
    ELSE /\ Finish(r, IF kind[r] = "sign" THEN "signed" ELSE "ok")
         /\ UNCHANGED redacted

(* Mutant: the handler looks at the verdict without looking at the error.  *)
HandlerReceivesUnchecked(r) ==
    /\ pc[r] = "wait"
    /\ ch[r] \in Results
    /\ AnswerVerdict(r)
    /\ UNCHANGED <<kind, cancelled, task, relay, resCh, flight, dbVars,
                   panicked, history>>

HandlerReceives(r) ==
    /\ pc[r] = "wait"
    /\ ch[r] \in Results
    /\ IF ch[r] = "error" THEN AnswerError(r) ELSE AnswerVerdict(r)
    /\ UNCHANGED <<kind, cancelled, task, relay, resCh, flight, dbVars,
                   panicked, history>>

(* Mutant: the handler waits for the result alone.                         *)
HandlerWaitsOn(r) == FALSE

HandlerTimesOut(r) ==
    /\ pc[r] = "wait"
    /\ cancelled[r]
    /\ Finish(r, "timeout")
    /\ UNCHANGED <<kind, cancelled, task, relay, resCh, flight, dbVars,
                   redacted, panicked, history>>

Cancel(r) ==
    /\ ~cancelled[r]
    /\ cancelled' = [cancelled EXCEPT ![r] = TRUE]
    /\ UNCHANGED <<kind, pc, answer, task, relay, chanVars, flight,
                   dbVars, redacted, panicked, history>>

(* The client goes away.                                                   *)
Disconnect(r) == kind[r] # "send" /\ pc[r] \in {"submit", "wait"} /\ Cancel(r)

(* The two minutes of a transaction's PDU are over.                        *)
Deadline(r) == kind[r] = "send" /\ pc[r] \in {"submit", "wait"} /\ Cancel(r)

(* net/http cancels the context after the handler returned; a PDU's        *)
(* goroutine does it in the defer that runs after close(ch).               *)
ContextEnds(r) == pc[r] = "done" /\ Cancel(r)

(***************************************************************************)
(* Pool worker, singleflight and doFilter                                  *)
(***************************************************************************)

(* workFn: give up when the context is done (notifyResult then sees it     *)
(* done as well and sends nothing), else join or start the event's scan.   *)
WorkerStarts(r) ==
    /\ task[r] = "ready"
    /\ IF cancelled[r]
       THEN /\ task' = [task EXCEPT ![r] = "gone"]
            /\ UNCHANGED flight
       ELSE /\ task' = [task EXCEPT ![r] = "flight"]
            /\ flight' = [flight EXCEPT ![ScanOf(r)] =
                              IF @ = "none" THEN "lookup" ELSE @]
    /\ UNCHANGED <<handlerVars, relay, chanVars, dbVars,
                   redacted, panicked, history>>

(* The scan of s ends with result x: singleflight forgets it and hands x   *)
(* to every member, whose notifyResult goroutine starts and checks the     *)
(* context before it selects.                                              *)
Land(s, x) ==
    /\ flight' = [flight EXCEPT ![s] = "none"]
    /\ task' = [r \in Requests |->
                  IF r \notin Members(s) THEN task[r]
                  ELSE IF cancelled[r] THEN "gone" ELSE x]

(* Mutant: doFilter scans without looking for a recorded verdict.          *)
LookupSkipped(s) ==
    /\ flight[s] = "lookup"
    /\ flight' = [flight EXCEPT ![s] = "scan"]
    /\ UNCHANGED <<handlerVars, task, relay, chanVars, dbVars, redacted,
                   panicked, history>>

(* doFilter, GetEventResult: an error, a recorded verdict, or nothing yet. *)
Lookup(s) ==
    /\ flight[s] = "lookup"
    /\ \/ Land(s, "error")
       \/ /\ Recorded(s[2])
          /\ Land(s, Decode(Read(s[2])))
       \/ /\ ~Recorded(s[2])
          /\ flight' = [flight EXCEPT ![s] = "scan"]
          /\ UNCHANGED task
    /\ UNCHANGED <<handlerVars, relay, chanVars, dbVars, redacted,
                   panicked, history>>

(* doFilter, GetFilterSetForRoomId and CheckEvent: an error (no filter set *)
(* for the room, a filter failed, one minute passed) or a verdict.         *)
Scan(s) ==
    /\ flight[s] = "scan"
    /\ \/ Land(s, "error")
       \/ /\ \E v \in Classes : flight' = [flight EXCEPT ![s] = v]
          /\ UNCHANGED task
    /\ UNCHANGED <<handlerVars, relay, chanVars, dbVars, redacted, panicked,
                   history>>

(* The row of a verdict: harms accompany Prohibited and nothing else.      *)
WriteRow(s) ==
    \E harms \in SUBSET Harms :
        /\ (harms # {}) <=> (flight[s] = "Prohibited")
        /\ row' = [row EXCEPT ![s[2]] = Encode(flight[s], harms)]
        /\ judged' = [judged EXCEPT ![s[2]] = @ \cup {flight[s]}]
        /\ persisted' = [persisted EXCEPT ![s] = @ + 1]

(* Mutants: the verdict is returned although it was not written; the write *)
(* is tried again after an error that came once the row was committed.     *)
StoreUnchecked(s) ==
    /\ flight[s] \in Classes
    /\ \/ WriteRow(s)
       \/ UNCHANGED <<row, judged, persisted>>
    /\ Land(s, flight[s])
    /\ UNCHANGED <<handlerVars, relay, chanVars, replica, redacted,
                   panicked, late>>

StoreRetried(s) ==
    /\ flight[s] \in Classes
    /\ persisted[s] <= 1
    /\ WriteRow(s)
    /\ Land(s, flight[s]) \/ UNCHANGED <<flight, task>>
    /\ UNCHANGED <<handlerVars, relay, chanVars, replica, redacted,
                   panicked, late>>

(* doFilter, UpsertEventResult: written; or an error, before or after the  *)
(* row was committed.                                                      *)
Store(s) ==
    /\ flight[s] \in Classes
    /\ \/ WriteRow(s) /\ Land(s, flight[s])
       \/ WriteRow(s) /\ Land(s, "error")
       \/ Land(s, "error") /\ UNCHANGED <<row, judged, persisted>>
    /\ UNCHANGED <<handlerVars, relay, chanVars, replica, redacted,
                   panicked, late>>

(* Asynchronous replication to the read-only database.                     *)
Replicate(e) ==
    /\ ReadReplica
    /\ replica[e] # row[e]
    /\ replica' = [replica EXCEPT ![e] = row[e]]
    /\ UNCHANGED <<handlerVars, task, relay, chanVars, flight, row,
                   redacted, panicked, history>>

(***************************************************************************)
(* The two sending goroutines and the relay                                *)
(***************************************************************************)

(* A send case on a closed channel is ready in a Go select, and panics.    *)
NotifySends(r) ==
    /\ task[r] \in Results
    /\ resCh[r] = "empty"
    /\ resCh' = [resCh EXCEPT ![r] = task[r]]
    /\ task' = [task EXCEPT ![r] = "gone"]
    /\ UNCHANGED <<handlerVars, relay, ch, flight, dbVars, redacted,
                   panicked, history>>

NotifyGivesUp(r) ==
    /\ task[r] \in Results
    /\ cancelled[r]
    /\ task' = [task EXCEPT ![r] = "gone"]
    /\ UNCHANGED <<handlerVars, relay, chanVars, flight, dbVars,
                   redacted, panicked, history>>

(* The relay takes the result, closes resCh as it returns and leaves a     *)
(* rebroadcast goroutine behind, which checks the context first.           *)
RelayTakes(r) ==
    /\ relay[r] = "wait"
    /\ resCh[r] \in Results
    /\ resCh' = [resCh EXCEPT ![r] = "closed"]
    /\ relay' = [relay EXCEPT ![r] = IF cancelled[r] THEN "gone" ELSE resCh[r]]
    /\ UNCHANGED <<handlerVars, task, ch, flight, dbVars, redacted,
                   panicked, history>>

(* Mutant: the relay waits for the result alone.                           *)
RelayWaitsOn(r) == FALSE

RelayCancelled(r) ==
    /\ relay[r] = "wait"
    /\ cancelled[r]
    /\ resCh' = [resCh EXCEPT ![r] = "closed"]
    /\ relay' = [relay EXCEPT ![r] = "gone"]
    /\ UNCHANGED <<handlerVars, task, ch, flight, dbVars, redacted,
                   panicked, history>>

RelaySends(r) ==
    /\ relay[r] \in Results
    /\ ch[r] = "empty"
    /\ ch' = [ch EXCEPT ![r] = relay[r]]
    /\ relay' = [relay EXCEPT ![r] = "gone"]
    /\ UNCHANGED <<handlerVars, task, resCh, flight, dbVars, redacted,
                   panicked, history>>

RelayGivesUp(r) ==
    /\ relay[r] \in Results
    /\ cancelled[r]
    /\ relay' = [relay EXCEPT ![r] = "gone"]
    /\ UNCHANGED <<handlerVars, task, chanVars, flight, dbVars,
                   redacted, panicked, history>>

(***************************************************************************)
(* The end of a process: everything in memory is gone, the database stays. *)
(* A process that starts again has the same, empty, state.                 *)
(***************************************************************************)
Die(p) ==
    LET on == {r \in Requests : ProcOf[r] = p /\ pc[r] # "idle"} IN
    /\ pc' = [r \in Requests |->
                IF r \in on /\ pc[r] # "done" THEN "lost" ELSE pc[r]]
    /\ task' = [r \in Requests |-> IF r \in on THEN "gone" ELSE task[r]]
    /\ relay' = [r \in Requests |-> IF r \in on THEN "gone" ELSE relay[r]]
    /\ flight' = [s \in Scans |-> IF s[1] = p THEN "none" ELSE flight[s]]
    /\ resCh' = [r \in Requests |-> IF r \in on THEN "closed" ELSE resCh[r]]
    /\ ch' = [r \in Requests |-> IF r \in on THEN "closed" ELSE ch[r]]
    /\ UNCHANGED <<kind, answer, cancelled, dbVars, redacted, history>>

Crash(p) ==
    /\ \E r \in Requests : ProcOf[r] = p /\ pc[r] \in {"submit", "wait"}
    /\ Die(p)
    /\ UNCHANGED panicked

(* A goroutine's select picks the send on a channel that was closed after  *)
(* the goroutine looked at the context.                                    *)
Panic(r) ==
    /\ \/ task[r] \in Results /\ resCh[r] = "closed"
       \/ relay[r] \in Results /\ ch[r] = "closed"
    /\ Die(ProcOf[r])
    /\ panicked' = TRUE

Step(r) ==
    \/ PoolAccepts(r)
    \/ HandlerReceives(r) \/ HandlerTimesOut(r) \/ Deadline(r) \/ ContextEnds(r)
    \/ WorkerStarts(r)
    \/ NotifySends(r) \/ NotifyGivesUp(r)
    \/ RelayTakes(r) \/ RelayCancelled(r) \/ RelaySends(r) \/ RelayGivesUp(r)
    \/ Panic(r)

ScanStep(s) == Lookup(s) \/ Scan(s) \/ Store(s)

Environment(r) ==
    AnswerUnscanned(r) \/ AnswerFromStore(r) \/ RunFilters(r)
    \/ PoolRefuses(r) \/ Disconnect(r)

Next ==
    \/ \E r \in Requests : Step(r) \/ Environment(r)
    \/ \E s \in Scans : ScanStep(s)
    \/ \E e \in Events : Replicate(e)
    \/ \E p \in Procs : Crash(p)

Spec == Init /\ [][Next]_vars

(* Goroutines that can run do run, the scan has a one minute timeout and a *)
(* transaction's PDU a two minute one, and net/http cancels the context of *)
(* a finished request.  Arrivals, disconnections, crashes and replication  *)
(* are not forced.                                                         *)
Fairness ==
    /\ \A r \in Requests : WF_vars(Step(r))
    /\ \A s \in Scans : WF_vars(ScanStep(s))

FairSpec == Spec /\ Fairness

(***************************************************************************)
(* Properties                                                              *)
(***************************************************************************)

(* Types of all variables of the checking path.                            *)
TypeOK ==
    /\ kind \in [Requests -> AllKinds \cup {"none"}]
    /\ pc \in [Requests -> {"idle", "submit", "wait", "done", "lost"}]
    /\ answer \in [Requests -> {"none", "unscanned", "ok", "spam", "signed",
                                "refused", "failed", "timeout"}]
    /\ cancelled \in [Requests -> BOOLEAN]
    /\ task \in [Requests -> {"none", "ready", "flight", "gone"} \cup Results]
    /\ relay \in [Requests -> {"none", "wait", "gone"} \cup Results]
    /\ resCh \in [Requests -> {"empty", "closed"} \cup Results]
    /\ ch \in [Requests -> {"empty", "closed"} \cup Results]
    /\ flight \in [Scans -> {"none", "lookup", "scan"} \cup Classes]
    /\ row \in [Events -> [stored : BOOLEAN, keys : SUBSET (Harms \cup {"Allowed"})]]
    /\ replica \in [Events -> [stored : BOOLEAN, keys : SUBSET (Harms \cup {"Allowed"})]]
    /\ redacted \in SUBSET Events
    /\ panicked \in BOOLEAN
    /\ judged \in [Events -> SUBSET Classes]
    /\ persisted \in [Scans -> Nat]
    /\ late \in SUBSET Requests

(* The server acts on an event only on the strength of a verdict that      *)
(* CheckEvent reached for that very event and that was persisted first: it *)
(* signs it, or reports it as fine, only when it was once cleared, and it  *)
(* reports it as spam, or has it redacted on another endpoint than /sign,  *)
(* only when it was once judged.  No mix-up between requests, no nil or    *)
(* early result and no closed channel turns into an answer (pool.go,       *)
(* run_filters.go and the handlers).                                       *)
ActsOnPersistedVerdict ==
    /\ \A r \in Requests :
        /\ answer[r] \in {"signed", "ok"} => judged[EventOf[r]] \cap Cleared # {}
        /\ answer[r] = "spam" => judged[EventOf[r]] # {}
    /\ "sign" \notin Kinds => \A e \in redacted : judged[e] # {}

(* Without a lagging replica no process persists two verdicts for one      *)
(* event, whatever requests, errors and restarts come: doFilter looks the  *)
(* event up first and singleflight keeps a second scan from starting.      *)
PersistedOncePerProcess ==
    ~ReadReplica => \A s \in Scans : persisted[s] <= 1

(* On one process without a replica a refusal is final: a request received *)
(* after a verdict that reads as Prohibited was recorded is never signed   *)
(* or reported as fine.                                                    *)
RefusalIsFinal ==
    (~ReadReplica /\ Cardinality(Procs) = 1) =>
        \A r \in late : answer[r] \notin {"signed", "ok"}

(* Every request that reached RunFilters is answered unless its process    *)
(* dies: neither the pool, the singleflight nor a channel can hold it.     *)
EveryRequestEnds ==
    \A r \in Requests : pc[r] = "submit" ~> pc[r] \in {"done", "lost"}

(* No goroutine outlives its request for ever: both senders and the relay  *)
(* also wait for the context ("we don't want to read the result            *)
(* indefinitely", api_msc4284_check.go:68).                                *)
GoroutinesEnd ==
    \A r \in Requests :
        pc[r] = "done" ~> (task[r] \in {"none", "gone"} /\ relay[r] \in {"none", "gone"})

(* run_filters.go:39 and pool.go:93 check the context so that nothing is   *)
(* sent on a channel that "is likely going to be closed already".          *)
NoSendOnClosedChannel == ~panicked

(* psql.go:292-293: "Neutral is never encoded, and prohibited is implied   *)
(* by the presence of harms": what is read back for an event is a verdict  *)
(* that was persisted for it.                                              *)
VerdictIsRemembered ==
    \A e \in Events : row[e].stored => Decode(row[e]) \in judged[e]
=============================================================================
