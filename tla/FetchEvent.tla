------------------------------ MODULE FetchEvent ------------------------------
(***************************************************************************)
(* Homeserver.GetEvent (homeserver/outbound_events.go): an event is asked  *)
(* for at several servers at once, one goroutine each; the first that has  *)
(* it wins.  A goroutine sends an event it got to pduCh, which holds one,  *)
(* then an error or nil to errCh, which holds one for each goroutine, and  *)
(* ends.  A deferred function waits up to 30 seconds for all of them and   *)
(* closes both channels.                                                   *)
(***************************************************************************)
EXTENDS Naturals, FiniteSets

CONSTANT Servers     \* eventFetchServers

VARIABLES
    worker,      \* [Servers -> idle, asking, found, finishing, ended]
    pdus,        \* events in pduCh
    sent,        \* history: servers whose event went into pduCh
    fetch,       \* GetEvent: idle, waiting, closing, closed
    got,         \* what it returns: nothing yet, an event, an error
    late,        \* history: goroutines that were still at work when it closed
    broken       \* a goroutine panicked: the process is gone

fetchVars == <<worker, pdus, sent, fetch, got, late, broken>>

PduRoom == 1

FetchInit ==
    /\ worker = [s \in Servers |-> "idle"]
    /\ pdus = 0
    /\ sent = {}
    /\ fetch = "idle"
    /\ got = "nothing"
    /\ late = {}
    /\ broken = FALSE

StartFetch ==
    /\ fetch = "idle"
    /\ fetch' = "waiting"
    /\ worker' = [s \in Servers |-> "asking"]
    /\ UNCHANGED <<pdus, sent, got, late, broken>>

(* The request succeeds, with an event that parses, of a room that is      *)
(* known, with signatures that hold; or something of this fails.           *)
ServerAnswers(s) ==
    /\ worker[s] = "asking"
    /\ \E next \in {"found", "finishing"} : worker' = [worker EXCEPT ![s] = next]
    /\ UNCHANGED <<pdus, sent, fetch, got, late, broken>>

(* The channel has room; a goroutine that finds none waits.                *)
SendEvent(s) ==
    /\ worker[s] = "found"
    /\ fetch # "closed" /\ pdus < PduRoom
    /\ pdus' = pdus + 1
    /\ sent' = sent \cup {s}
    /\ worker' = [worker EXCEPT ![s] = "finishing"]
    /\ UNCHANGED <<fetch, got, late, broken>>

(* The error, or nil, and the wait group.                                  *)
EndWorker(s) ==
    /\ worker[s] = "finishing"
    /\ fetch # "closed"
    /\ worker' = [worker EXCEPT ![s] = "ended"]
    /\ UNCHANGED <<pdus, sent, fetch, got, late, broken>>

(* Whoever sends to a closed channel panics, also one that was waiting.    *)
SendOnClosed(s) ==
    /\ worker[s] \in {"found", "finishing"}
    /\ fetch = "closed"
    /\ broken' = TRUE
    /\ UNCHANGED <<worker, pdus, sent, fetch, got, late>>

TakeEvent ==
    /\ fetch = "waiting"
    /\ pdus > 0
    /\ pdus' = pdus - 1
    /\ got' = "event"
    /\ fetch' = "closing"
    /\ UNCHANGED <<worker, sent, late, broken>>

(* Mutant: the first error ends the wait.                                  *)
GiveUpAtFirstError ==
    /\ fetch = "waiting"
    /\ \E s \in Servers : worker[s] = "ended"
    /\ got' = "error"
    /\ fetch' = "closing"
    /\ UNCHANGED <<worker, pdus, sent, late, broken>>

(* The wait group is done: the select may find that before it looks at the *)
(* event that is in the channel.                                           *)
GiveUp ==
    /\ fetch = "waiting"
    /\ \A s \in Servers : worker[s] = "ended"
    /\ got' = "error"
    /\ fetch' = "closing"
    /\ UNCHANGED <<worker, pdus, sent, late, broken>>

(* All goroutines have ended, or 30 seconds have passed, or the request's  *)
(* context has ended.                                                      *)
CloseChannels ==
    /\ fetch = "closing"
    /\ fetch' = "closed"
    /\ late' = {s \in Servers : \/ worker[s] \in {"asking", "finishing"}
                                \/ worker[s] = "found" /\ pdus < PduRoom}
    /\ UNCHANGED <<worker, pdus, sent, got, broken>>

FetchNext ==
    /\ ~broken
    /\ \/ TakeEvent \/ GiveUp \/ CloseChannels
       \/ \E s \in Servers :
             ServerAnswers(s) \/ SendEvent(s) \/ EndWorker(s) \/ SendOnClosed(s)

(* The first success is used, and errors are discarded if there is one     *)
(* (outbound_events.go:16-18), but for at most one event that is in the    *)
(* channel when the select looks at the wait group.  A fetch that fails    *)
(* never takes the process down; one that succeeds does only if a server   *)
(* was still at it when the channels were closed, or if a third server had *)
(* the event, which found the channel full.                                *)
FetchIsHonest ==
    /\ got = "error" => Cardinality(sent) <= PduRoom
    /\ broken => got = "event" /\ (late # {} \/ Cardinality(sent) > PduRoom)
=============================================================================
