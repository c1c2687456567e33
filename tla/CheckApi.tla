------------------------------- MODULE CheckApi -------------------------------
(***************************************************************************)
(* A request to the server-centric API that has a text or an event checked *)
(* (api/http_server_api_check.go): the text goes through the filter set of *)
(* the community that asks; the event is answered from its stored verdict, *)
(* or fetched by GetEvent and then run through the filters.  FilterSet is  *)
(* the check itself, FetchEvent the fetch; goroutines of the fetch may     *)
(* outlive it.                                                             *)
(***************************************************************************)
EXTENDS FilterSet, FetchEvent

VARIABLES
    phase,       \* received, fetching, checking, answered
    stored,      \* the verdict on the event that is stored, or NoVerdict
    answer       \* ok, forbidden, failed, timeout, or nothing yet

apiVars == <<vars, fetchVars, phase, stored, answer>>

ApiInit ==
    /\ Init
    /\ FetchInit
    /\ phase = "received"
    /\ stored \in {NoVerdict} \cup
                  (IF IsText(input) THEN {} ELSE {Neutral, Prohibited({SpamGeneral})})
    /\ answer = "nothing"

Respond(a) ==
    /\ answer' = a
    /\ phase' = "answered"

(* The method or the body is wrong, or the set or the stored verdict       *)
(* cannot be read.                                                         *)
Refuse ==
    /\ phase = "received"
    /\ Respond("failed")
    /\ UNCHANGED <<vars, fetchVars, stored>>

CheckTextOf ==
    /\ phase = "received" /\ IsText(input)
    /\ phase' = "checking"
    /\ UNCHANGED <<vars, fetchVars, stored, answer>>

RenderEventResult(info) ==
    Respond(IF info.class = "Prohibited" THEN "forbidden" ELSE "ok")

AnswerFromStorage ==
    /\ phase = "received" /\ ~IsText(input)
    /\ stored # NoVerdict
    /\ RenderEventResult(stored)
    /\ UNCHANGED <<vars, fetchVars, stored>>

Fetch ==
    /\ phase = "received" /\ ~IsText(input)
    /\ stored = NoVerdict
    /\ StartFetch
    /\ phase' = "fetching"
    /\ UNCHANGED <<vars, stored, answer>>

(* GetEvent has returned: an error is the answer, an event is checked.     *)
CheckFetched ==
    /\ phase = "fetching" /\ fetch = "closed"
    /\ IF got = "event"
       THEN phase' = "checking" /\ UNCHANGED answer
       ELSE Respond("failed")
    /\ UNCHANGED <<vars, fetchVars, stored>>

(* Mutant: the error of the check is not looked at.                        *)
AnswerCheckedBlindly ==
    /\ phase = "checking"
    /\ stage \in {"done", "failed"}
    /\ RenderEventResult(verdict)
    /\ UNCHANGED <<vars, fetchVars, stored>>

AnswerChecked ==
    /\ phase = "checking"
    /\ \/ stage = "done" /\ RenderEventResult(verdict)
       \/ stage = "failed" /\ Respond("failed")
    /\ UNCHANGED <<vars, fetchVars, stored>>

(* The pool is full or cannot say which community the room belongs to, or  *)
(* the request ends before there is a result (module EventCheck).          *)
CheckIsCutShort ==
    /\ phase = "checking" /\ ~IsText(input)
    /\ \E a \in {"failed", "timeout"} : Respond(a)
    /\ UNCHANGED <<vars, fetchVars, stored>>

Filter ==
    /\ phase = "checking"
    /\ Next
    /\ UNCHANGED <<fetchVars, phase, stored, answer>>

Fetching ==
    /\ FetchNext
    /\ UNCHANGED <<vars, phase, stored, answer>>

ApiNext ==
    /\ ~broken /\ stage # "crashed"
    /\ \/ Refuse \/ CheckTextOf \/ AnswerFromStorage \/ Fetch \/ CheckFetched
       \/ Filter \/ AnswerChecked \/ CheckIsCutShort \/ Fetching

ApiSpec == ApiInit /\ [][ApiNext]_apiVars

(* The answer is that of the stored verdict, or of the most severe of all  *)
(* the filters that were asked: nothing is let through unchecked, be the   *)
(* fetch or a filter in error (http_server_api_check.go).                  *)
AnswerIsMostSevere ==
    answer \in {"ok", "forbidden"} =>
        LET classes == IF stored # NoVerdict THEN {stored.class}
                       ELSE {replied[f].class : f \in Ran}
        IN  /\ (answer = "forbidden") <=>
                  ("Prohibited" \in classes \/ (stored = NoVerdict /\ ~UserSender))
            /\ classes \subseteq Classes
            /\ stored # NoVerdict \/ IsText(input) \/ got = "event"
=============================================================================
