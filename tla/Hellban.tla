-------------------------------- MODULE Hellban --------------------------------
(***************************************************************************)
(* The hellban (timeout) of a community: the prefilter that silences a     *)
(* user in a timeout, the postfilter that tells every process of a spammy  *)
(* event, and the listener each filter set runs to start timeouts          *)
(* (filter/filter_hellban.go).  Notifications reach the sets of a process  *)
(* one after the other through the dispatcher of pubsub/psql.go; the       *)
(* community manager drops the set, and with it the timeouts, when the     *)
(* community's configuration changes (community/manager.go).               *)
(*                                                                         *)
(* Time is counted in ticks: a cache entry holds the ticks that are left   *)
(* until it expires, and 0 stands for no entry.  A timeout of zero or less *)
(* disables both filters, so it is not a case here.  A check that still    *)
(* uses a set which has been closed reads what that set held, as it could  *)
(* have done a moment earlier, and counts as one that began then.  A       *)
(* second set that two concurrent builds make (CommunityCache) is not      *)
(* counted, nor is a notification that the dispatcher skips or repeats     *)
(* because a listener unsubscribes while it iterates.                      *)
(***************************************************************************)
EXTENDS Naturals, Sequences, FiniteSets

CONSTANTS
    Procs,        \* policyserv processes
    Communities,
    Users,
    Checks,       \* events that are checked
    Minutes,      \* HellbanPostfilterMinutes, in ticks
    None

ASSUME HellbanAssumption ==
    /\ Minutes \in Nat \ {0}
    /\ IsFiniteSet(Checks)
    /\ None \notin Users

VARIABLES
    listening,  \* processes that listen to the topic
    loaded,     \* live filter sets, a process and a community each
    left,       \* userIdsCache of each set
    inbox,      \* notifications a process has yet to dispatch
    stage,      \* of each check: idle, publish (prohibited), published, done
    set,        \* the filter set it uses
    sender,     \* the user who sent the event
    spam,       \* history: checks in which another filter found spam
    started,    \* history: timeouts each set has started for each user
    owed        \* history: set and user, told of while the set was live

vars == <<listening, loaded, left, inbox, stage, set, sender, spam, started, owed>>
checks == <<stage, set, sender>>

Sets == Procs \X Communities
Nobody == [u \in Users |-> 0]

Init ==
    /\ listening = {}
    /\ loaded = {}
    /\ left = [s \in Sets |-> Nobody]
    /\ inbox = [p \in Procs |-> <<>>]
    /\ stage = [e \in Checks |-> "idle"]
    /\ set = [e \in Checks |-> None]
    /\ sender = [e \in Checks |-> None]
    /\ spam = {}
    /\ started = [s \in Sets |-> Nobody]
    /\ owed = {}

(* The check finds the community's filter set, or has it made: an empty    *)
(* cache and a subscription to the topic.                                  *)
UseSet(e, s, u, outcome) ==
    /\ stage[e] = "idle"
    /\ stage' = [stage EXCEPT ![e] = outcome]
    /\ set' = [set EXCEPT ![e] = s]
    /\ sender' = [sender EXCEPT ![e] = u]
    /\ loaded' = loaded \cup {s}
    /\ listening' = listening \cup {s[1]}
    /\ UNCHANGED <<left, inbox, started, owed>>

(* The prefilter finds the sender in the cache; the event is prohibited    *)
(* and so comes to the postfilter as well.                                 *)
Silence(e, s, u) ==
    /\ left[s][u] > 0
    /\ UseSet(e, s, u, "publish")
    /\ UNCHANGED spam

(* Some other filter prohibits the event: an earlier prefilter, whatever   *)
(* the cache holds, or a later filter when the sender is not in it.        *)
FindSpam(e, s, u) ==
    /\ UseSet(e, s, u, "publish")
    /\ spam' = spam \cup {e}

(* A prefilter allows the event, a filter fails, or nothing is wrong.      *)
PassOrFail(e, s, u) ==
    /\ UseSet(e, s, u, "done")
    /\ UNCHANGED spam

(* The postfilter publishes; a process that is reconnecting to the         *)
(* database misses the notification.                                       *)
Publish(e) ==
    LET c == set[e][2]
        u == sender[e]
    IN
    /\ stage[e] = "publish"
    /\ stage' = [stage EXCEPT ![e] = "published"]
    /\ \E reached \in SUBSET listening :
        /\ inbox' = [p \in Procs |-> IF p \in reached THEN Append(inbox[p], <<c, u>>)
                                     ELSE inbox[p]]
        /\ owed' = owed \cup {<<s, u>> : s \in {t \in loaded : t[1] \in reached /\ t[2] = c}}
    /\ UNCHANGED <<listening, loaded, left, set, sender, spam, started>>

PublishFails(e) ==
    /\ stage[e] = "publish"
    /\ stage' = [stage EXCEPT ![e] = "done"]
    /\ UNCHANGED <<listening, loaded, left, inbox, set, sender, spam, started, owed>>

(* Mutant: a listener that does not look at the cache first.               *)
StartTimeoutUnchecked(s, u) ==
    IF s \in loaded
    THEN /\ left' = [left EXCEPT ![s][u] = Minutes]
         /\ started' = [started EXCEPT ![s][u] = @ + 1]
    ELSE UNCHANGED <<left, started>>

(* Mutant: the listener's look at the cache is the wrong way round.       *)
StartTimeoutInverted(s, u) ==
    IF s \in loaded /\ left[s][u] > 0
    THEN /\ left' = [left EXCEPT ![s][u] = Minutes]
         /\ started' = [started EXCEPT ![s][u] = @ + 1]
    ELSE UNCHANGED <<left, started>>

(* The listener of s: "double check that the user isn't already            *)
(* hellbanned", then cache the user.                                       *)
StartTimeout(s, u) ==
    IF s \in loaded /\ left[s][u] = 0
    THEN /\ left' = [left EXCEPT ![s][u] = Minutes]
         /\ started' = [started EXCEPT ![s][u] = @ + 1]
    ELSE UNCHANGED <<left, started>>

(* Mutants: listeners that do not compare the community; a dispatcher that *)
(* hands a notification out twice.                                         *)
DispatchAnyCommunity(p) ==
    /\ inbox[p] # <<>>
    /\ inbox' = [inbox EXCEPT ![p] = Tail(@)]
    /\ \E c \in Communities : StartTimeout(<<p, c>>, Head(inbox[p])[2])
    /\ UNCHANGED <<listening, loaded, checks, spam, owed>>

DispatchAgain(p) ==
    /\ inbox[p] # <<>>
    /\ \E rest \in {inbox[p], Tail(inbox[p])} : inbox' = [inbox EXCEPT ![p] = rest]
    /\ StartTimeout(<<p, Head(inbox[p])[1]>>, Head(inbox[p])[2])
    /\ UNCHANGED <<listening, loaded, checks, spam, owed>>

(* The dispatcher hands the next notification to every listener of the     *)
(* process; those of other communities ignore it.                          *)
Dispatch(p) ==
    /\ inbox[p] # <<>>
    /\ inbox' = [inbox EXCEPT ![p] = Tail(@)]
    /\ StartTimeout(<<p, Head(inbox[p])[1]>>, Head(inbox[p])[2])
    /\ UNCHANGED <<listening, loaded, checks, spam, owed>>

(* Mutant: a clock that does not stop at the expiry.                       *)
TickPastExpiry ==
    /\ \E s \in Sets, u \in Users : left[s][u] > 0
    /\ left' = [s \in Sets |-> [u \in Users |-> left[s][u] - 1]]
    /\ UNCHANGED <<listening, loaded, inbox, checks, spam, started, owed>>

Tick ==
    /\ \E s \in Sets, u \in Users : left[s][u] > 0
    /\ left' = [s \in Sets |-> [u \in Users |->
                    IF left[s][u] > 0 THEN left[s][u] - 1 ELSE 0]]
    /\ UNCHANGED <<listening, loaded, inbox, checks, spam, started, owed>>

Drop(S) ==
    /\ loaded' = loaded \ S
    /\ left' = [s \in Sets |-> IF s \in S THEN Nobody ELSE left[s]]
    /\ owed' = {o \in owed : o[1] \notin S}

(* The configuration of the community changed: the set is closed, which    *)
(* unsubscribes its listener, and leaves the cache.                        *)
Invalidate(s) ==
    /\ s \in loaded
    /\ Drop({s})
    /\ UNCHANGED <<listening, inbox, checks, spam, started>>

Crash(p) ==
    /\ p \in listening
    /\ Drop({s \in Sets : s[1] = p})
    /\ listening' = listening \ {p}
    /\ inbox' = [inbox EXCEPT ![p] = <<>>]
    /\ stage' = [e \in Checks |-> IF stage[e] = "publish" /\ set[e][1] = p
                                  THEN "done" ELSE stage[e]]
    /\ UNCHANGED <<set, sender, spam, started>>

Next ==
    \/ \E e \in Checks, s \in Sets, u \in Users :
          Silence(e, s, u) \/ FindSpam(e, s, u) \/ PassOrFail(e, s, u)
    \/ \E e \in Checks : Publish(e) \/ PublishFails(e)
    \/ \E p \in Procs : Dispatch(p) \/ Crash(p)
    \/ \E s \in Sets : Invalidate(s)
    \/ Tick

Spec == Init /\ [][Next]_vars

(***************************************************************************)
(* Properties                                                              *)
(***************************************************************************)

(* Types of all variables of the hellban.                                  *)
TypeOK ==
    /\ listening \in SUBSET Procs
    /\ loaded \in SUBSET Sets
    /\ left \in [Sets -> [Users -> 0 .. Minutes]]
    /\ inbox \in [Procs -> Seq(Communities \X Users)]
    /\ stage \in [Checks -> {"idle", "publish", "published", "done"}]
    /\ set \in [Checks -> Sets \cup {None}]
    /\ sender \in [Checks -> Users \cup {None}]
    /\ \A e \in Checks : stage[e] # "idle" => set[e] \in Sets /\ sender[e] \in Users
    /\ spam \in SUBSET Checks
    /\ started \in [Sets -> [Users -> Nat]]
    /\ owed \in SUBSET (Sets \X Users)

(* Checks of events the user sent to the community.                        *)
About(c, u) == {e \in Checks : stage[e] # "idle" /\ set[e][2] = c /\ sender[e] = u}
Published(c, u) == {e \in About(c, u) : stage[e] = "published"}
InTransit(p, c, u) == {i \in 1 .. Len(inbox[p]) : inbox[p][i] = <<c, u>>}

(* Nobody is in a timeout who has not sent, to that very community, an     *)
(* event that another filter found to be spam: silenced events and other   *)
(* communities' notifications never start the first one.                   *)
OnlySpammersSilenced ==
    \A s \in Sets, u \in Users : left[s][u] > 0 => spam \cap About(s[2], u) # {}

(* A publication starts at most one timeout on a process, also when the    *)
(* set is replaced, or the process restarted, around it.                   *)
OneTimeoutPerPublication ==
    \A s \in Sets, u \in Users :
        started[s][u] + Cardinality(InTransit(s[1], s[2], u))
            <= Cardinality(Published(s[2], u))

(* "The timeout applies across an entire community" (README.md:150): every *)
(* live set that was told of a spammy sender starts a timeout, once the    *)
(* notification gets through the queue of its process.                     *)
ToldSetsSilence ==
    \A o \in owed : InTransit(o[1][1], o[1][2], o[2]) # {} \/ started[o[1]][o[2]] > 0

(* "Repeated events will not refresh the cache" (README.md:163): a timeout *)
(* under way only runs out, or is dropped with its set.                    *)
TimeoutsOnlyRunOut ==
    [][\A s \in Sets, u \in Users :
          left[s][u] > 0 => left'[s][u] \in {left[s][u], left[s][u] - 1, 0}]_vars

(* README.md:168: "It also doesn't extend infinitely: the first instance   *)
(* of a spammy event will cause the timeout to start, and the timeout will *)
(* end after the prescribed number of minutes": a process starts no more   *)
(* timeouts than there were events that the filters found to be spam; an   *)
(* event that was only silenced does not start another.                    *)
TimeoutsAreEarned ==
    \A s \in Sets, u \in Users :
        started[s][u] <= Cardinality(spam \cap About(s[2], u))
=============================================================================
