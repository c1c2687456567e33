-------------------------------- MODULE Counter --------------------------------
(***************************************************************************)
(* The listeners that the filter sets of one process make and close        *)
(* (filter/set.go, filter/filter_hellban.go), the counters among them      *)
(* (frequency/counter.go), and the checks of the two filters that count    *)
(* (filter/filter_frequency.go, filter/filter_mentions_frequency.go).      *)
(*                                                                         *)
(* A set may have a listener for timeouts and a counter.  Each counter has *)
(* a topic of its own, named with a new identifier, so that no other       *)
(* process or set shares it.  Senders are counted one by one: there is one *)
(* sender.  Time is counted in ticks, of which the window has Window.      *)
(***************************************************************************)
EXTENDS Pubsub, FiniteSets

CONSTANTS
    Sets,        \* filter sets, of those that listen
    Hellban,     \* [Sets -> listener], for timeouts, None for none
    Count,       \* [Sets -> listener], of the set's counter, None for none
    Manager,     \* the listener of the community manager, which closes sets
    Checks,      \* calls of CheckEvent of the two filters
    Mentions,    \* those of the mentions frequency filter, with one mention
    Window,
    MaxTime,     \* bound: ticks
    MaxWork      \* bound: sets made and checks begun, all together

Own(s) == {Hellban[s], Count[s]} \ {None}
Counters == {Count[s] : s \in Sets} \ {None}

ASSUME CounterAssumption ==
    /\ Hellban \in [Sets -> Listeners \cup {None}]
    /\ Count \in [Sets -> Listeners \cup {None}]
    /\ Manager \in Permanent
    /\ \A s \in Sets : Own(s) \cap Permanent = {} /\ None \notin Sets
    /\ \A s, t \in Sets : s # t => Own(s) \cap Own(t) = {}
    /\ \A s \in Sets : Hellban[s] # Count[s]
    /\ \A l \in Counters, k \in Listeners : TopicOf[k] = TopicOf[l] => k = l
    /\ Mentions \subseteq Checks
    /\ Window \in Nat \ {0} /\ MaxTime \in Nat /\ MaxWork \in Nat

VARIABLES
    phase,   \* of each set: none, making, failed, open, closing, closed
    todo,    \* its listeners that are yet to be subscribed or unsubscribed
    values,  \* the notifications each counter has kept
    now,
    sent,    \* the topic of each notification and the time in it
    step,    \* of each check: idle, increment, get, done
    in,      \* the set of the check
    tally,   \* the count that it compares with the limit, 0 for none
    due,     \* history: what the count should be
    late,    \* history: echoes that would count are on their way, or lost
    hasty    \* history: counters closed before their goroutine began

filterSets == <<phase, todo, hasty>>
counts == <<values, now, sent>>
checks == <<step, in, tally, due, late>>
vars == <<pubsub, filterSets, counts, checks>>

Init ==
    /\ PubsubInit
    /\ phase = [s \in Sets |-> "none"]
    /\ todo = [s \in Sets |-> <<>>]
    /\ values = [l \in Counters |-> <<>>]
    /\ now = 0
    /\ sent = [n \in 1 .. MaxMessages |-> [topic |-> None, time |-> 0]]
    /\ step = [k \in Checks |-> "idle"]
    /\ in = [k \in Checks |-> None]
    /\ tally = [k \in Checks |-> 0]
    /\ due = [k \in Checks |-> 0]
    /\ late = [k \in Checks |-> FALSE]
    /\ hasty = {}

(***************************************************************************)
(* Filter sets                                                             *)
(***************************************************************************)

(* The groups are in order, the hellban prefilter's before the filters'.   *)
InOrder(s) ==
    (IF Hellban[s] = None THEN <<>> ELSE <<Hellban[s]>>)
        \o (IF Count[s] = None THEN <<>> ELSE <<Count[s]>>)

MoreWork ==
    Cardinality({s \in Sets : phase[s] # "none"})
        + Cardinality({k \in Checks : step[k] # "idle"}) < MaxWork

NewSet(s) ==
    /\ phase[s] = "none" /\ MoreWork
    /\ phase' = [phase EXCEPT ![s] = "making"]
    /\ todo' = [todo EXCEPT ![s] = InOrder(s)]
    /\ UNCHANGED <<pubsub, counts, checks, hasty>>

(* The next of the set's listeners is done, the last one ends it all.      *)
Advance(s, last) ==
    /\ todo' = [todo EXCEPT ![s] = Tail(@)]
    /\ phase' = IF Len(todo[s]) = 1 THEN [phase EXCEPT ![s] = last] ELSE phase

(* MakeFor of the filters that listen.                                     *)
MakeFilter(s) ==
    /\ phase[s] = "making"
    /\ \/ Subscribe(Head(todo[s])) /\ Advance(s, "open")
       \/ TakeWhileWritten /\ UNCHANGED <<phase, todo>>
    /\ UNCHANGED <<counts, checks, hasty>>

(* LISTEN, or MakeFor of another filter, fails: what was subscribed before *)
(* stays so.                                                               *)
MakeFails(s) ==
    /\ phase[s] = "making"
    /\ \/ SubscribeFails(Head(todo[s]))
       \/ UNCHANGED pubsub
    /\ phase' = [phase EXCEPT ![s] = "failed"]
    /\ todo' = [todo EXCEPT ![s] = <<>>]
    /\ UNCHANGED <<counts, checks, hasty>>

(* The manager, told that the configuration has changed, closes the set.   *)
CloseSet(s) ==
    /\ reader[Manager] = "busy"
    /\ phase[s] = "open"
    /\ phase' = [phase EXCEPT ![s] = "closing"]
    /\ todo' = [todo EXCEPT ![s] = InOrder(s)]
    /\ UNCHANGED <<pubsub, counts, checks, hasty>>

(* Mutant: sets have nothing to close but their first filter.              *)
CloseFirstFilter(s) ==
    /\ phase[s] = "closing"
    /\ Unsubscribe(Head(todo[s]))
    /\ todo' = [todo EXCEPT ![s] = <<>>]
    /\ phase' = [phase EXCEPT ![s] = "closed"]
    /\ UNCHANGED <<counts, checks, hasty>>

(* Close of the filters that listen.  A counter has nothing to stop until  *)
(* its goroutine has begun and set pubsubStop.                             *)
CloseFilter(s) ==
    LET l == Head(todo[s])
        begun == l \in Counters => reader[l] # "new"
    IN
    /\ phase[s] = "closing"
    /\ \/ begun /\ Unsubscribe(l) /\ Advance(s, "closed") /\ UNCHANGED hasty
       \/ begun /\ TakeWhileWritten /\ UNCHANGED <<phase, todo, hasty>>
       \/ /\ ~begun
          /\ hasty' = hasty \cup {l}
          /\ Advance(s, "closed")
          /\ UNCHANGED pubsub
    /\ UNCHANGED <<counts, checks>>

(***************************************************************************)
(* Counters                                                                *)
(***************************************************************************)

Recent(n) == now - sent[n].time < Window

(* What the goroutine of a listener does with a notification: a counter    *)
(* keeps it, the manager closes the set.                                   *)
Receive(l) ==
    /\ Handle(l)
    /\ l = Manager => \A s \in Sets : phase[s] # "closing"
    /\ values' = IF l \in Counters
                 THEN [values EXCEPT ![l] = Append(@, holds[l])] ELSE values
    /\ UNCHANGED <<filterSets, now, sent, checks>>

(* The cleanup's loop over what was kept.                                  *)
Unexpired(q) ==
    LET kept[i \in 0 .. Len(q)] ==
            IF i = 0 THEN <<>>
            ELSE IF Recent(q[i]) THEN Append(kept[i - 1], q[i]) ELSE kept[i - 1]
    IN  kept[Len(q)]

(* The ticker, unless the counter was closed.                              *)
CleanUp(s) ==
    LET l == Count[s] IN
    /\ l # None
    /\ phase[s] \in {"making", "open", "failed"}
    /\ \E i \in DOMAIN values[l] : ~Recent(values[l][i])
    /\ values' = [values EXCEPT ![l] = Unexpired(@)]
    /\ UNCHANGED <<pubsub, filterSets, now, sent, checks>>

(* Time matters once a counter's notification was published.               *)
Tick ==
    /\ now < MaxTime
    /\ \E n \in 1 .. messages : \E l \in Counters : sent[n].topic = TopicOf[l]
    /\ now' = now + 1
    /\ UNCHANGED <<pubsub, filterSets, values, sent, checks>>

(* Mutant: what has expired counts until the ticker cleans up.             *)
GetAll(l) == Len(values[l])

(* Get: the ticker need not have come.                                     *)
Get(l) == Cardinality({i \in DOMAIN values[l] : Recent(values[l][i])})

Notify(t) ==
    /\ Publish(t)
    /\ sent' = [sent EXCEPT ![messages + 1] = [topic |-> t, time |-> now]]

(***************************************************************************)
(* Checks                                                                  *)
(***************************************************************************)

Goto(k, s) == step' = [step EXCEPT ![k] = s]
Counted(k) == Count[in[k]]

Begin(k, s) ==
    /\ step[k] = "idle" /\ MoreWork
    /\ Count[s] # None
    /\ phase[s] \in {"open", "closing", "closed"}
    /\ in' = [in EXCEPT ![k] = s]
    /\ Goto(k, IF k \in Mentions THEN "get" ELSE "increment")
    /\ UNCHANGED <<pubsub, filterSets, counts, tally, due, late>>

(* Increment: the counter is told by the echo of its own notification.     *)
Increment(k) ==
    /\ step[k] = "increment"
    /\ \/ /\ Notify(TopicOf[Counted(k)])
          /\ Goto(k, IF k \in Mentions THEN "done" ELSE "get")
          /\ UNCHANGED tally
       \/ /\ Goto(k, "done")                   \* NOTIFY fails: an error
          /\ tally' = [tally EXCEPT ![k] = 0]
          /\ UNCHANGED <<pubsub, sent>>
    /\ UNCHANGED <<filterSets, values, now, in, due, late>>

Published(l) == {n \in 1 .. messages : sent[n].topic = TopicOf[l] /\ Recent(n)}
UnderWay(l, n) ==
    n = dispatch.id \/ n = holds[l] \/ \E i \in DOMAIN inbox : inbox[i].id = n

(* The frequency filter has published the event and adds it once more, the *)
(* mentions frequency filter adds the mention it is about to publish.      *)
Compare(k, count) ==
    LET l == Counted(k) IN
    /\ step[k] = "get"
    /\ tally' = [tally EXCEPT ![k] = count + 1]
    /\ due' = [due EXCEPT ![k] =
                  Cardinality(Published(l)) + IF k \in Mentions THEN 1 ELSE 0]
    /\ late' = [late EXCEPT ![k] =
                  \/ l \in closers \/ reader[l] = "gone"
                  \/ \E n \in Published(l) : n \in missed \/ UnderWay(l, n)]
    /\ Goto(k, IF k \in Mentions THEN "increment" ELSE "done")
    /\ UNCHANGED <<pubsub, filterSets, counts, in>>

GetCount(k) == Compare(k, Get(Counted(k)))

Check(k) == Increment(k) \/ GetCount(k)

Next ==
    /\ ~crashed
    /\ \/ \E s \in Sets :
             \/ NewSet(s) \/ MakeFilter(s) \/ MakeFails(s)
             \/ CloseSet(s) \/ CloseFilter(s) \/ CleanUp(s)
       \/ \E l \in Listeners : Receive(l)
       \/ \E l \in Listeners :
             /\ StartReading(l) \/ SendClosing(l) \/ CloseChannel(l)
             /\ UNCHANGED <<filterSets, counts, checks>>
       \/ Dispatcher /\ UNCHANGED <<filterSets, counts, checks>>
       \/ \E t \in {TopicOf[l] : l \in Listeners \ Counters} :
             array[t] # <<>> /\ Notify(t) /\ UNCHANGED <<filterSets, values, now, checks>>
       \/ \E k \in Checks, s \in Sets : Begin(k, s)
       \/ \E k \in Checks : Check(k)
       \/ Tick

Spec == Init /\ [][Next]_vars

(* Goroutines that can go on do: the dispatcher, the listeners, those that *)
(* close channels, and whoever makes or closes a set.                      *)
Fairness ==
    /\ WF_vars(~crashed /\ Dispatcher /\ UNCHANGED <<filterSets, counts, checks>>)
    /\ \A l \in Listeners :
          /\ WF_vars(~crashed /\ Receive(l))
          /\ WF_vars(/\ ~crashed
                     /\ StartReading(l) \/ SendClosing(l) \/ CloseChannel(l)
                     /\ UNCHANGED <<filterSets, counts, checks>>)
    /\ \A s \in Sets :
          WF_vars(~crashed /\ (MakeFilter(s) \/ CloseFilter(s)))
FairSpec == Spec /\ Fairness

(***************************************************************************)
(* Properties                                                              *)
(***************************************************************************)

Slots == Listeners \cup {None}

(* The type invariant.                                                     *)
TypeOK ==
    /\ array \in [Topics -> Seq(Slots)]
    /\ \A t \in Topics : length[t] \in 0 .. Len(array[t])
    /\ inbox \in Seq([topic : Topics, id : 1 .. MaxMessages])
    /\ messages \in 0 .. MaxMessages
    /\ dispatch \in [topic : Topics \cup {None}, id : 0 .. MaxMessages, n : Nat,
                     i : Nat, own : Seq(Slots), to : Slots]
    /\ reader \in [Listeners -> {"off", "new", "ready", "busy", "gone"}]
    /\ holds \in [Listeners -> 0 .. MaxMessages]
    /\ channel \in [Listeners -> {"none", "open", "closed"}]
    /\ closers \subseteq Listeners
    /\ crashed \in BOOLEAN
    /\ owed \subseteq Listeners \X (1 .. MaxMessages)
    /\ missed \cup repeated \cup disturbed \subseteq 1 .. MaxMessages
    /\ phase \in [Sets -> {"none", "making", "failed", "open", "closing", "closed"}]
    /\ todo \in [Sets -> Seq(Listeners)]
    /\ hasty \subseteq Counters
    /\ values \in [Counters -> Seq(1 .. MaxMessages)]
    /\ now \in 0 .. MaxTime
    /\ sent \in [1 .. MaxMessages -> [topic : Topics \cup {None}, time : 0 .. MaxTime]]
    /\ step \in [Checks -> {"idle", "increment", "get", "done"}]
    /\ in \in [Checks -> Sets \cup {None}]
    /\ tally \in [Checks -> Nat] /\ due \in [Checks -> Nat]
    /\ late \in [Checks -> BOOLEAN]

(* Whoever is on the list when a notification is taken gets it, once, and  *)
(* the process survives, unless a listener of the topic is unsubscribed    *)
(* while it is handed out, or the list is being written while it is looked *)
(* up.  psql.go:46-52, psql.go:97-112                                      *)
OnceEach ==
    /\ \A o \in owed : o[2] \in disturbed \cup {dispatch.id}
    /\ repeated \subseteq disturbed
    /\ crashed => dispatch = Idle \/ dispatch.id \in disturbed

(* A rate limit is applied to the number of events, or mentions, there     *)
(* were in the window: never to more, except that the frequency filter may *)
(* count the very event twice, and to less only while echoes are on their  *)
(* way, or were lost, or the set is closed.                                *)
(* filter_frequency.go:65-76, filter_mentions_frequency.go:60-61           *)
TallyIsTrue ==
    \A k \in Checks : tally[k] # 0 =>
        /\ tally[k] <= due[k] + IF k \in Mentions THEN 0 ELSE 1
        /\ tally[k] >= due[k] \/ late[k]

(* Nobody reads for a filter set that is closed, or was never finished,    *)
(* unless its construction failed or it was closed before its counter's    *)
(* goroutine had begun.  set.go:64, counter.go:126-131                     *)
LeaksAreKnown ==
    \A s \in Sets : \A l \in Own(s) :
        channel[l] = "open" /\ l \notin closers =>
            \/ phase[s] \in {"making", "failed", "open", "closing"}
            \/ l \in hasty

(* However long the listeners take, and whoever comes and goes, what the   *)
(* database sends is handed out in the end, or the process has ended.      *)
Drains == <>[](crashed \/ (inbox = <<>> /\ dispatch = Idle))
=============================================================================
