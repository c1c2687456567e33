--------------------------------- MODULE Pubsub ---------------------------------
(***************************************************************************)
(* The pubsub client of one process (pubsub/psql.go): the dispatcher hands *)
(* the notifications of all topics to the listeners, one after the other,  *)
(* on channels without a buffer, while Subscribe and Unsubscribe change    *)
(* the lists of listeners under a lock that the dispatcher does not take.  *)
(*                                                                         *)
(* A list is a Go slice: an array with spare capacity and a length.        *)
(* Unsubscribe shifts the array in place, so that a dispatcher that is     *)
(* ranging over it sees the shift; Subscribe fills a spare slot, or moves  *)
(* the list to a larger array and leaves the old one to the dispatcher.    *)
(***************************************************************************)
EXTENDS Naturals, Sequences

CONSTANTS
    Topics,
    Listeners,    \* the channels that are ever made
    TopicOf,      \* [Listeners -> Topics]
    Permanent,    \* those that are subscribed from the start, for good
    None,
    Reconnects,   \* TRUE when the connection to the database may be lost
    MaxMessages   \* bound: notifications

ASSUME PubsubAssumption ==
    /\ TopicOf \in [Listeners -> Topics]
    /\ Permanent \subseteq Listeners
    /\ \A k, l \in Permanent : TopicOf[k] = TopicOf[l] => k = l
    /\ None \notin Listeners \cup Topics
    /\ Reconnects \in BOOLEAN
    /\ MaxMessages \in Nat

VARIABLES
    array,      \* the backing array of each topic's list
    length,     \* the length of the list
    inbox,      \* notifications that were sent and not yet taken
    messages,   \* notifications so far
    dispatch,   \* what the dispatcher hands out
    reader,     \* of each listener's goroutine: off, new, ready, busy, gone
    holds,      \* what a busy one has received
    channel,    \* of each listener: none, open, closed
    closers,    \* listeners with a goroutine that is about to close them
    crashed,    \* the process has panicked
    owed,       \* history: listeners and notifications meant for them
    missed,     \* history: notifications that never arrived
    repeated,   \* history: notifications a listener got twice
    disturbed   \* history: those during which their list was changed

lists == <<array, length>>
bus == <<inbox, messages>>
goroutines == <<reader, holds>>
channels == <<channel, closers>>
history == <<owed, missed, repeated, disturbed>>
pubsub == <<lists, bus, dispatch, goroutines, channels, crashed, history>>

Idle == [topic |-> None, id |-> 0, n |-> 0, i |-> 1, own |-> <<>>, to |-> None]
ListOf(t) ==
    IF \E l \in Permanent : TopicOf[l] = t
    THEN <<CHOOSE l \in Permanent : TopicOf[l] = t>> ELSE <<>>

PubsubInit ==
    /\ array = [t \in Topics |-> ListOf(t)]
    /\ length = [t \in Topics |-> Len(ListOf(t))]
    /\ inbox = <<>>
    /\ messages = 0
    /\ dispatch = Idle
    /\ reader = [l \in Listeners |-> IF l \in Permanent THEN "ready" ELSE "off"]
    /\ holds = [l \in Listeners |-> 0]
    /\ channel = [l \in Listeners |-> IF l \in Permanent THEN "open" ELSE "none"]
    /\ closers = {}
    /\ crashed = FALSE
    /\ owed = {}
    /\ missed = {}
    /\ repeated = {}
    /\ disturbed = {}

Ranging(t) == dispatch.topic = t

(* Publish: NOTIFY.  A topic nobody has subscribed to is not listened to,  *)
(* and without a connection the notification is missed.                    *)
Publish(t) ==
    /\ messages < MaxMessages
    /\ messages' = messages + 1
    /\ \/ /\ array[t] # <<>>
          /\ inbox' = Append(inbox, [topic |-> t, id |-> messages + 1])
          /\ UNCHANGED missed
       \/ /\ array[t] = <<>> \/ Reconnects
          /\ missed' = missed \cup {messages + 1}
          /\ UNCHANGED inbox
    /\ UNCHANGED <<lists, dispatch, goroutines, channels, crashed, owed, repeated, disturbed>>

(***************************************************************************)
(* The lists                                                               *)
(***************************************************************************)

(* Mutant: the listener is put behind the list, room or not.               *)
SubscribeInPlace(l) ==
    LET t == TopicOf[l] IN
    /\ array' = [array EXCEPT ![t] =
                    [i \in DOMAIN @ |-> IF i = length[t] + 1 THEN l ELSE @[i]]]
    /\ length' = [length EXCEPT ![t] = @ + 1]
    /\ channel' = [channel EXCEPT ![l] = "open"]
    /\ reader' = [reader EXCEPT ![l] = "new"]
    /\ UNCHANGED <<bus, dispatch, holds, closers, crashed, history>>

(* Subscribe: append.  The caller starts a goroutine that is to read.      *)
Subscribe(l) ==
    LET t == TopicOf[l]
        n == length[t]
        full == n = Len(array[t])
        grown == IF full THEN array[t] \o [i \in 1 .. (IF n = 0 THEN 1 ELSE n) |-> None]
                 ELSE array[t]
    IN
    /\ array' = [array EXCEPT ![t] = [grown EXCEPT ![n + 1] = l]]
    /\ length' = [length EXCEPT ![t] = n + 1]
    /\ dispatch' = IF full /\ Ranging(t) /\ dispatch.own = <<>>
                   THEN [dispatch EXCEPT !.own = array[t]] ELSE dispatch
    /\ channel' = [channel EXCEPT ![l] = "open"]
    /\ reader' = [reader EXCEPT ![l] = "new"]
    /\ UNCHANGED <<bus, holds, closers, crashed, history>>

(* The goroutine begins.                                                   *)
StartReading(l) ==
    /\ reader[l] = "new"
    /\ reader' = [reader EXCEPT ![l] = "ready"]
    /\ UNCHANGED <<lists, bus, dispatch, holds, channels, crashed, history>>

(* Subscribe when LISTEN fails.                                            *)
SubscribeFails(l) ==
    /\ length[TopicOf[l]] = 0
    /\ UNCHANGED <<lists, bus, dispatch, goroutines, channels, crashed, history>>

(* append(chans[:i], chans[i+1:]...): what is behind l moves up, and the   *)
(* last slot keeps what it had.                                            *)
Shift(a, n, l) ==
    LET i == CHOOSE x \in 1 .. n : a[x] = l
    IN  [x \in DOMAIN a |-> IF x \in i .. n - 1 THEN a[x + 1] ELSE a[x]]

Unsubscribe(l) ==
    LET t == TopicOf[l] IN
    /\ array' = [array EXCEPT ![t] = Shift(@, length[t], l)]
    /\ length' = [length EXCEPT ![t] = @ - 1]
    /\ closers' = closers \cup {l}
    /\ disturbed' = IF Ranging(t) THEN disturbed \cup {dispatch.id} ELSE disturbed
    /\ UNCHANGED <<bus, dispatch, goroutines, channel, crashed, owed, missed, repeated>>

(* The goroutine of Unsubscribe: ClosingValue, which ends the reader ...   *)
SendClosing(l) ==
    /\ l \in closers
    /\ reader[l] = "ready"
    /\ reader' = [reader EXCEPT ![l] = "gone"]
    /\ UNCHANGED <<lists, bus, dispatch, holds, channels, crashed, history>>

(* Mutant: ClosingValue is all there is.                                   *)
CloseChannelNever(l) ==
    /\ l \in closers
    /\ reader[l] = "gone"
    /\ closers' = closers \ {l}
    /\ UNCHANGED <<lists, bus, dispatch, goroutines, channel, crashed, history>>

(* ... and close.                                                          *)
CloseChannel(l) ==
    /\ l \in closers
    /\ reader[l] = "gone"
    /\ closers' = closers \ {l}
    /\ channel' = [channel EXCEPT ![l] = "closed"]
    /\ UNCHANGED <<lists, bus, dispatch, goroutines, crashed, history>>

(***************************************************************************)
(* The dispatcher                                                          *)
(***************************************************************************)

Crash == crashed' = TRUE /\ UNCHANGED <<lists, bus, dispatch, goroutines, channels, history>>

(* A notification: the list is looked up as it is.                         *)
Take ==
    LET m == Head(inbox)
        n == length[m.topic]
    IN
    /\ dispatch = Idle
    /\ inbox # <<>>
    /\ inbox' = Tail(inbox)
    /\ dispatch' = IF n = 0 THEN Idle
                   ELSE [Idle EXCEPT !.topic = m.topic, !.id = m.id, !.n = n]
    /\ owed' = owed \cup {<<array[m.topic][i], m.id>> : i \in 1 .. n}
    /\ UNCHANGED <<lists, messages, goroutines, channels, crashed, missed, repeated, disturbed>>

(* The same while a list is being written, which the runtime may detect:   *)
(* it ends the process.                                                    *)
TakeWhileWritten ==
    /\ dispatch = Idle
    /\ inbox # <<>>
    /\ Crash

(* Mutant: the next listener is only looked at for a moment.               *)
PickAny ==
    LET a == IF dispatch.own = <<>> THEN array[dispatch.topic] ELSE dispatch.own IN
    /\ dispatch # Idle
    /\ dispatch.to = None
    /\ dispatch' = IF dispatch.i > dispatch.n THEN Idle
                   ELSE IF reader[a[dispatch.i]] = "ready"
                        THEN [dispatch EXCEPT !.to = a[dispatch.i], !.i = @ + 1]
                        ELSE [dispatch EXCEPT !.i = @ + 1]
    /\ UNCHANGED <<lists, bus, goroutines, channels, crashed, history>>

(* The next listener of the list, in the array as it is now.               *)
Pick ==
    LET a == IF dispatch.own = <<>> THEN array[dispatch.topic] ELSE dispatch.own IN
    /\ dispatch # Idle
    /\ dispatch.to = None
    /\ dispatch' = IF dispatch.i > dispatch.n THEN Idle
                   ELSE [dispatch EXCEPT !.to = a[dispatch.i], !.i = @ + 1]
    /\ UNCHANGED <<lists, bus, goroutines, channels, crashed, history>>

(* The send, once the listener reads; a closed channel panics.             *)
Send ==
    LET l == dispatch.to IN
    /\ l # None
    /\ \/ /\ channel[l] = "open"
          /\ reader[l] = "ready"
          /\ reader' = [reader EXCEPT ![l] = "busy"]
          /\ holds' = [holds EXCEPT ![l] = dispatch.id]
          /\ dispatch' = [dispatch EXCEPT !.to = None]
          /\ owed' = owed \ {<<l, dispatch.id>>}
          /\ repeated' = IF <<l, dispatch.id>> \in owed
                         THEN repeated ELSE repeated \cup {dispatch.id}
          /\ UNCHANGED <<lists, bus, channels, crashed, missed, disturbed>>
       \/ /\ channel[l] = "closed"
          /\ Crash

(* A listener is done with what it received.                               *)
Handle(l) ==
    /\ reader[l] = "busy"
    /\ reader' = [reader EXCEPT ![l] = "ready"]
    /\ holds' = [holds EXCEPT ![l] = 0]
    /\ UNCHANGED <<lists, bus, dispatch, channels, crashed, history>>

Dispatcher == Take \/ Pick \/ Send
=============================================================================
