----------------------------- MODULE CounterProofs -----------------------------
(***************************************************************************)
(* Proofs about Pubsub and Counter, for any number of topics, listeners,   *)
(* filter sets, notifications and checks.                                  *)
(*                                                                         *)
(* A list has each of its listeners once, none of whose channels is closed *)
(* or about to be (Lists).  As long as nobody is taken off the list that   *)
(* is ranged over, the slots the dispatcher has yet to come to are those   *)
(* it was to come to (Handing), whichever array they are in.  Filter sets  *)
(* subscribe only who is new and unsubscribe only who is there (Owned).    *)
(* A notification is with its counter, or on its way, until it is lost     *)
(* (Counting), so that what is counted is what was published.              *)
(***************************************************************************)
EXTENDS Counter, Induction, SequenceTheorems, TLAPS

ListsTyped ==
    /\ array \in [Topics -> Seq(Slots)]
    /\ length \in [Topics -> Nat]
    /\ \A t \in Topics : length[t] <= Len(array[t])
DispatchTyped ==
    dispatch \in [topic : Topics \cup {None}, id : Nat, n : Nat,
                  i : Nat, own : Seq(Slots), to : Slots]
ChannelsTyped ==
    /\ channel \in [Listeners -> {"none", "open", "closed"}]
    /\ closers \subseteq Listeners
BusTyped ==
    /\ inbox \in Seq([topic : Topics, id : Nat])
    /\ messages \in Nat
    /\ owed \subseteq Listeners \X Nat

Lists ==
    \A t \in Topics :
        /\ \A j \in 1 .. length[t] :
              /\ array[t][j] \in Listeners /\ TopicOf[array[t][j]] = t
              /\ channel[array[t][j]] = "open" /\ array[t][j] \notin closers
        /\ \A i, j \in 1 .. length[t] : array[t][i] = array[t][j] => i = j

View == IF dispatch.own = <<>> THEN array[dispatch.topic] ELSE dispatch.own

(* Where the dispatcher is, and who is still to get what it hands out.     *)
Undisturbed ==
    /\ dispatch.n <= length[dispatch.topic]
    /\ \A j \in 1 .. dispatch.n : View[j] = array[dispatch.topic][j]
    /\ dispatch.to # None => dispatch.i >= 2 /\ dispatch.to = array[dispatch.topic][dispatch.i - 1]
    /\ \A l \in Listeners :
          <<l, dispatch.id>> \in owed <=>
              \/ dispatch.to = l
              \/ \E j \in dispatch.i .. dispatch.n : array[dispatch.topic][j] = l

Handing ==
    dispatch # Idle =>
        /\ dispatch.topic \in Topics
        /\ dispatch.i \in 1 .. dispatch.n + 1
        /\ dispatch.n <= Len(View)
        /\ dispatch.id \notin disturbed => Undisturbed

(* Notification d was taken out of the inbox.                              *)
Past(d) == d \in 1 .. messages /\ \A k \in DOMAIN inbox : d < inbox[k].id

Ids ==
    /\ \A k \in DOMAIN inbox : inbox[k].id \in 1 .. messages
    /\ \A j, k \in DOMAIN inbox : j < k => inbox[j].id < inbox[k].id
    /\ dispatch # Idle => Past(dispatch.id)
    /\ \A o \in owed : Past(o[2])
    /\ \A d \in disturbed : Past(d)

PubsubInv ==
    /\ ListsTyped /\ DispatchTyped /\ ChannelsTyped /\ BusTyped
    /\ Lists /\ Handing /\ Ids /\ OnceEach

(* Filter sets and checks                                                  *)
InList(l) == \E j \in 1 .. length[TopicOf[l]] : array[TopicOf[l]][j] = l
Fresh(l) == channel[l] = "none" /\ l \notin closers
Ended(l) == l \in closers \/ channel[l] = "closed" \/ l \in hasty

Distinct(q) == \A i, j \in DOMAIN q : q[i] = q[j] => i = j
Members(q) == {q[i] : i \in DOMAIN q}

FilterSetsTyped ==
    /\ phase \in [Sets -> {"none", "making", "failed", "open", "closing", "closed"}]
    /\ todo \in [Sets -> Seq(Listeners)]

Owned(s) ==
    /\ phase[s] \in {"making", "closing"} =>
          todo[s] # <<>> /\ Distinct(todo[s]) /\ Members(todo[s]) \subseteq Own(s)
    /\ phase[s] = "none" => \A l \in Own(s) : Fresh(l)
    /\ phase[s] = "making" =>
          \A l \in Own(s) : IF l \in Members(todo[s]) THEN Fresh(l) ELSE InList(l)
    /\ phase[s] = "open" => \A l \in Own(s) : InList(l)
    /\ phase[s] = "closing" =>
          \A l \in Own(s) : IF l \in Members(todo[s]) THEN InList(l) ELSE Ended(l)
    /\ phase[s] = "closed" => \A l \in Own(s) : Ended(l)

FilterSetsInv == FilterSetsTyped /\ \A s \in Sets : Owned(s)

ChecksInv ==
    /\ step \in [Checks -> {"idle", "increment", "get", "done"}]
    /\ in \in [Checks -> Sets \cup {None}]
    /\ \A k \in Checks : step[k] # "idle" => in[k] \in Sets /\ Count[in[k]] # None

Inv == PubsubInv /\ FilterSetsInv /\ ChecksInv

LEMMA Topical ==
    /\ \A l \in Listeners : TopicOf[l] \in Topics
    /\ None \notin Topics /\ None \notin Listeners
  BY PubsubAssumption

(***************************************************************************)
(* Sequences                                                               *)
(***************************************************************************)

LEMMA FunctionSeq ==
    ASSUME NEW S, NEW n \in Nat, NEW f \in [1 .. n -> S]
    PROVE  f \in Seq(S) /\ Len(f) = n
  <1>1. f \in Seq(S)
    OBVIOUS
  <1>2. DOMAIN f = 1 .. n /\ DOMAIN f = 1 .. Len(f) /\ Len(f) \in Nat
    BY <1>1, LenProperties
  <1> QED BY <1>1, <1>2

(***************************************************************************)
(* The lists                                                               *)
(***************************************************************************)

(* The array after an append: the same slots, and l in the next.           *)
NothingElse(t, l) == Members(array'[t]) \subseteq Members(array[t]) \cup {l, None}

LEMMA Appended ==
    ASSUME ListsTyped, NEW l \in Listeners, Subscribe(l), NEW t, t = TopicOf[l], NEW n, n = length[t]
    PROVE  /\ t \in Topics
           /\ array'[t] \in Seq(Slots) /\ n + 1 <= Len(array'[t]) /\ Len(array[t]) <= Len(array'[t])
           /\ array'[t][n + 1] = l
           /\ \A j \in 1 .. Len(array[t]) : j # n + 1 => array'[t][j] = array[t][j]
           /\ \A u \in Topics \ {t} : array'[u] = array[u] /\ length'[u] = length[u]
           /\ length'[t] = n + 1
           /\ NothingElse(t, l)
  <1> DEFINE a == array[t]
             m == IF n = 0 THEN 1 ELSE n
             more == [i \in 1 .. m |-> None]
             grown == IF n = Len(a) THEN a \o more ELSE a
  <1>1. t \in Topics /\ n \in Nat /\ a \in Seq(Slots) /\ n <= Len(a) /\ Len(a) \in Nat
    BY Topical DEF ListsTyped
  <1>2. /\ array' = [array EXCEPT ![t] = [grown EXCEPT ![n + 1] = l]]
        /\ length' = [length EXCEPT ![t] = n + 1]
    BY DEF Subscribe
  <1>3. more \in Seq(Slots) /\ Len(more) = m /\ m \in Nat /\ m >= 1
    <2>1. m \in Nat /\ m >= 1
      BY <1>1
    <2> HIDE DEF m
    <2>2. more \in [1 .. m -> Slots]
      BY DEF Slots
    <2> HIDE DEF more
    <2> QED BY <2>1, <2>2, FunctionSeq
  <1>4. /\ grown \in Seq(Slots) /\ n + 1 <= Len(grown) /\ Len(a) <= Len(grown)
        /\ \A j \in 1 .. Len(a) : grown[j] = a[j]
        /\ \A j \in 1 .. Len(grown) : j \in 1 .. Len(a) \/ grown[j] = None
    <2>0. \A j \in 1 .. m : more[j] = None
      OBVIOUS
    <2> HIDE DEF a, more, m
    <2>1. CASE n = Len(a)
      <3>1. /\ a \o more \in Seq(Slots) /\ Len(a \o more) = Len(a) + Len(more)
            /\ \A j \in 1 .. Len(a) + Len(more) :
                  (a \o more)[j] = IF j <= Len(a) THEN a[j] ELSE more[j - Len(a)]
        BY <1>1, <1>3, ConcatProperties
      <3>2. Len(more) >= 1 /\ Len(more) \in Nat /\ Len(more) = m
        BY <1>3
      <3>3. \A j \in 1 .. Len(a) + Len(more) : j \in 1 .. Len(a) \/ j - Len(a) \in 1 .. m
        BY <1>1, <3>2
      <3> QED BY <1>1, <2>0, <2>1, <3>1, <3>2, <3>3
    <2>2. CASE n # Len(a)
      BY <1>1, <2>2
    <2> QED BY <2>1, <2>2
  <1> HIDE DEF grown
  <1>5. n + 1 \in 1 .. Len(grown) /\ l \in Slots
    BY <1>1, <1>4 DEF Slots
  <1>6. /\ [grown EXCEPT ![n + 1] = l] \in Seq(Slots)
        /\ Len([grown EXCEPT ![n + 1] = l]) = Len(grown)
        /\ \A j \in 1 .. Len(grown) : [grown EXCEPT ![n + 1] = l][j] = IF j = n + 1 THEN l ELSE grown[j]
    BY <1>4, <1>5, ExceptSeq
  <1> DEFINE b == [grown EXCEPT ![n + 1] = l]
  <1>7. array'[t] = b /\ length'[t] = n + 1
        /\ \A u \in Topics \ {t} : array'[u] = array[u] /\ length'[u] = length[u]
    BY <1>1, <1>2 DEF ListsTyped
  <1> HIDE DEF b, a
  <1>8. /\ b \in Seq(Slots) /\ Len(b) = Len(grown)
        /\ \A j \in 1 .. Len(grown) : b[j] = IF j = n + 1 THEN l ELSE grown[j]
    BY <1>6 DEF b
  <1>9. \A j \in 1 .. Len(a) : j # n + 1 => b[j] = a[j]
    BY <1>1, <1>4, <1>8
  <1>10. \A j \in DOMAIN b : b[j] = l \/ b[j] = None \/ (j \in DOMAIN a /\ b[j] = a[j])
    <2>1. DOMAIN b = 1 .. Len(grown) /\ DOMAIN a = 1 .. Len(a)
      BY <1>1, <1>8
    <2> QED BY <1>4, <1>8, <2>1
  <1>11. Members(b) \subseteq Members(a) \cup {l, None}
    BY <1>10 DEF Members
  <1> QED BY <1>1, <1>4, <1>5, <1>7, <1>8, <1>9, <1>11 DEF a, NothingElse

LEMMA SubscribeKeeps ==
    ASSUME PubsubInv, NEW l \in Listeners, Fresh(l), Subscribe(l)
    PROVE  /\ PubsubInv' /\ InList(l)'
           /\ \A k \in Listeners : InList(k) => InList(k)'
  <1>0. /\ ListsTyped /\ DispatchTyped /\ ChannelsTyped /\ BusTyped
        /\ Lists /\ Handing /\ Ids /\ OnceEach
    BY DEF PubsubInv
  <1>a. PICK t \in Topics : t = TopicOf[l]
    BY Topical
  <1>n. PICK n \in Nat : n = length[t]
    BY <1>0 DEF ListsTyped
  <1>1. /\ t \in Topics /\ t = TopicOf[l] /\ n \in Nat /\ n = length[t]
        /\ array'[t] \in Seq(Slots) /\ n + 1 <= Len(array'[t]) /\ Len(array[t]) <= Len(array'[t])
        /\ array'[t][n + 1] = l
        /\ \A j \in 1 .. Len(array[t]) : j # n + 1 => array'[t][j] = array[t][j]
        /\ \A u \in Topics \ {t} : array'[u] = array[u] /\ length'[u] = length[u]
        /\ length'[t] = n + 1
    BY <1>0, <1>a, <1>n, Appended
  <1>2. n <= Len(array[t]) /\ Len(array[t]) \in Nat /\ Len(array'[t]) \in Nat
    BY <1>0, <1>1, LenProperties DEF ListsTyped
  <1>3. \A j \in 1 .. n : array'[t][j] = array[t][j]
    BY <1>1, <1>2
  <1>4. /\ channel' = [channel EXCEPT ![l] = "open"]
        /\ \E b : array' = [array EXCEPT ![t] = b]
        /\ length' = [length EXCEPT ![t] = n + 1]
        /\ UNCHANGED <<inbox, messages, closers, crashed, owed, missed, repeated, disturbed>>
        /\ \/ dispatch' = dispatch
           \/ /\ dispatch' = [dispatch EXCEPT !.own = array[t]]
              /\ dispatch.topic = t /\ dispatch.own = <<>>
    BY <1>a, <1>n DEF Subscribe, bus, history, Ranging
  <1>5. channel'[l] = "open" /\ \A k \in Listeners \ {l} : channel'[k] = channel[k]
    BY <1>0, <1>4 DEF ChannelsTyped
  <1>6. /\ dispatch'.topic = dispatch.topic /\ dispatch'.id = dispatch.id
        /\ dispatch'.n = dispatch.n /\ dispatch'.i = dispatch.i /\ dispatch'.to = dispatch.to
        /\ DispatchTyped'
    <2>1. CASE dispatch' = dispatch
      BY <1>0, <2>1 DEF DispatchTyped, Slots
    <2>2. CASE dispatch' = [dispatch EXCEPT !.own = array[t]]
      <3>1. array[t] \in Seq(Slots)
        BY <1>0, <1>1 DEF ListsTyped
      <3> QED BY <1>0, <2>2, <3>1 DEF DispatchTyped, Slots
    <2> QED BY <1>4, <2>1, <2>2
  <1>7. (dispatch = Idle <=> dispatch' = Idle) /\ (dispatch # Idle => dispatch.topic # None)
    <2>1. dispatch = Idle => dispatch' = dispatch
      BY <1>1, <1>4, Topical DEF Idle
    <2>2. dispatch' = Idle => dispatch.topic = None
      BY <1>6 DEF Idle
    <2>3. dispatch # Idle => dispatch.topic # None
      BY <1>0, Topical DEF Handing
    <2> QED BY <2>1, <2>2, <2>3
  <1>8. ListsTyped' /\ ChannelsTyped' /\ BusTyped'
    <2>1. length' \in [Topics -> Nat]
      BY <1>0, <1>1, <1>4 DEF ListsTyped
    <2>2. array' \in [Topics -> Seq(Slots)]
      BY <1>0, <1>1, <1>4 DEF ListsTyped, Slots
    <2>3. ASSUME NEW u \in Topics PROVE length'[u] <= Len(array'[u])
      BY <1>0, <1>1 DEF ListsTyped
    <2>4. ChannelsTyped' /\ BusTyped'
      BY <1>0, <1>4 DEF ChannelsTyped, BusTyped
    <2> QED BY <2>1, <2>2, <2>3, <2>4 DEF ListsTyped, Slots
  <1>9. ASSUME NEW u \in Topics
        PROVE  /\ length[u] \in Nat /\ length'[u] \in Nat /\ length[u] <= length'[u]
               /\ \A j \in 1 .. length[u] : array'[u][j] = array[u][j]
    <2>1. length[u] \in Nat /\ length'[u] \in Nat
      BY <1>0, <1>8 DEF ListsTyped
    <2>2. CASE u = t
      BY <1>1, <1>3, <2>1, <2>2
    <2>3. CASE u # t
      BY <1>1, <2>1, <2>3
    <2> QED BY <2>2, <2>3
  <1>10. \A u \in Topics : \A j \in 1 .. length[u] : array[u][j] # l
    BY <1>0 DEF Lists, Fresh
  <1>11. Lists'
    <2> SUFFICES ASSUME NEW u \in Topics
                 PROVE  /\ \A j \in 1 .. length'[u] :
                              /\ array'[u][j] \in Listeners /\ TopicOf[array'[u][j]] = u
                              /\ channel'[array'[u][j]] = "open" /\ array'[u][j] \notin closers'
                        /\ \A i, j \in 1 .. length'[u] : array'[u][i] = array'[u][j] => i = j
      BY DEF Lists
    <2>1. CASE u # t
      BY <1>0, <1>1, <1>4, <1>5, <1>10, <2>1 DEF Lists
    <2>2. CASE u = t
      <3>1. \A j \in 1 .. n + 1 : j \in 1 .. n \/ j = n + 1
        BY <1>1
      <3>2. \A j \in 1 .. n : /\ array[t][j] \in Listeners /\ TopicOf[array[t][j]] = t
                              /\ channel[array[t][j]] = "open" /\ array[t][j] \notin closers
                              /\ array[t][j] # l
        BY <1>0, <1>1, <1>10 DEF Lists
      <3>3. \A i, j \in 1 .. n : array[t][i] = array[t][j] => i = j
        BY <1>0, <1>1 DEF Lists
      <3>4. \A j \in 1 .. n + 1 : /\ array'[t][j] \in Listeners /\ TopicOf[array'[t][j]] = t
                                  /\ channel'[array'[t][j]] = "open" /\ array'[t][j] \notin closers'
        BY <1>1, <1>3, <1>4, <1>5, <3>1, <3>2 DEF Fresh
      <3>5. \A i, j \in 1 .. n + 1 : array'[t][i] = array'[t][j] => i = j
        <4>1. ASSUME NEW i \in 1 .. n + 1, NEW j \in 1 .. n + 1, array'[t][i] = array'[t][j]
              PROVE  i = j
          <5>1. CASE i \in 1 .. n /\ j \in 1 .. n
            BY <1>3, <3>3, <4>1, <5>1
          <5>2. CASE i = n + 1 /\ j \in 1 .. n
            BY <1>1, <1>3, <3>2, <4>1, <5>2
          <5>3. CASE i \in 1 .. n /\ j = n + 1
            BY <1>1, <1>3, <3>2, <4>1, <5>3
          <5> QED BY <3>1, <5>1, <5>2, <5>3
        <4> QED BY <4>1
      <3> QED BY <1>1, <2>2, <3>4, <3>5
    <2> QED BY <2>1, <2>2
  <1>12. Handing'
    <2> SUFFICES ASSUME dispatch # Idle
                 PROVE  /\ dispatch.topic \in Topics
                        /\ dispatch.i \in 1 .. dispatch.n + 1
                        /\ dispatch.n <= Len(View')
                        /\ dispatch.id \notin disturbed => Undisturbed'
      BY <1>4, <1>6, <1>7 DEF Handing
    <2> DEFINE u == dispatch.topic
    <2>1. u \in Topics /\ dispatch.i \in 1 .. dispatch.n + 1 /\ dispatch.n <= Len(View)
      BY <1>0 DEF Handing
    <2>2. \/ dispatch'.own # <<>> /\ View' = View
          \/ dispatch'.own = <<>> /\ dispatch.own = <<>> /\ View' = array'[u] /\ View = array[u]
      <3>1. CASE dispatch' = dispatch
        BY <3>1 DEF View
      <3>2. CASE /\ dispatch' = [dispatch EXCEPT !.own = array[t]]
                 /\ dispatch.topic = t /\ dispatch.own = <<>>
        <4>1. dispatch'.own = array[t] /\ dispatch'.topic = t
          BY <1>0, <1>6, <3>2 DEF DispatchTyped
        <4> QED BY <3>2, <4>1 DEF View
      <3> QED BY <1>4, <3>1, <3>2
    <2>3. Len(array[u]) <= Len(array'[u]) /\ Len(array[u]) \in Nat /\ Len(array'[u]) \in Nat
      <3>1. CASE u = t
        BY <1>1, <1>2, <3>1
      <3>2. CASE u # t
        <4>1. array[u] \in Seq(Slots)
          BY <1>0, <2>1 DEF ListsTyped
        <4> QED BY <1>1, <2>1, <3>2, <4>1, LenProperties
      <3> QED BY <3>1, <3>2
    <2>4. dispatch.n \in Nat
      BY <1>0 DEF DispatchTyped
    <2>5. dispatch.n <= Len(View')
      BY <2>1, <2>2, <2>3, <2>4
    <2>6. ASSUME Undisturbed PROVE Undisturbed'
      <3>1. /\ dispatch.n <= length[u] /\ length[u] <= length'[u]
            /\ length[u] \in Nat /\ length'[u] \in Nat
        BY <1>9, <2>1, <2>6 DEF Undisturbed
      <3>2. \A j \in 1 .. dispatch.n : array'[u][j] = array[u][j] /\ View'[j] = array'[u][j]
        BY <1>9, <2>1, <2>2, <2>4, <2>6, <3>1 DEF Undisturbed
      <3>3. dispatch.to # None => dispatch.i >= 2 /\ dispatch.to = array'[u][dispatch.i - 1]
        <4>1. dispatch.i >= 2 => dispatch.i - 1 \in 1 .. dispatch.n
          BY <2>1, <2>4
        <4> QED BY <2>6, <3>2, <4>1 DEF Undisturbed
      <3>4. \A j \in dispatch.i .. dispatch.n : array'[u][j] = array[u][j]
        BY <2>1, <2>4, <3>2
      <3> QED BY <1>4, <1>6, <2>4, <2>6, <3>1, <3>2, <3>3, <3>4 DEF Undisturbed
    <2> QED BY <1>0, <2>1, <2>5, <2>6 DEF Handing
  <1>13. Ids' /\ OnceEach'
    BY <1>0, <1>4, <1>6, <1>7 DEF Ids, Past, OnceEach
  <1>14. InList(l)'
    BY <1>1 DEF InList
  <1>15. \A k \in Listeners : InList(k) => InList(k)'
    BY <1>9, Topical DEF InList
  <1> QED BY <1>6, <1>8, <1>11, <1>12, <1>13, <1>14, <1>15 DEF PubsubInv

(* What Unsubscribe leaves in the array: the slots behind l moved up.      *)
MovedUp(t, n, i) ==
    \A j \in 1 .. n - 1 : array'[t][j] = IF j < i THEN array[t][j] ELSE array[t][j + 1]

LEMMA Shifted ==
    ASSUME ListsTyped, NEW l \in Listeners, InList(l), Unsubscribe(l),
           NEW t, t = TopicOf[l], NEW n, n = length[t]
    PROVE  /\ t \in Topics /\ n \in Nat /\ n >= 1
           /\ array'[t] \in Seq(Slots) /\ Len(array'[t]) = Len(array[t]) /\ n <= Len(array[t])
           /\ \E i \in 1 .. n : array[t][i] = l /\ MovedUp(t, n, i)
           /\ \A u \in Topics \ {t} : array'[u] = array[u] /\ length'[u] = length[u]
           /\ length'[t] = n - 1
           /\ Members(array'[t]) \subseteq Members(array[t])
  <1> DEFINE a == array[t]
             i == CHOOSE x \in 1 .. n : a[x] = l
             b == [x \in DOMAIN a |-> IF x \in i .. n - 1 THEN a[x + 1] ELSE a[x]]
  <1>1. t \in Topics /\ n \in Nat /\ a \in Seq(Slots) /\ n <= Len(a) /\ Len(a) \in Nat
    BY Topical, LenProperties DEF ListsTyped
  <1>2. array' = [array EXCEPT ![t] = b] /\ length' = [length EXCEPT ![t] = n - 1]
    BY DEF Unsubscribe, Shift
  <1>3. \E x \in 1 .. n : a[x] = l
    BY DEF InList
  <1>4. i \in 1 .. n /\ a[i] = l
    BY <1>3
  <1> HIDE DEF i
  <1>5. b \in [1 .. Len(a) -> Slots]
    <2>1. DOMAIN a = 1 .. Len(a) /\ \A x \in 1 .. Len(a) : a[x] \in Slots
      BY <1>1
    <2>2. \A x \in 1 .. Len(a) : x \in i .. n - 1 => x + 1 \in 1 .. Len(a)
      BY <1>1, <1>4
    <2> HIDE DEF a
    <2> QED BY <2>1, <2>2
  <1>6. \A j \in 1 .. n - 1 : b[j] = IF j < i THEN a[j] ELSE a[j + 1]
    <2>1. DOMAIN a = 1 .. Len(a)
      BY <1>1
    <2> HIDE DEF a
    <2> QED BY <1>1, <1>4, <2>1
  <1>7. array'[t] = b /\ length'[t] = n - 1
        /\ \A u \in Topics \ {t} : array'[u] = array[u] /\ length'[u] = length[u]
    BY <1>1, <1>2 DEF ListsTyped
  <1>10. \A x \in DOMAIN b : \E y \in DOMAIN a : b[x] = a[y]
    <2>1. DOMAIN a = 1 .. Len(a) /\ DOMAIN b = DOMAIN a
      BY <1>1
    <2>2. \A x \in 1 .. Len(a) : x \in i .. n - 1 => x + 1 \in 1 .. Len(a)
      BY <1>1, <1>4
    <2> HIDE DEF a
    <2> QED BY <2>1, <2>2
  <1> HIDE DEF b
  <1>8. b \in Seq(Slots) /\ Len(b) = Len(a)
    BY <1>1, <1>5, FunctionSeq
  <1>9. Members(b) \subseteq Members(a)
    BY <1>10 DEF Members
  <1> QED BY <1>1, <1>4, <1>6, <1>7, <1>8, <1>9 DEF MovedUp

LEMMA UnsubscribeKeeps ==
    ASSUME PubsubInv, NEW l \in Listeners, InList(l), Unsubscribe(l)
    PROVE  /\ PubsubInv'
           /\ \A k \in Listeners \ {l} : InList(k) => InList(k)'
  <1>0. /\ ListsTyped /\ DispatchTyped /\ ChannelsTyped /\ BusTyped
        /\ Lists /\ Handing /\ Ids /\ OnceEach
    BY DEF PubsubInv
  <1>t. PICK t \in Topics : t = TopicOf[l]
    BY Topical
  <1>n. PICK n \in Nat : n = length[t]
    BY <1>0 DEF ListsTyped
  <1>1. /\ n >= 1
        /\ array'[t] \in Seq(Slots) /\ Len(array'[t]) = Len(array[t]) /\ n <= Len(array[t])
        /\ \E i \in 1 .. n : array[t][i] = l /\ MovedUp(t, n, i)
        /\ \A u \in Topics \ {t} : array'[u] = array[u] /\ length'[u] = length[u]
        /\ length'[t] = n - 1
    BY <1>0, <1>t, <1>n, Shifted
  <1>2. PICK i \in 1 .. n :
              /\ array[t][i] = l
              /\ \A j \in 1 .. n - 1 :
                    array'[t][j] = IF j < i THEN array[t][j] ELSE array[t][j + 1]
    BY <1>1 DEF MovedUp
  <1>3. /\ \E b : array' = [array EXCEPT ![t] = b]
        /\ length' = [length EXCEPT ![t] = n - 1]
        /\ closers' = closers \cup {l}
        /\ disturbed' = IF dispatch.topic = t THEN disturbed \cup {dispatch.id} ELSE disturbed
        /\ UNCHANGED <<inbox, messages, dispatch, channel, crashed, owed, missed, repeated>>
    BY <1>t, <1>n DEF Unsubscribe, bus, Ranging
  <1>4. ListsTyped' /\ DispatchTyped' /\ ChannelsTyped' /\ BusTyped'
    <2>1. length' \in [Topics -> Nat]
      BY <1>0, <1>1, <1>3 DEF ListsTyped
    <2>2. array' \in [Topics -> Seq(Slots)]
      BY <1>0, <1>1, <1>3 DEF ListsTyped, Slots
    <2>3. ASSUME NEW u \in Topics PROVE length'[u] <= Len(array'[u])
      <3>1. CASE u = t
        <4>1. Len(array[t]) \in Nat
          BY <1>0, LenProperties DEF ListsTyped
        <4> QED BY <1>1, <3>1, <4>1
      <3>2. CASE u # t
        BY <1>0, <1>1, <3>2 DEF ListsTyped
      <3> QED BY <3>1, <3>2
    <2>4. DispatchTyped' /\ ChannelsTyped' /\ BusTyped'
      BY <1>0, <1>3 DEF DispatchTyped, ChannelsTyped, BusTyped, Slots
    <2> QED BY <2>1, <2>2, <2>3, <2>4 DEF ListsTyped, Slots
  <1>5. /\ \A j \in 1 .. n : /\ array[t][j] \in Listeners /\ TopicOf[array[t][j]] = t
                             /\ channel[array[t][j]] = "open" /\ array[t][j] \notin closers
        /\ \A j, k \in 1 .. n : array[t][j] = array[t][k] => j = k
    BY <1>0, <1>n DEF Lists
  <1>6. Lists'
    <2> SUFFICES ASSUME NEW u \in Topics
                 PROVE  /\ \A j \in 1 .. length'[u] :
                              /\ array'[u][j] \in Listeners /\ TopicOf[array'[u][j]] = u
                              /\ channel'[array'[u][j]] = "open" /\ array'[u][j] \notin closers'
                        /\ \A j, k \in 1 .. length'[u] : array'[u][j] = array'[u][k] => j = k
      BY DEF Lists
    <2>1. CASE u # t
      BY <1>0, <1>1, <1>3, <1>t, <2>1 DEF Lists
    <2>2. CASE u = t
      <3>1. ASSUME NEW j \in 1 .. n - 1
            PROVE  \E x \in 1 .. n : x # i /\ array'[t][j] = array[t][x] /\ x = IF j < i THEN j ELSE j + 1
        <4>1. CASE j < i
          BY <1>2, <4>1
        <4>2. CASE ~(j < i)
          <5>1. j + 1 \in 1 .. n /\ j + 1 # i
            BY <1>1, <1>2, <4>2
          <5> QED BY <1>2, <4>2, <5>1
        <4> QED BY <4>1, <4>2
      <3>2. ASSUME NEW j \in 1 .. n - 1
            PROVE  /\ array'[t][j] \in Listeners /\ TopicOf[array'[t][j]] = t
                   /\ channel'[array'[t][j]] = "open" /\ array'[t][j] \notin closers'
        <4>1. PICK x \in 1 .. n : x # i /\ array'[t][j] = array[t][x]
          BY <3>1
        <4>2. array[t][x] # l
          BY <1>2, <1>5, <4>1
        <4> QED BY <1>3, <1>5, <4>1, <4>2
      <3>3. ASSUME NEW j \in 1 .. n - 1, NEW k \in 1 .. n - 1, array'[t][j] = array'[t][k]
            PROVE  j = k
        <4>1. PICK x \in 1 .. n : array'[t][j] = array[t][x] /\ x = IF j < i THEN j ELSE j + 1
          BY <3>1
        <4>2. PICK y \in 1 .. n : array'[t][k] = array[t][y] /\ y = IF k < i THEN k ELSE k + 1
          BY <3>1
        <4>3. x = y
          BY <1>5, <3>3, <4>1, <4>2
        <4> QED BY <1>2, <4>1, <4>2, <4>3
      <3> QED BY <1>1, <2>2, <3>2, <3>3
    <2> QED BY <2>1, <2>2
  <1>7. dispatch.topic \in Topics => dispatch # Idle
    BY Topical DEF Idle
  <1>8. Handing'
    <2> SUFFICES ASSUME dispatch # Idle
                 PROVE  /\ dispatch.topic \in Topics
                        /\ dispatch.i \in 1 .. dispatch.n + 1
                        /\ dispatch.n <= Len(View')
                        /\ dispatch.id \notin disturbed' => Undisturbed'
      BY <1>3 DEF Handing, Idle
    <2>1. /\ dispatch.topic \in Topics /\ dispatch.i \in 1 .. dispatch.n + 1
          /\ dispatch.n <= Len(View)
          /\ dispatch.id \notin disturbed => Undisturbed
      BY <1>0 DEF Handing
    <2>2. CASE dispatch.topic = t
      <3>1. Len(View') = Len(View)
        BY <1>1, <1>3, <2>2 DEF View
      <3>2. dispatch.id \in disturbed'
        BY <1>3, <2>2
      <3>3. dispatch.n <= Len(View')
        BY <2>1, <3>1
      <3> QED BY <2>1, <3>2, <3>3
    <2>3. CASE dispatch.topic # t
      <3>1. array'[dispatch.topic] = array[dispatch.topic] /\ length'[dispatch.topic] = length[dispatch.topic]
        BY <1>1, <2>1, <2>3
      <3>2. View' = View
        BY <1>3, <3>1 DEF View
      <3>3. ASSUME Undisturbed PROVE Undisturbed'
        BY <1>3, <3>1, <3>2, <3>3 DEF Undisturbed
      <3>4. disturbed' = disturbed
        BY <1>3, <2>3
      <3>5. dispatch.n <= Len(View')
        BY <2>1, <3>2
      <3>6. dispatch.id \notin disturbed' => Undisturbed'
        BY <2>1, <3>3, <3>4
      <3> QED BY <2>1, <3>5, <3>6
    <2> QED BY <2>2, <2>3
  <1>9. Ids' /\ OnceEach'
    <2>1. dispatch.topic = t => Past(dispatch.id)
      BY <1>0, <1>7 DEF Ids
    <2>2. \A d : Past(d)' <=> Past(d)
      BY <1>3 DEF Past
    <2>3. Ids'
      BY <1>0, <1>3, <2>1, <2>2 DEF Ids
    <2>4. OnceEach'
      BY <1>0, <1>3 DEF OnceEach, Idle
    <2> QED BY <2>3, <2>4
  <1>10. ASSUME NEW k \in Listeners \ {l}, InList(k) PROVE InList(k)'
    <2>1. TopicOf[k] \in Topics
      BY Topical
    <2>2. CASE TopicOf[k] # t
      BY <1>1, <1>10, <2>1, <2>2 DEF InList
    <2>3. CASE TopicOf[k] = t
      <3>1. PICK j \in 1 .. n : array[t][j] = k
        BY <1>n, <1>10, <2>3 DEF InList
      <3>2. j # i
        BY <1>2, <3>1
      <3>3. CASE j < i
        <4>1. j \in 1 .. n - 1 /\ array'[t][j] = k
          BY <1>2, <3>1, <3>3
        <4> QED BY <1>1, <2>3, <4>1 DEF InList
      <3>4. CASE j > i
        <4>1. j - 1 \in 1 .. n - 1 /\ ~(j - 1 < i) /\ (j - 1) + 1 = j
          BY <1>2, <3>1, <3>4
        <4>2. array'[t][j - 1] = k
          BY <1>2, <3>1, <4>1
        <4> QED BY <1>1, <2>3, <4>1, <4>2 DEF InList
      <3> QED BY <1>2, <3>1, <3>2, <3>3, <3>4
    <2> QED BY <2>2, <2>3
  <1> QED BY <1>4, <1>6, <1>8, <1>9, <1>10 DEF PubsubInv

(***************************************************************************)
(* Notifications                                                           *)
(***************************************************************************)

LEMMA ListsStay ==
    ASSUME ListsTyped, ChannelsTyped, Lists, UNCHANGED <<lists, channels>>
    PROVE  ListsTyped' /\ ChannelsTyped' /\ Lists'
  BY DEF ListsTyped, ChannelsTyped, Lists, lists, channels, Slots

LEMMA PublishKeeps ==
    ASSUME PubsubInv, NEW t \in Topics, Publish(t)
    PROVE  PubsubInv'
  <1>0. /\ ListsTyped /\ DispatchTyped /\ ChannelsTyped /\ BusTyped
        /\ Lists /\ Handing /\ Ids /\ OnceEach
    BY DEF PubsubInv
  <1>1. /\ messages' = messages + 1
        /\ UNCHANGED <<array, length, dispatch, channel, closers, crashed, owed, repeated, disturbed>>
        /\ \/ inbox' = Append(inbox, [topic |-> t, id |-> messages + 1])
           \/ inbox' = inbox
    BY DEF Publish, lists, channels
  <1>2. ListsTyped' /\ ChannelsTyped' /\ Lists'
    BY <1>0, <1>1, ListsStay DEF lists, channels
  <1>3. DispatchTyped' /\ Handing' /\ OnceEach'
    <2>1. Undisturbed' <=> Undisturbed
      BY <1>1 DEF Undisturbed, View
    <2> QED BY <1>0, <1>1, <2>1 DEF DispatchTyped, Handing, OnceEach, View, Idle, Slots
  <1> DEFINE M == [topic : Topics, id : Nat]
             e == [topic |-> t, id |-> messages + 1]
  <1>4. messages \in Nat /\ inbox \in Seq(M) /\ e \in M /\ e.id = messages + 1 /\ Len(inbox) \in Nat
    BY <1>0 DEF BusTyped
  <1>e. inbox' = Append(inbox, e) \/ inbox' = inbox
    BY <1>1
  <1>5. /\ \A k \in DOMAIN inbox' : \/ (k \in DOMAIN inbox /\ inbox'[k] = inbox[k])
                                  \/ (k = Len(inbox) + 1 /\ inbox'[k] = e)
        /\ inbox' \in Seq(M)
    <2> HIDE DEF M, e
    <2>1. CASE inbox' = Append(inbox, e)
      <3>1. inbox' \in Seq(M) /\ Len(inbox') = Len(inbox) + 1
        BY <1>4, <2>1
      <3>2. \A k \in 1 .. Len(inbox) : inbox'[k] = inbox[k]
        BY <1>4, <2>1
      <3>3. inbox'[Len(inbox) + 1] = e
        BY <1>4, <2>1
      <3>4. DOMAIN inbox' = 1 .. Len(inbox) + 1 /\ DOMAIN inbox = 1 .. Len(inbox)
        BY <1>4, <3>1
      <3> QED BY <1>4, <3>1, <3>2, <3>3, <3>4
    <2>2. CASE inbox' = inbox
      BY <1>4, <2>2
    <2> QED BY <1>e, <2>1, <2>2
  <1>6. BusTyped'
    BY <1>0, <1>1, <1>4, <1>5 DEF BusTyped
  <1> HIDE DEF e
  <1>7. ASSUME NEW d, Past(d) PROVE Past(d)'
    <2>1. d \in 1 .. messages /\ \A k \in DOMAIN inbox : d < inbox[k].id
      BY <1>7 DEF Past
    <2>2. d \in Nat /\ d < messages + 1 /\ messages' = messages + 1
      BY <1>1, <1>4, <2>1
    <2>3. \A k \in DOMAIN inbox' : d < inbox'[k].id
      BY <1>4, <1>5, <2>1, <2>2
    <2>4. d \in 1 .. messages'
      BY <1>4, <2>1, <2>2
    <2> QED BY <2>3, <2>4 DEF Past
  <1>8. \A k \in DOMAIN inbox' : inbox'[k].id \in 1 .. messages'
    BY <1>0, <1>1, <1>4, <1>5 DEF Ids
  <1>9. ASSUME NEW j \in DOMAIN inbox', NEW k \in DOMAIN inbox', j < k
        PROVE  inbox'[j].id < inbox'[k].id
    <2>0. DOMAIN inbox = 1 .. Len(inbox)
      BY <1>4
    <2>1. CASE j \in DOMAIN inbox /\ k \in DOMAIN inbox
      <3>1. inbox'[j] = inbox[j] /\ inbox'[k] = inbox[k]
        BY <1>4, <1>5, <2>0, <2>1
      <3> QED BY <1>0, <1>9, <2>1, <3>1 DEF Ids
    <2>2. CASE j \in DOMAIN inbox /\ k = Len(inbox) + 1
      <3>1. inbox'[j] = inbox[j] /\ inbox'[k] = e
        BY <1>4, <1>5, <2>0, <2>2
      <3>2. inbox[j].id \in 1 .. messages
        BY <1>0, <2>2 DEF Ids
      <3> QED BY <1>4, <3>1, <3>2
    <2>3. j # Len(inbox) + 1
      BY <1>4, <1>5, <1>9, <2>0
    <2> QED BY <1>5, <2>1, <2>2, <2>3
  <1>10. Ids'
    <2>1. dispatch' # Idle => Past(dispatch.id)
      BY <1>0, <1>1 DEF Ids, Idle
    <2> QED BY <1>0, <1>1, <1>7, <1>8, <1>9, <2>1 DEF Ids
  <1> QED BY <1>2, <1>3, <1>6, <1>10 DEF PubsubInv

(* Nothing is owed to anybody for what is taken from the inbox now.        *)
LEMMA TakeKeeps ==
    ASSUME PubsubInv, ~crashed, Take
    PROVE  PubsubInv'
  <1>0. /\ ListsTyped /\ DispatchTyped /\ ChannelsTyped /\ BusTyped
        /\ Lists /\ Handing /\ Ids /\ OnceEach
    BY DEF PubsubInv
  <1> DEFINE M == [topic : Topics, id : Nat]
  <1>m. PICK m : m = Head(inbox)
    OBVIOUS
  <1>n. PICK n : n = length[m.topic]
    OBVIOUS
  <1>1. /\ dispatch = Idle /\ inbox # <<>> /\ inbox' = Tail(inbox)
        /\ dispatch' = IF n = 0 THEN Idle
                       ELSE [Idle EXCEPT !.topic = m.topic, !.id = m.id, !.n = n]
        /\ owed' = owed \cup {<<array[m.topic][i], m.id>> : i \in 1 .. n}
        /\ UNCHANGED <<array, length, messages, channel, closers, crashed, repeated, disturbed>>
    BY <1>m, <1>n DEF Take, lists, channels
  <1>2. ListsTyped' /\ ChannelsTyped' /\ Lists'
    BY <1>0, <1>1, ListsStay DEF lists, channels
  <1>3. /\ inbox \in Seq(M) /\ Len(inbox) \in Nat /\ Len(inbox) >= 1
        /\ m \in M /\ m = inbox[1] /\ inbox' \in Seq(M)
        /\ DOMAIN inbox' = 1 .. Len(inbox) - 1 /\ DOMAIN inbox = 1 .. Len(inbox)
        /\ \A k \in DOMAIN inbox' : k + 1 \in DOMAIN inbox /\ inbox'[k] = inbox[k + 1]
    <2>1. inbox \in Seq(M)
      BY <1>0 DEF BusTyped
    <2> HIDE DEF M
    <2> QED BY <1>1, <1>m, <2>1
  <1>4. m.topic \in Topics /\ m.id \in Nat /\ n \in Nat /\ n <= Len(array[m.topic])
    BY <1>0, <1>3, <1>n DEF ListsTyped
  <1> HIDE DEF M
  <1>5. /\ \A j \in 1 .. n : array[m.topic][j] \in Listeners
        /\ \A j, k \in 1 .. n : array[m.topic][j] = array[m.topic][k] => j = k
    BY <1>0, <1>4, <1>n DEF Lists
  <1>6. n # 0 => /\ dispatch'.topic = m.topic /\ dispatch'.id = m.id /\ dispatch'.n = n
                 /\ dispatch'.i = 1 /\ dispatch'.own = <<>> /\ dispatch'.to = None
                 /\ DispatchTyped'
    <2>1. <<>> \in Seq(Slots) /\ None \in Slots /\ 1 \in Nat
      BY DEF Slots
    <2> HIDE DEF Slots
    <2>2. /\ Idle \in [topic : Topics \cup {None}, id : Nat, n : Nat,
                        i : Nat, own : Seq(Slots), to : Slots]
          /\ Idle.i = 1 /\ Idle.own = <<>> /\ Idle.to = None
      BY <2>1 DEF Idle
    <2> QED BY <1>1, <1>4, <2>1, <2>2 DEF DispatchTyped
  <1>7. n = 0 => dispatch' = Idle /\ owed' = owed /\ DispatchTyped'
    BY <1>0, <1>1 DEF DispatchTyped, Slots
  <1>8. ASSUME NEW d, Past(d) PROVE Past(d)' /\ d < m.id /\ d \in Nat
    BY <1>0, <1>1, <1>3, <1>8 DEF Past, BusTyped
  <1>9. Past(m.id)'
    <2>1. m.id \in 1 .. messages
      BY <1>0, <1>3 DEF Ids
    <2>2. \A k \in DOMAIN inbox' : inbox[1].id < inbox[k + 1].id
      BY <1>0, <1>3 DEF Ids
    <2> QED BY <1>1, <1>3, <2>1, <2>2 DEF Past
  <1>10. BusTyped'
    <2>1. owed' \subseteq Listeners \X Nat
      BY <1>0, <1>1, <1>4, <1>5 DEF BusTyped
    <2> QED BY <1>0, <1>1, <1>3, <2>1 DEF BusTyped, M
  <1>11. \A o \in owed' : o \in owed \/ (o[2] = m.id /\ n # 0)
    <2>1. ASSUME NEW o \in owed', o \notin owed PROVE o[2] = m.id /\ n # 0
      <3>1. o \in {<<array[m.topic][i], m.id>> : i \in 1 .. n}
        BY <1>1, <2>1
      <3>2. ASSUME NEW i \in 1 .. n, o = <<array[m.topic][i], m.id>> PROVE o[2] = m.id /\ n # 0
        BY <1>4, <3>2
      <3> QED BY <3>1, <3>2
    <2> QED BY <2>1
  <1>12. Ids'
    <2>1. \A k \in DOMAIN inbox' : inbox'[k].id \in 1 .. messages'
      BY <1>0, <1>1, <1>3 DEF Ids
    <2>2. ASSUME NEW j \in DOMAIN inbox', NEW k \in DOMAIN inbox', j < k
          PROVE  inbox'[j].id < inbox'[k].id
      <3>1. j + 1 \in DOMAIN inbox /\ k + 1 \in DOMAIN inbox /\ j + 1 < k + 1
        BY <1>3, <2>2
      <3> QED BY <1>0, <1>3, <3>1 DEF Ids
    <2>3. dispatch' # Idle => Past(dispatch.id)'
      BY <1>6, <1>7, <1>9
    <2>4. \A o \in owed' : Past(o[2])'
      BY <1>0, <1>8, <1>9, <1>11 DEF Ids
    <2>5. \A d \in disturbed' : Past(d)'
      BY <1>0, <1>1, <1>8 DEF Ids
    <2> QED BY <2>1, <2>2, <2>3, <2>4, <2>5 DEF Ids, Idle
  <1>13. OnceEach'
    <2>1. \A o \in owed : o[2] \in disturbed
      <3>1. \A o \in owed : o[2] \in disturbed \/ o[2] = 0
        BY <1>0, <1>1 DEF OnceEach, Idle
      <3>2. \A o \in owed : o[2] # 0
        BY <1>0 DEF Ids, Past, BusTyped
      <3> QED BY <3>1, <3>2
    <2>2. \A o \in owed' : o[2] \in disturbed' \cup {dispatch'.id}
      BY <1>1, <1>6, <1>11, <2>1
    <2> QED BY <1>0, <1>1, <2>2 DEF OnceEach
  <1>14. Handing'
    <2> SUFFICES ASSUME n # 0
                 PROVE  /\ dispatch'.topic \in Topics
                        /\ dispatch'.i \in 1 .. dispatch'.n + 1
                        /\ dispatch'.n <= Len(View')
                        /\ Undisturbed'
      BY <1>7 DEF Handing, Idle
    <2>1. View' = array[m.topic]
      BY <1>1, <1>6 DEF View
    <2>2. ASSUME NEW l \in Listeners
          PROVE  <<l, m.id>> \in owed' <=> \E j \in 1 .. n : array[m.topic][j] = l
      <3>1. <<l, m.id>> \notin owed
        <4>1. <<l, m.id>> \in owed => m.id < m.id
          BY <1>0, <1>8 DEF Ids
        <4> QED BY <1>4, <4>1
      <3> QED BY <1>1, <3>1
    <2>3. Undisturbed'
      BY <1>1, <1>4, <1>6, <1>n, <2>1, <2>2, Topical DEF Undisturbed
    <2> QED BY <1>4, <1>6, <2>1, <2>3
  <1> QED BY <1>2, <1>6, <1>7, <1>10, <1>12, <1>13, <1>14 DEF PubsubInv

(* The next in the array is who is owed the notification next.             *)
LEMMA PickKeeps ==
    ASSUME PubsubInv, ~crashed, Pick
    PROVE  PubsubInv'
  <1>0. /\ ListsTyped /\ DispatchTyped /\ ChannelsTyped /\ BusTyped
        /\ Lists /\ Handing /\ Ids /\ OnceEach
    BY DEF PubsubInv
  <1> DEFINE R == [topic : Topics \cup {None}, id : Nat, n : Nat,
                   i : Nat, own : Seq(Slots), to : Slots]
  <1>1. /\ dispatch # Idle /\ dispatch.to = None
        /\ dispatch' = IF dispatch.i > dispatch.n THEN Idle
                       ELSE [dispatch EXCEPT !.to = View[dispatch.i], !.i = @ + 1]
        /\ UNCHANGED <<array, length, inbox, messages, channel, closers, crashed,
                       owed, repeated, disturbed>>
    BY DEF Pick, View, lists, channels, bus, history
  <1>2. ListsTyped' /\ ChannelsTyped' /\ Lists'
    BY <1>0, <1>1, ListsStay DEF lists, channels
  <1>3. /\ dispatch.topic \in Topics /\ dispatch.i \in 1 .. dispatch.n + 1
        /\ dispatch.n <= Len(View)
        /\ dispatch.id \notin disturbed => Undisturbed
        /\ dispatch.n \in Nat /\ dispatch.i \in Nat
    BY <1>0, <1>1 DEF Handing, DispatchTyped
  <1>4. View \in Seq(Slots) /\ Len(View) \in Nat
    <2>1. View \in Seq(Slots)
      BY <1>0, <1>3 DEF ListsTyped, DispatchTyped, View
    <2> QED BY <2>1, LenProperties
  <1>5. BusTyped'
    BY <1>0, <1>1 DEF BusTyped
  <1>6. \A d : Past(d)' <=> Past(d)
    BY <1>1 DEF Past
  <1>7. CASE dispatch.i > dispatch.n
    <2>1. dispatch' = Idle
      BY <1>1, <1>7
    <2>2. DispatchTyped'
      BY <2>1 DEF DispatchTyped, Idle, Slots
    <2>3. Handing' /\ Ids'
      BY <1>0, <1>1, <1>6, <2>1 DEF Handing, Ids, Idle
    <2>4. ASSUME NEW o \in owed PROVE o[2] \in disturbed
      <3>1. CASE dispatch.id \in disturbed
        BY <1>0, <3>1 DEF OnceEach
      <3>2. CASE dispatch.id \notin disturbed
        <4>1. PICK l \in Listeners, d \in Nat : o = <<l, d>>
          BY <1>0 DEF BusTyped
        <4>2. <<l, dispatch.id>> \notin owed
          BY <1>1, <1>3, <1>7, <3>2, Topical DEF Undisturbed
        <4>3. d # dispatch.id
          BY <4>1, <4>2
        <4> QED BY <1>0, <4>1, <4>3 DEF OnceEach
      <3> QED BY <3>1, <3>2
    <2>5. OnceEach'
      BY <1>0, <1>1, <2>1, <2>4 DEF OnceEach
    <2> QED BY <1>2, <1>5, <2>2, <2>3, <2>5 DEF PubsubInv
  <1>8. CASE ~(dispatch.i > dispatch.n)
    <2>1. View[dispatch.i] \in Slots /\ dispatch.i \in 1 .. dispatch.n
      BY <1>3, <1>4, <1>8
    <2>2. dispatch' = [dispatch EXCEPT !.to = View[dispatch.i], !.i = dispatch.i + 1]
      BY <1>1, <1>8
    <2>3. /\ dispatch'.topic = dispatch.topic /\ dispatch'.id = dispatch.id
          /\ dispatch'.n = dispatch.n /\ dispatch'.i = dispatch.i + 1
          /\ dispatch'.own = dispatch.own /\ dispatch'.to = View[dispatch.i]
          /\ DispatchTyped'
      <3>1. dispatch \in R
        BY <1>0 DEF DispatchTyped
      <3> HIDE DEF Slots
      <3>2. dispatch' \in R
        <4>1. PICK v \in Slots : v = View[dispatch.i]
          BY <2>1
        <4>2. PICK x \in Nat : x = dispatch.i + 1
          BY <1>3
        <4>3. dispatch' = [dispatch EXCEPT !.to = v, !.i = x]
          BY <2>2, <4>1, <4>2
        <4> QED BY <3>1, <4>3
      <3>3. DispatchTyped'
        BY <3>2 DEF DispatchTyped, Slots
      <3> QED BY <2>2, <3>1, <3>3
    <2>4. View' = View
      BY <1>1, <2>3 DEF View
    <2>5. dispatch' # Idle
      BY <1>3, <2>3, Topical DEF Idle
    <2>6. ASSUME Undisturbed PROVE Undisturbed'
      <3>1. /\ dispatch.n <= length[dispatch.topic] /\ length[dispatch.topic] \in Nat
            /\ \A j \in 1 .. dispatch.n : View[j] = array[dispatch.topic][j]
        BY <1>0, <1>3, <2>6 DEF Undisturbed, ListsTyped
      <3>2. View[dispatch.i] = array[dispatch.topic][dispatch.i] /\ dispatch.i \in 1 .. length[dispatch.topic]
        BY <1>3, <2>1, <3>1
      <3>3. View[dispatch.i] # None
        BY <1>0, <1>3, <3>2, Topical DEF Lists
      <3>4. dispatch'.i >= 2 /\ dispatch'.i - 1 = dispatch.i
        BY <2>1, <2>3
      <3>5. ASSUME NEW l \in Listeners
            PROVE  <<l, dispatch.id>> \in owed <=>
                      \/ View[dispatch.i] = l
                      \/ \E j \in dispatch.i + 1 .. dispatch.n : array[dispatch.topic][j] = l
        <4>1. <<l, dispatch.id>> \in owed <=> \E j \in dispatch.i .. dispatch.n : array[dispatch.topic][j] = l
          BY <1>1, <2>6, Topical DEF Undisturbed
        <4>2. \A j \in dispatch.i .. dispatch.n : j = dispatch.i \/ j \in dispatch.i + 1 .. dispatch.n
          BY <2>1
        <4>3. /\ dispatch.i \in dispatch.i .. dispatch.n
              /\ \A j \in dispatch.i + 1 .. dispatch.n : j \in dispatch.i .. dispatch.n
          BY <2>1
        <4> QED BY <3>2, <4>1, <4>2, <4>3
      <3> QED BY <1>1, <2>3, <2>4, <3>1, <3>2, <3>3, <3>4, <3>5 DEF Undisturbed
    <2>7. Handing'
      <3>1. dispatch'.i \in 1 .. dispatch'.n + 1 /\ dispatch'.n <= Len(View')
        BY <1>3, <2>1, <2>3, <2>4
      <3>2. dispatch'.id \notin disturbed' => Undisturbed'
        BY <1>1, <1>3, <2>3, <2>6
      <3> QED BY <1>3, <2>3, <3>1, <3>2 DEF Handing
    <2>8. Ids' /\ OnceEach'
      <3>1. Ids'
        BY <1>0, <1>1, <1>6, <2>3 DEF Ids
      <3>2. OnceEach'
        BY <1>0, <1>1, <2>3 DEF OnceEach
      <3> QED BY <3>1, <3>2
    <2> QED BY <1>2, <1>5, <2>3, <2>7, <2>8 DEF PubsubInv
  <1> QED BY <1>7, <1>8

(* A listener that is sent to is owed it, and is not closed, unless the    *)
(* list was disturbed.                                                     *)
LEMMA SendKeeps ==
    ASSUME PubsubInv, ~crashed, Send
    PROVE  PubsubInv'
  <1>0. /\ ListsTyped /\ DispatchTyped /\ ChannelsTyped /\ BusTyped
        /\ Lists /\ Handing /\ Ids /\ OnceEach
    BY DEF PubsubInv
  <1>l. PICK l : l = dispatch.to
    OBVIOUS
  <1>1. /\ l # None
        /\ UNCHANGED <<array, length, inbox, messages, channel, closers, disturbed>>
        /\ \/ /\ dispatch' = [dispatch EXCEPT !.to = None]
              /\ owed' = owed \ {<<l, dispatch.id>>}
              /\ repeated' = IF <<l, dispatch.id>> \in owed
                             THEN repeated ELSE repeated \cup {dispatch.id}
              /\ crashed' = crashed
           \/ /\ channel[l] = "closed" /\ crashed' = TRUE
              /\ UNCHANGED <<dispatch, owed, repeated>>
    BY <1>l DEF Send, Crash, lists, channels, bus, history
  <1>2. ListsTyped' /\ ChannelsTyped' /\ Lists'
    BY <1>0, <1>1, ListsStay DEF lists, channels
  <1>3. l \in Listeners /\ dispatch # Idle
    BY <1>0, <1>1, <1>l DEF DispatchTyped, Slots, Idle
  <1>4. /\ dispatch.topic \in Topics /\ dispatch.i \in 1 .. dispatch.n + 1
        /\ dispatch.n <= Len(View)
        /\ dispatch.id \notin disturbed => Undisturbed
        /\ dispatch.n \in Nat /\ dispatch.i \in Nat
    BY <1>0, <1>3 DEF Handing, DispatchTyped
  <1>5. BusTyped'
    BY <1>0, <1>1 DEF BusTyped
  <1>6. \A d : Past(d)' <=> Past(d)
    BY <1>1 DEF Past
  <1>7. ASSUME Undisturbed
        PROVE  /\ l = array[dispatch.topic][dispatch.i - 1] /\ <<l, dispatch.id>> \in owed
               /\ dispatch.i - 1 \in 1 .. length[dispatch.topic]
               /\ dispatch.n <= length[dispatch.topic] /\ length[dispatch.topic] \in Nat
               /\ channel[l] = "open"
    <2>1. /\ l = array[dispatch.topic][dispatch.i - 1] /\ <<l, dispatch.id>> \in owed
          /\ dispatch.i >= 2 /\ dispatch.n <= length[dispatch.topic] /\ length[dispatch.topic] \in Nat
      BY <1>0, <1>1, <1>3, <1>4, <1>7, <1>l DEF Undisturbed, ListsTyped
    <2>2. dispatch.i - 1 \in 1 .. length[dispatch.topic]
      BY <1>4, <2>1
    <2> QED BY <1>0, <1>4, <2>1, <2>2 DEF Lists
  <1>8. CASE /\ dispatch' = [dispatch EXCEPT !.to = None]
             /\ owed' = owed \ {<<l, dispatch.id>>}
             /\ repeated' = IF <<l, dispatch.id>> \in owed
                            THEN repeated ELSE repeated \cup {dispatch.id}
             /\ crashed' = crashed
    <2>1. /\ dispatch'.topic = dispatch.topic /\ dispatch'.id = dispatch.id
          /\ dispatch'.n = dispatch.n /\ dispatch'.i = dispatch.i
          /\ dispatch'.own = dispatch.own /\ dispatch'.to = None /\ DispatchTyped'
      BY <1>0, <1>8 DEF DispatchTyped, Slots
    <2>2. View' = View
      BY <1>1, <2>1 DEF View
    <2>3. ASSUME Undisturbed PROVE Undisturbed'
      <3>1. ASSUME NEW k \in Listeners
            PROVE  <<k, dispatch.id>> \in owed' <=>
                      \E j \in dispatch.i .. dispatch.n : array[dispatch.topic][j] = k
        <4>1. <<k, dispatch.id>> \in owed <=>
                 k = l \/ \E j \in dispatch.i .. dispatch.n : array[dispatch.topic][j] = k
          BY <1>l, <2>3 DEF Undisturbed
        <4>2. ASSUME NEW j \in dispatch.i .. dispatch.n PROVE array[dispatch.topic][j] # l
          <5>1. j \in 1 .. length[dispatch.topic] /\ j # dispatch.i - 1
            BY <1>4, <1>7, <2>3
          <5> QED BY <1>0, <1>4, <1>7, <2>3, <5>1 DEF Lists
        <4>3. <<k, dispatch.id>> \in owed' <=> <<k, dispatch.id>> \in owed /\ k # l
          BY <1>8
        <4> QED BY <4>1, <4>2, <4>3
      <3> QED BY <1>1, <2>1, <2>2, <2>3, <3>1, Topical DEF Undisturbed
    <2>4. Handing'
      <3>1. dispatch'.i \in 1 .. dispatch'.n + 1 /\ dispatch'.n <= Len(View')
        BY <1>4, <2>1, <2>2
      <3>2. dispatch'.id \notin disturbed' => Undisturbed'
        BY <1>1, <1>4, <2>1, <2>3
      <3> QED BY <1>4, <2>1, <3>1, <3>2 DEF Handing
    <2>5. Ids'
      BY <1>0, <1>1, <1>3, <1>6, <1>8, <2>1 DEF Ids
    <2>6. repeated' \subseteq disturbed'
      BY <1>0, <1>1, <1>4, <1>7, <1>8 DEF OnceEach
    <2>7. OnceEach'
      BY <1>0, <1>1, <1>8, <2>1, <2>6 DEF OnceEach
    <2> QED BY <1>2, <1>5, <2>1, <2>4, <2>5, <2>7 DEF PubsubInv
  <1>9. CASE /\ channel[l] = "closed" /\ crashed' = TRUE
             /\ UNCHANGED <<dispatch, owed, repeated>>
    <2>1. dispatch.id \in disturbed
      BY <1>4, <1>7, <1>9
    <2>2. DispatchTyped'
      BY <1>0, <1>9 DEF DispatchTyped, Slots
    <2>3. Handing'
      BY <1>1, <1>4, <1>9, <2>1 DEF Handing, View
    <2>4. Ids'
      BY <1>0, <1>1, <1>3, <1>6, <1>9 DEF Ids
    <2>5. OnceEach'
      BY <1>0, <1>1, <1>9, <2>1 DEF OnceEach
    <2> QED BY <1>2, <1>5, <2>2, <2>3, <2>4, <2>5 DEF PubsubInv
  <1> QED BY <1>1, <1>8, <1>9

(* Somebody who is not on a list is closed.                                *)
LEMMA CloseChannelKeeps ==
    ASSUME PubsubInv, NEW l \in Listeners, CloseChannel(l)
    PROVE  PubsubInv'
  <1>0. /\ ListsTyped /\ DispatchTyped /\ ChannelsTyped /\ BusTyped
        /\ Lists /\ Handing /\ Ids /\ OnceEach
    BY DEF PubsubInv
  <1>1. /\ l \in closers /\ closers' = closers \ {l} /\ channel' = [channel EXCEPT ![l] = "closed"]
        /\ UNCHANGED <<array, length, inbox, messages, dispatch, crashed, owed, repeated, disturbed>>
    BY DEF CloseChannel, lists, bus, history
  <1>2. ListsTyped' /\ DispatchTyped' /\ ChannelsTyped' /\ BusTyped'
    BY <1>0, <1>1 DEF ListsTyped, DispatchTyped, ChannelsTyped, BusTyped, Slots
  <1>3. Lists'
    BY <1>0, <1>1 DEF Lists, ChannelsTyped
  <1>4. Handing'
    BY <1>0, <1>1 DEF Handing, Undisturbed, View, Idle
  <1>5. Ids' /\ OnceEach'
    BY <1>0, <1>1 DEF Ids, Past, OnceEach, Idle
  <1> QED BY <1>2, <1>3, <1>4, <1>5 DEF PubsubInv

LEMMA CrashKeeps ==
    ASSUME PubsubInv, TakeWhileWritten
    PROVE  PubsubInv'
  <1>0. /\ ListsTyped /\ DispatchTyped /\ ChannelsTyped /\ BusTyped
        /\ Lists /\ Handing /\ Ids /\ OnceEach
    BY DEF PubsubInv
  <1>1. /\ dispatch = Idle
        /\ UNCHANGED <<array, length, inbox, messages, dispatch, channel, closers, owed,
                       repeated, disturbed>>
    BY DEF TakeWhileWritten, Crash, lists, bus, channels, history
  <1>2. ListsTyped' /\ ChannelsTyped' /\ Lists'
    BY <1>0, <1>1, ListsStay DEF lists, channels
  <1>3. DispatchTyped' /\ BusTyped' /\ Handing' /\ Ids' /\ OnceEach'
    BY <1>0, <1>1 DEF DispatchTyped, BusTyped, Handing, Ids, Past, OnceEach, Slots, Idle
  <1> QED BY <1>2, <1>3 DEF PubsubInv

LEMMA PubsubStays ==
    ASSUME PubsubInv,
           UNCHANGED <<array, length, inbox, messages, dispatch, channel, closers, crashed,
                       owed, repeated, disturbed>>
    PROVE  PubsubInv'
  <1>0. /\ ListsTyped /\ DispatchTyped /\ ChannelsTyped /\ BusTyped
        /\ Lists /\ Handing /\ Ids /\ OnceEach
    BY DEF PubsubInv
  <1>1. ListsTyped' /\ ChannelsTyped' /\ Lists'
    BY <1>0, ListsStay DEF lists, channels
  <1>2. DispatchTyped' /\ BusTyped' /\ Ids' /\ OnceEach'
    BY <1>0 DEF DispatchTyped, BusTyped, Ids, Past, OnceEach, Slots, Idle
  <1>3. Handing'
    BY <1>0 DEF Handing, Undisturbed, View, Idle
  <1> QED BY <1>1, <1>2, <1>3 DEF PubsubInv

(***************************************************************************)
(* Filter sets                                                             *)
(***************************************************************************)

LEMMA Shortened ==
    ASSUME NEW S, NEW q \in Seq(S), q # <<>>, Distinct(q)
    PROVE  /\ Head(q) \in Members(q) /\ Tail(q) \in Seq(S) /\ Distinct(Tail(q))
           /\ Members(Tail(q)) = Members(q) \ {Head(q)}
           /\ IF Len(q) = 1 THEN Members(q) = {Head(q)} ELSE Tail(q) # <<>>
  <1>1. /\ Len(q) \in Nat /\ Len(q) >= 1 /\ DOMAIN q = 1 .. Len(q) /\ Head(q) = q[1]
        /\ Tail(q) \in Seq(S) /\ DOMAIN Tail(q) = 1 .. Len(q) - 1 /\ Len(Tail(q)) = Len(q) - 1
        /\ \A i \in 1 .. Len(q) - 1 : Tail(q)[i] = q[i + 1]
    OBVIOUS
  <1>2. Head(q) \in Members(q)
    BY <1>1 DEF Members
  <1>3. Distinct(Tail(q))
    <2>1. ASSUME NEW i \in 1 .. Len(q) - 1, NEW j \in 1 .. Len(q) - 1, Tail(q)[i] = Tail(q)[j]
          PROVE  i = j
      <3>1. i + 1 \in DOMAIN q /\ j + 1 \in DOMAIN q /\ q[i + 1] = q[j + 1]
        BY <1>1, <2>1
      <3>2. i + 1 = j + 1
        BY <3>1 DEF Distinct
      <3> QED BY <1>1, <3>2
    <2> QED BY <1>1, <2>1 DEF Distinct
  <1>4. ASSUME NEW x PROVE x \in Members(Tail(q)) <=> x \in Members(q) /\ x # Head(q)
    <2>1. ASSUME x \in Members(Tail(q)) PROVE x \in Members(q) /\ x # Head(q)
      <3>1. PICK i \in 1 .. Len(q) - 1 : x = Tail(q)[i]
        BY <1>1, <2>1 DEF Members
      <3>2. i + 1 \in DOMAIN q /\ x = q[i + 1] /\ i + 1 # 1 /\ 1 \in DOMAIN q
        BY <1>1, <3>1
      <3>3. x # q[1]
        BY <3>2 DEF Distinct
      <3> QED BY <1>1, <3>2, <3>3 DEF Members
    <2>2. ASSUME x \in Members(q), x # Head(q) PROVE x \in Members(Tail(q))
      <3>1. PICK i \in 1 .. Len(q) : x = q[i]
        BY <1>1, <2>2 DEF Members
      <3>2. i - 1 \in 1 .. Len(q) - 1 /\ (i - 1) + 1 = i
        BY <1>1, <2>2, <3>1
      <3>3. x = Tail(q)[i - 1]
        BY <1>1, <3>1, <3>2
      <3> QED BY <1>1, <3>2, <3>3 DEF Members
    <2> QED BY <2>1, <2>2
  <1>5. Len(q) = 1 => Members(q) = {Head(q)}
    BY <1>1 DEF Members
  <1>6. Len(q) # 1 => Tail(q) # <<>>
    BY <1>1
  <1> QED BY <1>1, <1>2, <1>3, <1>4, <1>5, <1>6

LEMMA Ordered ==
    ASSUME NEW s \in Sets
    PROVE  /\ InOrder(s) \in Seq(Listeners) /\ InOrder(s) # <<>>
           /\ Distinct(InOrder(s)) /\ Members(InOrder(s)) = Own(s)
  <1>1. /\ Hellban[s] \in Listeners \cup {None} /\ Count[s] \in Listeners \cup {None}
        /\ Hellban[s] # Count[s] /\ None \notin Listeners
    BY PubsubAssumption, CounterAssumption
  <1>2. CASE Hellban[s] = None
    <2>1. InOrder(s) = <<Count[s]>>
      BY <1>1, <1>2 DEF InOrder
    <2> QED BY <1>1, <1>2, <2>1 DEF Distinct, Members, Own
  <1>3. CASE Hellban[s] # None /\ Count[s] = None
    <2>1. InOrder(s) = <<Hellban[s]>>
      BY <1>1, <1>3 DEF InOrder
    <2> QED BY <1>1, <1>3, <2>1 DEF Distinct, Members, Own
  <1>4. CASE Hellban[s] # None /\ Count[s] # None
    <2>1. InOrder(s) = <<Hellban[s]>> \o <<Count[s]>>
      BY <1>4 DEF InOrder
    <2>2. /\ InOrder(s) \in Seq(Listeners) /\ Len(InOrder(s)) = 2
          /\ InOrder(s)[1] = Hellban[s] /\ InOrder(s)[2] = Count[s]
      BY <1>1, <1>4, <2>1
    <2>3. DOMAIN InOrder(s) = {1, 2}
      BY <2>2
    <2>4. PICK q : q = InOrder(s)
      OBVIOUS
    <2>a. Len(q) = 2 /\ DOMAIN q = {1, 2} /\ q[1] # q[2]
      BY <1>1, <2>2, <2>3, <2>4
    <2>5. q # <<>> /\ Distinct(q)
      <3>1. q # <<>>
        BY <2>a
      <3>2. Distinct(q)
        BY <2>a DEF Distinct
      <3> QED BY <3>1, <3>2
    <2>6. Members(q) = {q[1], q[2]}
      BY <2>3, <2>4 DEF Members
    <2>7. Own(s) = {q[1], q[2]}
      BY <1>1, <1>4, <2>2, <2>4 DEF Own
    <2> QED BY <2>2, <2>4, <2>5, <2>6, <2>7
  <1> QED BY <1>2, <1>3, <1>4

LEMMA OwnApart ==
    /\ \A s \in Sets : Own(s) \subseteq Listeners /\ Own(s) \cap Permanent = {}
    /\ \A s, t \in Sets : s # t => Own(s) \cap Own(t) = {}
  BY CounterAssumption DEF Own

(* A set that a step leaves alone, with its listeners.                     *)
LEMMA OwnedStays ==
    ASSUME NEW s \in Sets, Owned(s), phase'[s] = phase[s], todo'[s] = todo[s],
           \A l \in Own(s) : /\ Fresh(l) => Fresh(l)'
                             /\ InList(l) => InList(l)'
                             /\ Ended(l) => Ended(l)'
    PROVE  Owned(s)'
  BY DEF Owned

LEMMA SetsStay ==
    ASSUME FilterSetsInv, UNCHANGED <<lists, channels, phase, todo, hasty>>
    PROVE  FilterSetsInv'
  <1>1. ASSUME NEW s \in Sets PROVE Owned(s)'
    <2>1. Owned(s)
      BY DEF FilterSetsInv
    <2>2. \A l \in Own(s) : /\ Fresh(l) => Fresh(l)'
                            /\ InList(l) => InList(l)'
                            /\ Ended(l) => Ended(l)'
      BY DEF Fresh, InList, Ended, lists, channels
    <2> QED BY <2>1, <2>2, OwnedStays
  <1> QED BY <1>1 DEF FilterSetsInv, FilterSetsTyped

LEMMA CloseChannelSets ==
    ASSUME PubsubInv, FilterSetsInv, NEW l \in Listeners, CloseChannel(l), UNCHANGED filterSets
    PROVE  FilterSetsInv'
  <1>1. /\ l \in closers /\ closers' = closers \ {l} /\ channel' = [channel EXCEPT ![l] = "closed"]
        /\ UNCHANGED <<array, length, phase, todo, hasty>>
    BY DEF CloseChannel, lists, filterSets
  <1>2. ChannelsTyped
    BY DEF PubsubInv
  <1>3. ASSUME NEW s \in Sets PROVE Owned(s)'
    <2>1. Owned(s)
      BY DEF FilterSetsInv
    <2>2. ASSUME NEW k \in Own(s) PROVE (Fresh(k) => Fresh(k)') /\ (InList(k) => InList(k)') /\ (Ended(k) => Ended(k)')
      <3>1. k \in Listeners
        BY OwnApart
      <3> QED BY <1>1, <1>2, <3>1 DEF Fresh, InList, Ended, ChannelsTyped
    <2> QED BY <1>1, <2>1, <2>2, OwnedStays
  <1> QED BY <1>1, <1>3 DEF FilterSetsInv, FilterSetsTyped

LEMMA NewSetKeeps ==
    ASSUME FilterSetsInv, NEW s \in Sets, NewSet(s)
    PROVE  FilterSetsInv'
  <1>1. /\ phase[s] = "none" /\ phase' = [phase EXCEPT ![s] = "making"]
        /\ todo' = [todo EXCEPT ![s] = InOrder(s)] /\ UNCHANGED <<lists, channels, hasty>>
    BY DEF NewSet, pubsub
  <1>2. FilterSetsTyped'
    BY <1>1, Ordered DEF FilterSetsInv, FilterSetsTyped
  <1>3. phase'[s] = "making" /\ todo'[s] = InOrder(s)
    BY <1>1 DEF FilterSetsInv, FilterSetsTyped
  <1>4. \A l : (Fresh(l) => Fresh(l)') /\ (InList(l) => InList(l)') /\ (Ended(l) => Ended(l)')
    BY <1>1 DEF Fresh, InList, Ended, lists, channels
  <1>5. Owned(s)'
    <2>1. \A l \in Own(s) : Fresh(l)'
      BY <1>1, <1>4 DEF FilterSetsInv, Owned
    <2> QED BY <1>3, <2>1, Ordered DEF Owned
  <1>6. ASSUME NEW r \in Sets \ {s} PROVE Owned(r)'
    <2>1. phase'[r] = phase[r] /\ todo'[r] = todo[r] /\ Owned(r)
      BY <1>1 DEF FilterSetsInv, FilterSetsTyped
    <2> QED BY <1>4, <2>1, OwnedStays
  <1> QED BY <1>2, <1>5, <1>6 DEF FilterSetsInv

LEMMA CloseSetKeeps ==
    ASSUME FilterSetsInv, NEW s \in Sets, CloseSet(s)
    PROVE  FilterSetsInv'
  <1>1. /\ phase[s] = "open" /\ phase' = [phase EXCEPT ![s] = "closing"]
        /\ todo' = [todo EXCEPT ![s] = InOrder(s)] /\ UNCHANGED <<lists, channels, hasty>>
    BY DEF CloseSet, pubsub
  <1>2. FilterSetsTyped'
    BY <1>1, Ordered DEF FilterSetsInv, FilterSetsTyped
  <1>3. phase'[s] = "closing" /\ todo'[s] = InOrder(s)
    BY <1>1 DEF FilterSetsInv, FilterSetsTyped
  <1>4. \A l : (Fresh(l) => Fresh(l)') /\ (InList(l) => InList(l)') /\ (Ended(l) => Ended(l)')
    BY <1>1 DEF Fresh, InList, Ended, lists, channels
  <1>5. Owned(s)'
    <2>1. \A l \in Own(s) : InList(l)'
      BY <1>1, <1>4 DEF FilterSetsInv, Owned
    <2> QED BY <1>3, <2>1, Ordered DEF Owned
  <1>6. ASSUME NEW r \in Sets \ {s} PROVE Owned(r)'
    <2>1. phase'[r] = phase[r] /\ todo'[r] = todo[r] /\ Owned(r)
      BY <1>1 DEF FilterSetsInv, FilterSetsTyped
    <2> QED BY <1>4, <2>1, OwnedStays
  <1> QED BY <1>2, <1>5, <1>6 DEF FilterSetsInv

LEMMA MakeFilterKeeps ==
    ASSUME PubsubInv, FilterSetsInv, NEW s \in Sets, MakeFilter(s)
    PROVE  PubsubInv' /\ FilterSetsInv'
  <1>0. FilterSetsTyped /\ \A r \in Sets : Owned(r)
    BY DEF FilterSetsInv
  <1>1. phase[s] = "making" /\ hasty' = hasty
    BY DEF MakeFilter
  <1>l. PICK l : l = Head(todo[s])
    OBVIOUS
  <1>2. /\ todo[s] \in Seq(Listeners) /\ todo[s] # <<>> /\ Distinct(todo[s])
        /\ Members(todo[s]) \subseteq Own(s)
        /\ \A k \in Own(s) : IF k \in Members(todo[s]) THEN Fresh(k) ELSE InList(k)
    BY <1>0, <1>1 DEF FilterSetsTyped, Owned
  <1>3. /\ l \in Members(todo[s]) /\ Tail(todo[s]) \in Seq(Listeners) /\ Distinct(Tail(todo[s]))
        /\ Members(Tail(todo[s])) = Members(todo[s]) \ {l}
        /\ IF Len(todo[s]) = 1 THEN Members(todo[s]) = {l} ELSE Tail(todo[s]) # <<>>
    BY <1>l, <1>2, Shortened
  <1>4. l \in Own(s) /\ l \in Listeners /\ Fresh(l)
    BY <1>2, <1>3, OwnApart
  <1>5. CASE Subscribe(l) /\ Advance(s, "open")
    <2>1. PubsubInv' /\ InList(l)' /\ \A k \in Listeners : InList(k) => InList(k)'
      BY <1>4, <1>5, SubscribeKeeps
    <2>2. channel' = [channel EXCEPT ![l] = "open"] /\ closers' = closers
      BY <1>5 DEF Subscribe
    <2>3. ASSUME NEW k \in Listeners, k # l
          PROVE  (Fresh(k) => Fresh(k)') /\ (InList(k) => InList(k)') /\ (Ended(k) => Ended(k)')
      BY <1>1, <2>1, <2>2, <2>3 DEF Fresh, Ended, PubsubInv, ChannelsTyped
    <2>4. /\ todo' = [todo EXCEPT ![s] = Tail(todo[s])]
          /\ phase' = IF Len(todo[s]) = 1 THEN [phase EXCEPT ![s] = "open"] ELSE phase
      BY <1>5 DEF Advance
    <2>5. FilterSetsTyped' /\ todo'[s] = Tail(todo[s])
          /\ phase'[s] = IF Len(todo[s]) = 1 THEN "open" ELSE "making"
      BY <1>0, <1>1, <1>3, <2>4 DEF FilterSetsTyped
    <2>6. ASSUME NEW r \in Sets \ {s} PROVE Owned(r)'
      <3>1. phase'[r] = phase[r] /\ todo'[r] = todo[r] /\ Owned(r)
        BY <1>0, <2>4 DEF FilterSetsTyped
      <3>2. \A k \in Own(r) : k \in Listeners /\ k # l
        BY <1>4, OwnApart
      <3> QED BY <2>3, <3>1, <3>2, OwnedStays
    <2>7. Owned(s)'
      <3>1. \A k \in Own(s) : k \in Listeners
        BY OwnApart
      <3>2. CASE Len(todo[s]) = 1
        <4>1. \A k \in Own(s) : InList(k)'
          BY <1>2, <1>3, <2>1, <3>1, <3>2
        <4> QED BY <2>5, <3>2, <4>1 DEF Owned
      <3>3. CASE Len(todo[s]) # 1
        <4>1. \A k \in Own(s) : IF k \in Members(Tail(todo[s])) THEN Fresh(k)' ELSE InList(k)'
          BY <1>2, <1>3, <2>1, <2>3, <3>1
        <4>2. Tail(todo[s]) # <<>> /\ Members(Tail(todo[s])) \subseteq Own(s)
          BY <1>2, <1>3, <3>3
        <4> QED BY <1>3, <2>5, <3>3, <4>1, <4>2 DEF Owned
      <3> QED BY <3>2, <3>3
    <2> QED BY <2>1, <2>5, <2>6, <2>7 DEF FilterSetsInv
  <1>6. CASE TakeWhileWritten /\ UNCHANGED <<phase, todo>>
    <2>1. UNCHANGED <<lists, channels>>
      BY <1>6 DEF TakeWhileWritten, Crash
    <2>2. FilterSetsInv'
      BY <1>1, <1>6, <2>1, SetsStay
    <2> QED BY <1>6, <2>2, CrashKeeps
  <1> QED BY <1>l, <1>5, <1>6 DEF MakeFilter

LEMMA MakeFailsKeeps ==
    ASSUME FilterSetsInv, NEW s \in Sets, MakeFails(s)
    PROVE  FilterSetsInv'
  <1>1. /\ phase' = [phase EXCEPT ![s] = "failed"] /\ todo' = [todo EXCEPT ![s] = <<>>]
        /\ UNCHANGED <<lists, channels, hasty>>
    BY DEF MakeFails, SubscribeFails, pubsub
  <1>2. FilterSetsTyped' /\ phase'[s] = "failed"
    BY <1>1 DEF FilterSetsInv, FilterSetsTyped
  <1>3. \A l : (Fresh(l) => Fresh(l)') /\ (InList(l) => InList(l)') /\ (Ended(l) => Ended(l)')
    BY <1>1 DEF Fresh, InList, Ended, lists, channels
  <1>4. Owned(s)'
    BY <1>2 DEF Owned
  <1>5. ASSUME NEW r \in Sets \ {s} PROVE Owned(r)'
    <2>1. phase'[r] = phase[r] /\ todo'[r] = todo[r] /\ Owned(r)
      BY <1>1 DEF FilterSetsInv, FilterSetsTyped
    <2> QED BY <1>3, <2>1, OwnedStays
  <1> QED BY <1>2, <1>4, <1>5 DEF FilterSetsInv

LEMMA CloseFilterKeeps ==
    ASSUME PubsubInv, FilterSetsInv, NEW s \in Sets, CloseFilter(s)
    PROVE  PubsubInv' /\ FilterSetsInv'
  <1>0. FilterSetsTyped /\ \A r \in Sets : Owned(r)
    BY DEF FilterSetsInv
  <1>1. phase[s] = "closing"
    BY DEF CloseFilter
  <1>l. PICK l : l = Head(todo[s])
    OBVIOUS
  <1>2. /\ todo[s] \in Seq(Listeners) /\ todo[s] # <<>> /\ Distinct(todo[s])
        /\ Members(todo[s]) \subseteq Own(s)
        /\ \A k \in Own(s) : IF k \in Members(todo[s]) THEN InList(k) ELSE Ended(k)
    BY <1>0, <1>1 DEF FilterSetsTyped, Owned
  <1>3. /\ l \in Members(todo[s]) /\ Tail(todo[s]) \in Seq(Listeners) /\ Distinct(Tail(todo[s]))
        /\ Members(Tail(todo[s])) = Members(todo[s]) \ {l}
        /\ IF Len(todo[s]) = 1 THEN Members(todo[s]) = {l} ELSE Tail(todo[s]) # <<>>
    BY <1>l, <1>2, Shortened
  <1>4. l \in Own(s) /\ l \in Listeners /\ InList(l)
    BY <1>2, <1>3, OwnApart
  <1>5. \/ Unsubscribe(l) /\ Advance(s, "closed") /\ hasty' = hasty
        \/ TakeWhileWritten /\ UNCHANGED <<phase, todo, hasty>>
        \/ hasty' = hasty \cup {l} /\ Advance(s, "closed") /\ UNCHANGED pubsub
    BY <1>l DEF CloseFilter
  <1>6. ASSUME PubsubInv', Advance(s, "closed"), Ended(l)',
               \A k \in Listeners \ {l} : /\ Fresh(k) => Fresh(k)'
                                          /\ InList(k) => InList(k)'
                                          /\ Ended(k) => Ended(k)'
        PROVE  FilterSetsInv'
    <2>4. /\ todo' = [todo EXCEPT ![s] = Tail(todo[s])]
          /\ phase' = IF Len(todo[s]) = 1 THEN [phase EXCEPT ![s] = "closed"] ELSE phase
      BY <1>6 DEF Advance
    <2>5. FilterSetsTyped' /\ todo'[s] = Tail(todo[s])
          /\ phase'[s] = IF Len(todo[s]) = 1 THEN "closed" ELSE "closing"
      BY <1>0, <1>1, <1>3, <2>4 DEF FilterSetsTyped
    <2>6. ASSUME NEW r \in Sets \ {s} PROVE Owned(r)'
      <3>1. phase'[r] = phase[r] /\ todo'[r] = todo[r] /\ Owned(r)
        BY <1>0, <2>4 DEF FilterSetsTyped
      <3>2. \A k \in Own(r) : k \in Listeners \ {l}
        BY <1>4, OwnApart
      <3> QED BY <1>6, <3>1, <3>2, OwnedStays
    <2>7. Owned(s)'
      <3>1. \A k \in Own(s) : k \in Listeners
        BY OwnApart
      <3>2. CASE Len(todo[s]) = 1
        <4>1. \A k \in Own(s) : Ended(k)'
          BY <1>2, <1>3, <1>6, <3>1, <3>2
        <4> QED BY <2>5, <3>2, <4>1 DEF Owned
      <3>3. CASE Len(todo[s]) # 1
        <4>1. \A k \in Own(s) : IF k \in Members(Tail(todo[s])) THEN InList(k)' ELSE Ended(k)'
          BY <1>2, <1>3, <1>6, <3>1
        <4>2. Tail(todo[s]) # <<>> /\ Members(Tail(todo[s])) \subseteq Own(s)
          BY <1>2, <1>3, <3>3
        <4> QED BY <1>3, <2>5, <3>3, <4>1, <4>2 DEF Owned
      <3> QED BY <3>2, <3>3
    <2> QED BY <2>5, <2>6, <2>7 DEF FilterSetsInv
  <1>7. CASE Unsubscribe(l) /\ Advance(s, "closed") /\ hasty' = hasty
    <2>1. PubsubInv' /\ \A k \in Listeners \ {l} : InList(k) => InList(k)'
      BY <1>4, <1>7, UnsubscribeKeeps
    <2>2. closers' = closers \cup {l} /\ channel' = channel
      BY <1>7 DEF Unsubscribe
    <2>3. Ended(l)' /\ \A k \in Listeners \ {l} : (Fresh(k) => Fresh(k)') /\ (Ended(k) => Ended(k)')
      BY <1>7, <2>2 DEF Ended, Fresh
    <2> QED BY <1>6, <1>7, <2>1, <2>3
  <1>8. CASE TakeWhileWritten /\ UNCHANGED <<phase, todo, hasty>>
    <2>1. UNCHANGED <<lists, channels>>
      BY <1>8 DEF TakeWhileWritten, Crash
    <2>2. FilterSetsInv'
      BY <1>8, <2>1, SetsStay
    <2> QED BY <1>8, <2>2, CrashKeeps
  <1>9. CASE hasty' = hasty \cup {l} /\ Advance(s, "closed") /\ UNCHANGED pubsub
    <2>1. PubsubInv'
      BY <1>9, PubsubStays DEF pubsub, lists, bus, channels, history
    <2>2. Ended(l)'
      BY <1>9 DEF Ended
    <2>3. \A k \in Listeners \ {l} : /\ Fresh(k) => Fresh(k)'
                                     /\ InList(k) => InList(k)'
                                     /\ Ended(k) => Ended(k)'
      BY <1>9 DEF Fresh, InList, Ended, pubsub, lists, channels
    <2> QED BY <1>6, <1>9, <2>1, <2>2, <2>3
  <1> QED BY <1>5, <1>7, <1>8, <1>9

(***************************************************************************)
(* The specification                                                       *)
(***************************************************************************)

LEMMA InitEstablishes == Init => Inv
  <1> SUFFICES ASSUME Init PROVE Inv
    OBVIOUS
  <1>1. /\ array = [t \in Topics |-> ListOf(t)] /\ length = [t \in Topics |-> Len(ListOf(t))]
        /\ inbox = <<>> /\ messages = 0 /\ dispatch = Idle
        /\ channel = [l \in Listeners |-> IF l \in Permanent THEN "open" ELSE "none"]
        /\ closers = {} /\ crashed = FALSE /\ owed = {} /\ repeated = {} /\ disturbed = {}
        /\ phase = [s \in Sets |-> "none"] /\ todo = [s \in Sets |-> <<>>]
        /\ step = [k \in Checks |-> "idle"] /\ in = [k \in Checks |-> None]
    BY DEF Init, PubsubInit
  <1>2. ASSUME NEW t \in Topics
        PROVE  /\ ListOf(t) \in Seq(Slots) /\ Len(ListOf(t)) \in {0, 1}
               /\ Len(ListOf(t)) = 1 => ListOf(t)[1] \in Permanent /\ TopicOf[ListOf(t)[1]] = t
    <2>1. CASE \E l \in Permanent : TopicOf[l] = t
      <3>1. PICK l : l = CHOOSE k \in Permanent : TopicOf[k] = t
        OBVIOUS
      <3>2. l \in Permanent /\ TopicOf[l] = t
        BY <2>1, <3>1
      <3>3. l \in Slots
        BY <3>2, PubsubAssumption DEF Slots
      <3>4. ListOf(t) = <<l>>
        BY <2>1, <3>1 DEF ListOf
      <3> QED BY <3>2, <3>3, <3>4
    <2>2. CASE ~\E l \in Permanent : TopicOf[l] = t
      BY <2>2 DEF ListOf
    <2> QED BY <2>1, <2>2
  <1>3. ListsTyped
    BY <1>1, <1>2 DEF ListsTyped
  <1>4. DispatchTyped /\ ChannelsTyped /\ BusTyped
    <2>1. DispatchTyped
      BY <1>1 DEF DispatchTyped, Idle, Slots
    <2>2. ChannelsTyped /\ BusTyped
      BY <1>1 DEF ChannelsTyped, BusTyped
    <2> QED BY <2>1, <2>2
  <1>5. Lists
    <2> SUFFICES ASSUME NEW t \in Topics
                 PROVE  /\ \A j \in 1 .. length[t] :
                              /\ array[t][j] \in Listeners /\ TopicOf[array[t][j]] = t
                              /\ channel[array[t][j]] = "open" /\ array[t][j] \notin closers
                        /\ \A i, j \in 1 .. length[t] : array[t][i] = array[t][j] => i = j
      BY DEF Lists
    <2>1. array[t] = ListOf(t) /\ length[t] = Len(ListOf(t))
      BY <1>1
    <2>2. \A j \in 1 .. length[t] : j = 1 /\ Len(ListOf(t)) = 1
      <3>1. length[t] = 0 \/ length[t] = 1
        BY <1>2, <2>1
      <3>2. CASE length[t] = 0
        BY <3>2
      <3>3. CASE length[t] = 1
        BY <2>1, <3>3
      <3> QED BY <3>1, <3>2, <3>3
    <2> QED BY <1>1, <1>2, <2>1, <2>2, PubsubAssumption
  <1>6. Handing /\ Ids /\ OnceEach
    <2>1. DOMAIN inbox = {}
      BY <1>1
    <2> QED BY <1>1, <2>1 DEF Handing, Ids, OnceEach
  <1>7. FilterSetsInv
    <2>1. ASSUME NEW s \in Sets PROVE Owned(s)
      <3>1. phase[s] = "none"
        BY <1>1
      <3>2. \A l \in Own(s) : Fresh(l)
        BY <1>1, OwnApart DEF Fresh
      <3> QED BY <3>1, <3>2 DEF Owned
    <2>2. FilterSetsTyped
      BY <1>1 DEF FilterSetsTyped
    <2> QED BY <2>1, <2>2 DEF FilterSetsInv
  <1>8. ChecksInv
    BY <1>1 DEF ChecksInv
  <1> QED BY <1>3, <1>4, <1>5, <1>6, <1>7, <1>8 DEF Inv, PubsubInv

LEMMA NotifyKeeps ==
    ASSUME PubsubInv, FilterSetsInv, NEW t \in Topics, Notify(t), UNCHANGED filterSets
    PROVE  PubsubInv' /\ FilterSetsInv'
  <1>1. Publish(t)
    BY DEF Notify
  <1>2. UNCHANGED <<lists, channels, phase, todo, hasty>>
    BY <1>1 DEF Publish, filterSets
  <1> QED BY <1>1, <1>2, PublishKeeps, SetsStay

LEMMA PubsubUnchanged ==
    ASSUME PubsubInv, FilterSetsInv, UNCHANGED <<pubsub, phase, todo, hasty>>
    PROVE  PubsubInv' /\ FilterSetsInv'
  <1>1. UNCHANGED <<lists, channels>>
    BY DEF pubsub
  <1> QED BY <1>1, PubsubStays, SetsStay DEF pubsub, lists, bus, channels, history

LEMMA ReadersKeep ==
    ASSUME PubsubInv, FilterSetsInv, UNCHANGED filterSets, NEW l \in Listeners,
           Handle(l) \/ StartReading(l) \/ SendClosing(l)
    PROVE  PubsubInv' /\ FilterSetsInv'
  <1>1. UNCHANGED <<lists, bus, dispatch, channels, crashed, history>>
    BY DEF Handle, StartReading, SendClosing
  <1>2. PubsubInv'
    BY <1>1, PubsubStays DEF lists, bus, channels, history
  <1>3. FilterSetsInv'
    BY <1>1, SetsStay DEF filterSets
  <1> QED BY <1>2, <1>3

LEMMA DispatcherKeeps ==
    ASSUME PubsubInv, FilterSetsInv, ~crashed, Dispatcher, UNCHANGED filterSets
    PROVE  PubsubInv' /\ FilterSetsInv'
  <1>1. UNCHANGED <<lists, channels, phase, todo, hasty>>
    BY DEF Dispatcher, Take, Pick, Send, Crash, filterSets
  <1>2. FilterSetsInv'
    BY <1>1, SetsStay
  <1> QED BY <1>2, TakeKeeps, PickKeeps, SendKeeps DEF Dispatcher

LEMMA ChecksStay ==
    ASSUME ChecksInv, UNCHANGED <<step, in>>
    PROVE  ChecksInv'
  BY DEF ChecksInv

LEMMA BeginKeeps ==
    ASSUME ChecksInv, NEW k \in Checks, NEW s \in Sets, Begin(k, s)
    PROVE  ChecksInv'
  BY DEF ChecksInv, Begin, Goto

LEMMA CheckKeeps ==
    ASSUME PubsubInv, FilterSetsInv, ChecksInv, NEW k \in Checks, Check(k)
    PROVE  PubsubInv' /\ FilterSetsInv' /\ ChecksInv'
  <1>1. CASE Increment(k)
    <2>1. in[k] \in Sets /\ Count[in[k]] \in Listeners
      BY <1>1, CounterAssumption DEF Increment, ChecksInv
    <2>2. TopicOf[Counted(k)] \in Topics
      BY <2>1, Topical DEF Counted
    <2>3. ChecksInv'
      BY <1>1 DEF Increment, Goto, ChecksInv
    <2>4. UNCHANGED filterSets
      BY <1>1 DEF Increment
    <2>5. CASE Notify(TopicOf[Counted(k)])
      BY <2>2, <2>3, <2>4, <2>5, NotifyKeeps
    <2>6. CASE UNCHANGED pubsub
      BY <2>3, <2>4, <2>6, PubsubUnchanged DEF filterSets
    <2> QED BY <1>1, <2>5, <2>6 DEF Increment
  <1>2. CASE GetCount(k)
    <2>1. ChecksInv'
      BY <1>2 DEF GetCount, Compare, Goto, ChecksInv
    <2>2. UNCHANGED <<pubsub, phase, todo, hasty>>
      BY <1>2 DEF GetCount, Compare, filterSets
    <2> QED BY <2>1, <2>2, PubsubUnchanged
  <1> QED BY <1>1, <1>2 DEF Check

LEMMA NextKeeps == Inv /\ [Next]_vars => Inv'
  <1> SUFFICES ASSUME PubsubInv, FilterSetsInv, ChecksInv, [Next]_vars
               PROVE  PubsubInv' /\ FilterSetsInv' /\ ChecksInv'
    BY DEF Inv
  <1>1. ASSUME NEW s \in Sets, NewSet(s) PROVE PubsubInv' /\ FilterSetsInv' /\ ChecksInv'
    <2>1. UNCHANGED <<pubsub, checks>>
      BY <1>1 DEF NewSet
    <2>2. PubsubInv'
      BY <2>1, PubsubStays DEF pubsub, lists, bus, channels, history
    <2> QED BY <1>1, <2>1, <2>2, NewSetKeeps, ChecksStay DEF checks
  <1>2. ASSUME NEW s \in Sets, MakeFilter(s) PROVE PubsubInv' /\ FilterSetsInv' /\ ChecksInv'
    <2>1. UNCHANGED checks
      BY <1>2 DEF MakeFilter
    <2> QED BY <1>2, <2>1, MakeFilterKeeps, ChecksStay DEF checks
  <1>3. ASSUME NEW s \in Sets, MakeFails(s) PROVE PubsubInv' /\ FilterSetsInv' /\ ChecksInv'
    <2>1. UNCHANGED checks
      BY <1>3 DEF MakeFails
    <2>2. UNCHANGED <<lists, bus, dispatch, channels, crashed, history>>
      BY <1>3 DEF MakeFails, SubscribeFails, pubsub
    <2>3. PubsubInv'
      BY <2>2, PubsubStays DEF lists, bus, channels, history
    <2> QED BY <1>3, <2>1, <2>3, MakeFailsKeeps, ChecksStay DEF checks
  <1>4. ASSUME NEW s \in Sets, CloseSet(s) PROVE PubsubInv' /\ FilterSetsInv' /\ ChecksInv'
    <2>1. UNCHANGED <<pubsub, checks>>
      BY <1>4 DEF CloseSet
    <2>2. PubsubInv'
      BY <2>1, PubsubStays DEF pubsub, lists, bus, channels, history
    <2> QED BY <1>4, <2>1, <2>2, CloseSetKeeps, ChecksStay DEF checks
  <1>5. ASSUME NEW s \in Sets, CloseFilter(s) PROVE PubsubInv' /\ FilterSetsInv' /\ ChecksInv'
    <2>1. UNCHANGED checks
      BY <1>5 DEF CloseFilter
    <2> QED BY <1>5, <2>1, CloseFilterKeeps, ChecksStay DEF checks
  <1>6. ASSUME NEW s \in Sets, CleanUp(s) PROVE PubsubInv' /\ FilterSetsInv' /\ ChecksInv'
    <2>1. UNCHANGED <<pubsub, filterSets, checks>>
      BY <1>6 DEF CleanUp
    <2> QED BY <2>1, PubsubUnchanged, ChecksStay DEF filterSets, checks
  <1>7. ASSUME NEW l \in Listeners, Receive(l) PROVE PubsubInv' /\ FilterSetsInv' /\ ChecksInv'
    <2>1. Handle(l) /\ UNCHANGED <<filterSets, checks>>
      BY <1>7 DEF Receive
    <2> QED BY <2>1, ReadersKeep, ChecksStay DEF checks
  <1>8. ASSUME NEW l \in Listeners, StartReading(l) \/ SendClosing(l) \/ CloseChannel(l),
               UNCHANGED <<filterSets, counts, checks>>
        PROVE  PubsubInv' /\ FilterSetsInv' /\ ChecksInv'
    <2>1. ChecksInv'
      BY <1>8, ChecksStay DEF checks
    <2>2. CASE CloseChannel(l)
      BY <1>8, <2>1, <2>2, CloseChannelKeeps, CloseChannelSets
    <2>3. CASE StartReading(l) \/ SendClosing(l)
      BY <1>8, <2>1, <2>3, ReadersKeep
    <2> QED BY <1>8, <2>2, <2>3
  <1>9. ASSUME ~crashed, Dispatcher, UNCHANGED <<filterSets, counts, checks>>
        PROVE  PubsubInv' /\ FilterSetsInv' /\ ChecksInv'
    BY <1>9, DispatcherKeeps, ChecksStay DEF checks
  <1>10. ASSUME NEW t \in {TopicOf[l] : l \in Listeners \ Counters}, Notify(t),
                UNCHANGED <<filterSets, values, now, checks>>
         PROVE  PubsubInv' /\ FilterSetsInv' /\ ChecksInv'
    <2>1. t \in Topics
      BY Topical
    <2> QED BY <1>10, <2>1, NotifyKeeps, ChecksStay DEF checks
  <1>11. ASSUME NEW k \in Checks, NEW s \in Sets, Begin(k, s)
         PROVE  PubsubInv' /\ FilterSetsInv' /\ ChecksInv'
    <2>1. UNCHANGED <<pubsub, filterSets>>
      BY <1>11 DEF Begin
    <2> QED BY <1>11, <2>1, PubsubUnchanged, BeginKeeps DEF filterSets
  <1>12. ASSUME NEW k \in Checks, Check(k) PROVE PubsubInv' /\ FilterSetsInv' /\ ChecksInv'
    BY <1>12, CheckKeeps
  <1>13. ASSUME Tick PROVE PubsubInv' /\ FilterSetsInv' /\ ChecksInv'
    <2>1. UNCHANGED <<pubsub, filterSets, checks>>
      BY <1>13 DEF Tick
    <2> QED BY <2>1, PubsubUnchanged, ChecksStay DEF filterSets, checks
  <1>14. ASSUME UNCHANGED vars PROVE PubsubInv' /\ FilterSetsInv' /\ ChecksInv'
    <2>1. UNCHANGED <<pubsub, filterSets, checks>>
      BY <1>14 DEF vars
    <2> QED BY <2>1, PubsubUnchanged, ChecksStay DEF filterSets, checks
  <1> QED
    BY <1>1, <1>2, <1>3, <1>4, <1>5, <1>6, <1>7, <1>8, <1>9, <1>10, <1>11, <1>12, <1>13, <1>14
    DEF Next

LEMMA InvAlways == Spec => []Inv
  BY InitEstablishes, NextKeeps, PTL DEF Spec

(* A notification reaches everybody who is on its topic's list when it is  *)
(* taken, once, and the dispatcher survives, unless a listener of that     *)
(* topic is unsubscribed while it is handed out, or a list is written      *)
(* while it is looked up: for any number of listeners that come and go.    *)
(* psql.go:46-52, psql.go:97-112                                           *)
THEOREM HandedOutOnce == Spec => []OnceEach
  <1>1. Inv => OnceEach
    BY DEF Inv, PubsubInv
  <1> QED BY <1>1, InvAlways, PTL

(* No goroutine is left reading for a filter set that was closed, except   *)
(* that of a counter which was closed before the goroutine began.          *)
(* set.go:64, counter.go:126-131                                           *)
THEOREM OnlyKnownLeaks == Spec => []LeaksAreKnown
  <1>1. Inv => LeaksAreKnown
    <2> SUFFICES ASSUME FilterSetsTyped, NEW s \in Sets, Owned(s), NEW l \in Own(s),
                        channel[l] = "open", l \notin closers,
                        phase[s] \notin {"making", "failed", "open", "closing"}
                 PROVE  l \in hasty
      BY DEF Inv, FilterSetsInv, LeaksAreKnown
    <2>1. phase[s] \in {"none", "closed"}
      BY DEF FilterSetsTyped
    <2> QED BY <2>1 DEF Owned, Fresh, Ended
  <1> QED BY <1>1, InvAlways, PTL

(***************************************************************************)
(* What the counters have kept                                             *)
(*                                                                         *)
(* A counter has its topic to itself, so a list of one is handed out to,   *)
(* and a notification comes to the counter once (Once).  Until it does, it *)
(* is in the inbox, or owed to the counter, unless it was missed or the    *)
(* counter is being closed (Lossless).                                     *)
(***************************************************************************)

Left(l) == l \in closers \/ reader[l] = "gone"
Kept(l) == Members(values[l])
Received(l) == Kept(l) \cup ({holds[l]} \ {0})

CountsTyped ==
    /\ messages <= MaxMessages
    /\ reader \in [Listeners -> {"off", "new", "ready", "busy", "gone"}]
    /\ holds \in [Listeners -> Nat]
    /\ \A l \in Listeners : holds[l] <= messages
    /\ crashed \in BOOLEAN
    /\ missed \subseteq 1 .. messages
    /\ values \in [Counters -> Seq(Nat)]
    /\ now \in 0 .. MaxTime
    /\ sent \in [1 .. MaxMessages -> [topic : Topics \cup {None}, time : 0 .. MaxTime]]

(* Whoever is in a slot, or is being sent to, is of that topic; every      *)
(* notification carries the topic it was published on, that of a list.     *)
Placed ==
    /\ \A t \in Topics : \A k \in Members(array[t]) \cap Listeners : TopicOf[k] = t
    /\ \A k \in Members(dispatch.own) \cap Listeners : TopicOf[k] = dispatch.topic
    /\ dispatch.to # None => TopicOf[dispatch.to] = dispatch.topic /\ dispatch.i >= 2
    /\ \A k \in DOMAIN inbox : /\ sent[inbox[k].id].topic = inbox[k].topic
                               /\ array[inbox[k].topic] # <<>>
    /\ dispatch # Idle => sent[dispatch.id].topic = dispatch.topic

Readers ==
    \A l \in Listeners :
        /\ reader[l] = "busy" <=> holds[l] # 0
        /\ reader[l] \in {"busy", "gone"} => channel[l] # "none"
        /\ l \in closers => channel[l] = "open"

Once(l) ==
    /\ Distinct(values[l]) /\ holds[l] \notin Kept(l)
    /\ \A n \in Received(l) : Past(n) /\ sent[n].topic = TopicOf[l]
    /\ dispatch.topic = TopicOf[l] =>
          /\ dispatch.n = 1
          /\ dispatch.i = 1 \/ dispatch.to = l => dispatch.id \notin Received(l)

Somewhere(l, n) ==
    \/ n \in Received(l)
    \/ n \in missed
    \/ \E k \in DOMAIN inbox : inbox[k].id = n
    \/ <<l, n>> \in owed
    \/ Left(l)

Lossless(l) ==
    /\ array[TopicOf[l]] # <<>> => InList(l) \/ Left(l)
    /\ \A d \in disturbed : sent[d].topic = TopicOf[l] => Left(l)
    /\ \A n \in 1 .. messages :
          sent[n].topic = TopicOf[l] /\ Recent(n) => Somewhere(l, n)

Counting ==
    /\ CountsTyped /\ Placed /\ Readers
    /\ \A l \in Counters : Once(l) /\ Lossless(l)
(* A counter is alone on its topic, so its list is empty or the counter.   *)
LEMMA OwnTopic ==
    ASSUME NEW l \in Counters
    PROVE  /\ l \in Listeners /\ TopicOf[l] \in Topics
           /\ \A k \in Listeners : TopicOf[k] = TopicOf[l] => k = l
  BY CounterAssumption, Topical DEF Counters

LEMMA OneOnList ==
    ASSUME ListsTyped, Lists, NEW l \in Counters, NEW t, t = TopicOf[l]
    PROVE  /\ length[t] \in {0, 1}
           /\ length[t] = 1 <=> InList(l)
           /\ length[t] = 1 => array[t][1] = l
  <1>1. t \in Topics /\ \A k \in Listeners : TopicOf[k] = t => k = l
    BY OwnTopic
  <1>2. length[t] \in Nat
    BY <1>1 DEF ListsTyped
  <1>3. \A j \in 1 .. length[t] : array[t][j] = l
    BY <1>1 DEF Lists
  <1>4. \A i, j \in 1 .. length[t] : i = j
    BY <1>1, <1>3 DEF Lists
  <1>5. length[t] \in {0, 1}
    <2>1. length[t] >= 2 => 1 \in 1 .. length[t] /\ 2 \in 1 .. length[t]
      BY <1>2
    <2> QED BY <1>2, <1>4, <2>1
  <1>6. length[t] = 1 => 1 \in 1 .. length[t]
    BY <1>2
  <1>7. \A j \in 1 .. length[t] : length[t] = 1
    BY <1>5
  <1> QED BY <1>1, <1>3, <1>5, <1>6, <1>7 DEF InList

LEMMA InboxTyped ==
    ASSUME BusTyped, NEW k \in DOMAIN inbox
    PROVE  inbox[k].topic \in Topics /\ inbox[k].id \in Nat
  <1> DEFINE M == [topic : Topics, id : Nat]
  <1>1. inbox \in Seq(M)
    BY DEF BusTyped
  <1>2. inbox[k] \in M
    <2> HIDE DEF M
    <2> QED BY <1>1
  <1> QED BY <1>2

(* Steps that touch nothing the counters depend on.                        *)
LEMMA CountingStays ==
    ASSUME Counting, crashed' \in BOOLEAN, UNCHANGED <<lists, bus, dispatch, goroutines, channels, history, counts>>
    PROVE  Counting'
  <1>1. /\ array' = array /\ length' = length /\ inbox' = inbox /\ messages' = messages
        /\ reader' = reader /\ holds' = holds /\ channel' = channel /\ closers' = closers
        /\ dispatch' = dispatch /\ owed' = owed /\ missed' = missed /\ disturbed' = disturbed
        /\ values' = values /\ now' = now /\ sent' = sent
    BY DEF lists, bus, goroutines, channels, history, counts
  <1>2. CountsTyped' /\ Readers'
    BY <1>1 DEF Counting, CountsTyped, Readers
  <1>3. Placed'
    BY <1>1 DEF Counting, Placed, Members, Idle
  <1>4. ASSUME NEW l \in Counters PROVE Once(l)' /\ Lossless(l)'
    BY <1>1 DEF Counting, Once, Lossless, Received, Kept, Left, Past, Recent, Somewhere, InList, Members, Distinct
  <1> QED BY <1>2, <1>3, <1>4 DEF Counting

(* A step that leaves a counter what it has, and the dispatcher where it   *)
(* is.                                                                     *)
LEMMA OnceStays ==
    ASSUME NEW l \in Counters, Once(l),
           values'[l] = values[l], holds'[l] = holds[l],
           \A d : Past(d) => Past(d)' /\ sent'[d] = sent[d],
           dispatch'.topic = dispatch.topic, dispatch'.id = dispatch.id,
           dispatch'.n = dispatch.n, dispatch'.i = dispatch.i, dispatch'.to = dispatch.to
    PROVE  Once(l)'
  <1>1. Kept(l)' = Kept(l) /\ Received(l)' = Received(l) /\ Distinct(values[l])'
    BY DEF Kept, Received, Members, Once, Distinct
  <1> QED BY <1>1 DEF Once

(* A step that publishes nothing and disturbs nothing.                     *)
LEMMA LosslessStays ==
    ASSUME NEW l \in Counters, Lossless(l),
           array'[TopicOf[l]] # <<>> => array[TopicOf[l]] # <<>> \/ InList(l)',
           InList(l) => InList(l)', Left(l) => Left(l)',
           UNCHANGED <<disturbed, messages, sent, now>>,
           \A n : Somewhere(l, n) => Somewhere(l, n)'
    PROVE  Lossless(l)'
  BY DEF Lossless, Recent

LEMMA SubscribeCounts ==
    ASSUME PubsubInv, Counting, NEW k \in Listeners, Fresh(k), Subscribe(k), UNCHANGED counts
    PROVE  Counting'
  <1>0. /\ ListsTyped /\ DispatchTyped /\ ChannelsTyped /\ Lists
        /\ CountsTyped /\ Placed /\ Readers
    BY DEF PubsubInv, Counting
  <1>t. PICK t \in Topics : t = TopicOf[k]
    BY Topical
  <1>n. PICK n \in Nat : n = length[t]
    BY <1>0, <1>t DEF ListsTyped
  <1>1. /\ array'[t] \in Seq(Slots) /\ n + 1 <= Len(array'[t]) /\ Len(array[t]) <= Len(array'[t])
        /\ array'[t][n + 1] = k
        /\ \A u \in Topics \ {t} : array'[u] = array[u] /\ length'[u] = length[u]
        /\ NothingElse(t, k)
    BY <1>0, <1>t, <1>n, Appended
  <1>2. /\ channel' = [channel EXCEPT ![k] = "open"] /\ reader' = [reader EXCEPT ![k] = "new"]
        /\ UNCHANGED <<inbox, messages, holds, closers, crashed, owed, missed, repeated, disturbed>>
        /\ UNCHANGED <<values, now, sent>>
        /\ \/ dispatch' = dispatch
           \/ /\ dispatch' = [dispatch EXCEPT !.own = array[t]]
              /\ dispatch.topic = t
    BY <1>t DEF Subscribe, bus, history, counts, Ranging
  <1>3. /\ dispatch'.topic = dispatch.topic /\ dispatch'.id = dispatch.id
        /\ dispatch'.n = dispatch.n /\ dispatch'.i = dispatch.i /\ dispatch'.to = dispatch.to
        /\ dispatch' # Idle => dispatch # Idle
        /\ dispatch'.own = dispatch.own \/ (dispatch'.own = array[t] /\ dispatch.topic = t)
    <2>1. CASE dispatch' = dispatch
      BY <2>1
    <2>2. CASE /\ dispatch' = [dispatch EXCEPT !.own = array[t]]
               /\ dispatch.topic = t
      BY <1>0, <2>2, Topical DEF DispatchTyped, Idle
    <2> QED BY <1>2, <2>1, <2>2
  <1>4. PubsubInv' /\ InList(k)' /\ \A l \in Listeners : InList(l) => InList(l)'
    BY SubscribeKeeps
  <1>5. reader[k] \notin {"busy", "gone"} /\ holds[k] = 0 /\ k \notin closers
    BY <1>0 DEF Readers, Fresh
  <1>6. CountsTyped'
    BY <1>0, <1>2 DEF CountsTyped
  <1>7. Readers'
    BY <1>0, <1>2, <1>5 DEF Readers, CountsTyped, ChannelsTyped
  <1>8. \A u \in Topics : array[u] # <<>> => array'[u] # <<>>
    <2>1. Len(array'[t]) # 0
      BY <1>1, LenProperties
    <2> QED BY <1>1, <2>1
  <1>9. Placed'
    <2>1. ASSUME NEW u \in Topics, NEW l \in Members(array'[u]) \cap Listeners PROVE TopicOf[l] = u
      <3>1. CASE u # t
        BY <1>0, <1>1, <2>1, <3>1 DEF Placed
      <3>2. CASE u = t
        BY <1>0, <1>1, <1>t, <2>1, <3>2, Topical DEF Placed, NothingElse
      <3> QED BY <3>1, <3>2
    <2>2. ASSUME NEW l \in Members(dispatch'.own) \cap Listeners PROVE TopicOf[l] = dispatch'.topic
      BY <1>0, <1>3, <2>2 DEF Placed
    <2>3. \A j \in DOMAIN inbox' : /\ sent'[inbox'[j].id].topic = inbox'[j].topic
                                  /\ array'[inbox'[j].topic] # <<>>
      <3>1. \A j \in DOMAIN inbox : inbox[j].topic \in Topics
        BY InboxTyped DEF PubsubInv
      <3> QED BY <1>0, <1>2, <1>8, <3>1 DEF Placed
    <2>4. /\ dispatch'.to # None => TopicOf[dispatch'.to] = dispatch'.topic /\ dispatch'.i >= 2
          /\ dispatch' # Idle => sent'[dispatch'.id].topic = dispatch'.topic
      BY <1>0, <1>2, <1>3 DEF Placed
    <2>5. (\A u \in Topics : \A l \in Members(array[u]) \cap Listeners : TopicOf[l] = u)'
      BY <2>1 DEF Members
    <2>6. (\A l \in Members(dispatch.own) \cap Listeners : TopicOf[l] = dispatch.topic)'
      BY <2>2 DEF Members
    <2> QED BY <2>3, <2>4, <2>5, <2>6 DEF Placed
  <1>10. ASSUME NEW l \in Counters PROVE Once(l)' /\ Lossless(l)'
    <2>1. Once(l) /\ Lossless(l) /\ l \in Listeners /\ TopicOf[l] \in Topics
          /\ \A j \in Listeners : TopicOf[j] = TopicOf[l] => j = l
      BY OwnTopic DEF Counting
    <2>2. \A d : Past(d)' <=> Past(d)
      BY <1>2 DEF Past
    <2>3. Once(l)'
      BY <1>2, <1>3, <2>1, <2>2, OnceStays
    <2>4. Left(l)' <=> Left(l)
      BY <1>0, <1>2, <1>5, <2>1 DEF Left, CountsTyped
    <2>5. \A d : Somewhere(l, d) => Somewhere(l, d)'
      BY <1>2, <2>4 DEF Somewhere, Received, Kept, Members
    <2>6. array'[TopicOf[l]] # <<>> => array[TopicOf[l]] # <<>> \/ InList(l)'
      <3>1. TopicOf[l] = t => l = k
        BY <1>t, <2>1
      <3> QED BY <1>1, <1>4, <2>1, <3>1
    <2>7. Lossless(l)'
      BY <1>2, <1>4, <2>1, <2>4, <2>5, <2>6, LosslessStays
    <2> QED BY <2>3, <2>7
  <1> QED BY <1>6, <1>7, <1>9, <1>10 DEF Counting

LEMMA UnsubscribeCounts ==
    ASSUME PubsubInv, Counting, NEW k \in Listeners, InList(k), Unsubscribe(k), UNCHANGED counts
    PROVE  Counting'
  <1>0. /\ ListsTyped /\ DispatchTyped /\ ChannelsTyped /\ BusTyped /\ Lists
        /\ CountsTyped /\ Placed /\ Readers
    BY DEF PubsubInv, Counting
  <1>t. PICK t \in Topics : t = TopicOf[k]
    BY Topical
  <1>n. PICK n \in Nat : n = length[t]
    BY <1>0, <1>t DEF ListsTyped
  <1>1. /\ n >= 1 /\ array'[t] \in Seq(Slots) /\ Len(array'[t]) = Len(array[t]) /\ n <= Len(array[t])
        /\ \A u \in Topics \ {t} : array'[u] = array[u] /\ length'[u] = length[u]
        /\ Members(array'[t]) \subseteq Members(array[t])
    <2>1. t = TopicOf[k] /\ n = length[t] /\ ListsTyped
      BY <1>0, <1>t, <1>n
    <2> HIDE <1>0, <1>t, <1>n
    <2> QED BY <2>1, Shifted
  <1>2. /\ closers' = closers \cup {k}
        /\ disturbed' = IF dispatch.topic = t THEN disturbed \cup {dispatch.id} ELSE disturbed
        /\ UNCHANGED <<inbox, messages, dispatch, reader, holds, channel, crashed, owed, missed, repeated>>
        /\ UNCHANGED <<values, now, sent>>
    BY <1>t DEF Unsubscribe, bus, goroutines, counts, Ranging
  <1>3. PubsubInv' /\ \A l \in Listeners \ {k} : InList(l) => InList(l)'
    BY UnsubscribeKeeps
  <1>4. CountsTyped'
    BY <1>0, <1>2 DEF CountsTyped
  <1>5. Readers'
    <2>1. channel[k] = "open"
      BY <1>0, <1>t DEF Lists, InList
    <2> QED BY <1>0, <1>2, <2>1 DEF Readers
  <1>6. \A u \in Topics : array[u] # <<>> => array'[u] # <<>>
    <2>1. Len(array'[t]) # 0
      <3>1. array[t] \in Seq(Slots)
        BY <1>0 DEF ListsTyped
      <3> QED BY <1>1, <3>1, LenProperties
    <2> QED BY <1>1, <2>1
  <1>7. Placed'
    <2>1. ASSUME NEW u \in Topics, NEW l \in Members(array'[u]) \cap Listeners PROVE TopicOf[l] = u
      <3>1. CASE u # t
        BY <1>0, <1>1, <2>1, <3>1 DEF Placed
      <3>2. CASE u = t
        BY <1>0, <1>1, <2>1, <3>2 DEF Placed
      <3> QED BY <3>1, <3>2
    <2>2. (\A u \in Topics : \A l \in Members(array[u]) \cap Listeners : TopicOf[l] = u)'
      BY <2>1 DEF Members
    <2>3. (\A l \in Members(dispatch.own) \cap Listeners : TopicOf[l] = dispatch.topic)'
      BY <1>0, <1>2 DEF Placed, Members
    <2>4. \A j \in DOMAIN inbox' : /\ sent'[inbox'[j].id].topic = inbox'[j].topic
                                  /\ array'[inbox'[j].topic] # <<>>
      BY <1>0, <1>2, <1>6, InboxTyped DEF Placed
    <2>5. /\ dispatch'.to # None => TopicOf[dispatch'.to] = dispatch'.topic /\ dispatch'.i >= 2
          /\ (dispatch # Idle => sent[dispatch.id].topic = dispatch.topic)'
      BY <1>0, <1>2 DEF Placed, Idle
    <2> QED BY <2>2, <2>3, <2>4, <2>5 DEF Placed
  <1>8. ASSUME NEW l \in Counters PROVE Once(l)' /\ Lossless(l)'
    <2>1. Once(l) /\ Lossless(l) /\ l \in Listeners /\ TopicOf[l] \in Topics
          /\ \A j \in Listeners : TopicOf[j] = TopicOf[l] => j = l
      BY OwnTopic DEF Counting
    <2>2. \A d : Past(d)' <=> Past(d)
      BY <1>2 DEF Past
    <2>3. Once(l)'
      BY <1>2, <2>1, <2>2, OnceStays
    <2>4. Left(l) => Left(l)'
      BY <1>2 DEF Left
    <2>5. ASSUME NEW d, Somewhere(l, d) PROVE Somewhere(l, d)'
      BY <1>2, <2>4, <2>5 DEF Somewhere, Received, Kept, Members
    <2>6. CASE l = k
      <3>1. Left(l)'
        BY <1>2, <2>6 DEF Left
      <3> QED BY <2>3, <3>1 DEF Lossless, Somewhere
    <2>7. CASE l # k
      <3>1. array'[TopicOf[l]] = array[TopicOf[l]] /\ TopicOf[l] # t
        BY <1>1, <1>t, <2>1, <2>7
      <3>2. ASSUME NEW d \in disturbed', sent'[d].topic = TopicOf[l] PROVE d \in disturbed
        <4>1. CASE d = dispatch.id /\ dispatch.topic = t
          <5>1. dispatch # Idle
            BY <4>1, Topical DEF Idle
          <5>2. sent[d].topic = t
            BY <1>0, <4>1, <5>1 DEF Placed
          <5> QED BY <1>2, <3>1, <3>2, <5>2
        <4> QED BY <1>2, <4>1
      <3>3. array'[TopicOf[l]] # <<>> => InList(l)' \/ Left(l)'
        BY <1>3, <2>1, <2>4, <2>7, <3>1 DEF Lossless
      <3>4. \A d \in disturbed' : sent'[d].topic = TopicOf[l] => Left(l)'
        BY <1>2, <2>1, <2>4, <3>2 DEF Lossless
      <3>5. \A d \in 1 .. messages' :
              sent'[d].topic = TopicOf[l] /\ Recent(d)' => Somewhere(l, d)'
        BY <1>2, <2>1, <2>5 DEF Lossless, Recent
      <3> QED BY <2>3, <3>3, <3>4, <3>5 DEF Lossless
    <2> QED BY <2>6, <2>7
  <1> QED BY <1>4, <1>5, <1>7, <1>8 DEF Counting

(* The goroutines of the listeners, but for what they receive.             *)
LEMMA GoroutinesCount ==
    ASSUME PubsubInv, Counting, NEW k \in Listeners, UNCHANGED counts,
           StartReading(k) \/ SendClosing(k) \/ CloseChannel(k)
    PROVE  Counting'
  <1>0. ChannelsTyped /\ CountsTyped /\ Placed /\ Readers
    BY DEF PubsubInv, Counting
  <1>1. /\ array' = array /\ length' = length /\ inbox' = inbox /\ messages' = messages
        /\ dispatch' = dispatch /\ holds' = holds /\ crashed' = crashed
        /\ owed' = owed /\ missed' = missed /\ disturbed' = disturbed
        /\ values' = values /\ now' = now /\ sent' = sent
    BY DEF StartReading, SendClosing, CloseChannel, lists, bus, goroutines, history, counts
  <1>2. \/ /\ reader[k] = "new" /\ reader' = [reader EXCEPT ![k] = "ready"]
           /\ closers' = closers /\ channel' = channel
        \/ /\ reader[k] = "ready" /\ k \in closers /\ reader' = [reader EXCEPT ![k] = "gone"]
           /\ closers' = closers /\ channel' = channel
        \/ /\ reader[k] = "gone" /\ closers' = closers \ {k} /\ reader' = reader
           /\ channel' = [channel EXCEPT ![k] = "closed"]
    BY DEF StartReading, SendClosing, CloseChannel, channels, goroutines
  <1>3. CountsTyped'
    BY <1>0, <1>1, <1>2 DEF CountsTyped
  <1>4. Readers'
    BY <1>0, <1>1, <1>2 DEF CountsTyped, ChannelsTyped, Readers
  <1>5. Placed'
    BY <1>0, <1>1 DEF Placed, Members, Idle
  <1>6. ASSUME NEW l \in Counters PROVE Once(l)' /\ Lossless(l)'
    <2>1. Once(l) /\ Lossless(l) /\ l \in Listeners
      BY OwnTopic DEF Counting
    <2>2. \A d : Past(d)' <=> Past(d)
      BY <1>1 DEF Past
    <2>3. Once(l)'
      BY <1>1, <2>1, <2>2, OnceStays
    <2>4. Left(l) => Left(l)'
      BY <1>0, <1>2, <2>1 DEF Left, CountsTyped
    <2>5. \A d : Somewhere(l, d) => Somewhere(l, d)'
      BY <1>1, <2>4 DEF Somewhere, Received, Kept, Members
    <2>6. Lossless(l)'
      BY <1>1, <2>1, <2>4, <2>5, LosslessStays DEF InList
    <2> QED BY <2>3, <2>6
  <1> QED BY <1>3, <1>4, <1>5, <1>6 DEF Counting
LEMMA TakeCounts ==
    ASSUME PubsubInv, Counting, Take, UNCHANGED counts
    PROVE  Counting'
  <1>0. /\ ListsTyped /\ DispatchTyped /\ BusTyped /\ Lists /\ Ids
        /\ CountsTyped /\ Placed /\ Readers
    BY DEF PubsubInv, Counting
  <1> DEFINE M == [topic : Topics, id : Nat]
  <1>m. PICK m : m = Head(inbox)
    OBVIOUS
  <1>n. PICK n : n = length[m.topic]
    OBVIOUS
  <1>1. /\ inbox # <<>> /\ inbox' = Tail(inbox)
        /\ dispatch' = IF n = 0 THEN Idle
                       ELSE [Idle EXCEPT !.topic = m.topic, !.id = m.id, !.n = n]
        /\ owed' = owed \cup {<<array[m.topic][i], m.id>> : i \in 1 .. n}
        /\ array' = array /\ length' = length /\ messages' = messages
        /\ reader' = reader /\ holds' = holds /\ channel' = channel /\ closers' = closers
        /\ crashed' = crashed /\ missed' = missed /\ disturbed' = disturbed
        /\ values' = values /\ now' = now /\ sent' = sent
    BY <1>m, <1>n DEF Take, lists, goroutines, channels, counts
  <1>2. /\ m \in M /\ m = inbox[1] /\ 1 \in DOMAIN inbox
        /\ \A k \in DOMAIN inbox' : k + 1 \in DOMAIN inbox /\ inbox'[k] = inbox[k + 1]
        /\ \A k \in DOMAIN inbox : k = 1 \/ (k - 1 \in DOMAIN inbox' /\ inbox'[k - 1] = inbox[k])
    <2>1. inbox \in Seq(M)
      BY <1>0 DEF BusTyped
    <2> HIDE DEF M
    <2>2. /\ Len(inbox) \in Nat /\ Len(inbox) >= 1 /\ inbox' \in Seq(M)
          /\ DOMAIN inbox' = 1 .. Len(inbox) - 1 /\ DOMAIN inbox = 1 .. Len(inbox)
          /\ \A k \in 1 .. Len(inbox) - 1 : inbox'[k] = inbox[k + 1]
      BY <1>1, <2>1
    <2>3. m \in M /\ m = inbox[1]
      BY <1>1, <1>m, <2>1, <2>2
    <2> QED BY <2>2, <2>3
  <1>3. m.topic \in Topics /\ m.id \in Nat
    BY <1>2
  <1> HIDE DEF M
  <1>4. /\ dispatch'.own = <<>> /\ dispatch'.to = None /\ dispatch'.i = 1
        /\ dispatch' # Idle => n # 0
        /\ n # 0 => dispatch'.topic = m.topic /\ dispatch'.id = m.id /\ dispatch'.n = n
        /\ n = 0 => dispatch'.topic = None
    BY <1>1 DEF Idle
  <1>5. CountsTyped' /\ Readers'
    BY <1>0, <1>1 DEF CountsTyped, Readers
  <1>6. Placed'
    <2>1. (\A u \in Topics : \A l \in Members(array[u]) \cap Listeners : TopicOf[l] = u)'
      BY <1>0, <1>1 DEF Placed, Members
    <2>2. (\A l \in Members(dispatch.own) \cap Listeners : TopicOf[l] = dispatch.topic)'
      BY <1>4 DEF Members
    <2>3. \A j \in DOMAIN inbox' : /\ sent'[inbox'[j].id].topic = inbox'[j].topic
                                  /\ array'[inbox'[j].topic] # <<>>
      BY <1>0, <1>1, <1>2 DEF Placed
    <2>4. sent[m.id].topic = m.topic
      BY <1>0, <1>2 DEF Placed
    <2>5. /\ dispatch'.to # None => TopicOf[dispatch'.to] = dispatch'.topic /\ dispatch'.i >= 2
          /\ (dispatch # Idle => sent[dispatch.id].topic = dispatch.topic)'
      BY <1>1, <1>4, <2>4 DEF Idle
    <2> QED BY <2>1, <2>2, <2>3, <2>5 DEF Placed
  <1>7. ASSUME NEW l \in Counters PROVE Once(l)' /\ Lossless(l)'
    <2>1. Once(l) /\ Lossless(l) /\ l \in Listeners /\ TopicOf[l] \in Topics
      BY OwnTopic DEF Counting
    <2>2. PICK t \in Topics : t = TopicOf[l]
      BY <2>1
    <2>3. /\ length[t] \in {0, 1} /\ (length[t] = 1 <=> InList(l))
          /\ length[t] = 1 => array[t][1] = l
      BY <1>0, <2>2, OneOnList
    <2>4. ASSUME NEW d, Past(d) PROVE Past(d)' /\ d # m.id
      BY <1>1, <1>2, <1>3, <2>4 DEF Past
    <2>5. Once(l)'
      <3>1. Kept(l)' = Kept(l) /\ Received(l)' = Received(l) /\ Distinct(values[l])' /\ holds'[l] \notin Kept(l)
        BY <1>1, <2>1 DEF Kept, Received, Members, Once, Distinct
      <3>2. \A d \in Received(l) : Past(d)' /\ sent'[d].topic = TopicOf[l] /\ d # m.id
        BY <1>1, <2>1, <2>4 DEF Once
      <3>3. dispatch'.topic = TopicOf[l] =>
              dispatch'.n = 1 /\ dispatch'.id \notin Received(l)
        <4>1. CASE n = 0
          BY <1>4, <2>2, <4>1, Topical
        <4>2. CASE n # 0 /\ m.topic = t
          <5>1. n = 1
            BY <1>n, <2>3, <4>2
          <5>2. m.id \notin Received(l)
            BY <3>2
          <5> QED BY <1>4, <5>1, <5>2
        <4>3. CASE n # 0 /\ m.topic # t
          BY <1>4, <2>2, <4>3
        <4> QED BY <4>1, <4>2, <4>3
      <3> QED BY <3>1, <3>2, <3>3 DEF Once
    <2>6. \A d \in 1 .. messages : Somewhere(l, d) /\ sent[d].topic = t => Somewhere(l, d)'
      <3>1. SUFFICES ASSUME NEW d \in 1 .. messages, Somewhere(l, d), sent[d].topic = t
                     PROVE  Somewhere(l, d)'
        OBVIOUS
      <3>2. CASE d \in Received(l) \/ d \in missed \/ <<l, d>> \in owed \/ Left(l)
        BY <1>1, <3>2 DEF Somewhere, Received, Kept, Members, Left
      <3>3. ASSUME NEW k \in DOMAIN inbox, inbox[k].id = d PROVE Somewhere(l, d)'
        <4>1. CASE k = 1
          <5>1. m.topic = t /\ m.id = d /\ array[t] # <<>>
            BY <1>0, <1>2, <3>1, <3>3, <4>1 DEF Placed
          <5>2. CASE Left(l)
            BY <3>2, <5>2
          <5>3. CASE InList(l)
            <6>1. n = 1 /\ array[m.topic][1] = l
              BY <1>n, <2>3, <5>1, <5>3
            <6>2. <<l, d>> \in owed'
              BY <1>1, <5>1, <6>1
            <6> QED BY <6>2 DEF Somewhere
          <5> QED BY <2>1, <2>2, <5>1, <5>2, <5>3 DEF Lossless
        <4>2. CASE k # 1
          BY <1>2, <3>3, <4>2 DEF Somewhere
        <4> QED BY <4>1, <4>2
      <3> QED BY <3>1, <3>2, <3>3 DEF Somewhere
    <2>7. Lossless(l)'
      BY <1>1, <2>1, <2>2, <2>6 DEF Lossless, Recent, Left, InList
    <2> QED BY <2>5, <2>7
  <1> QED BY <1>5, <1>6, <1>7 DEF Counting

LEMMA PickCounts ==
    ASSUME PubsubInv, Counting, Pick, UNCHANGED counts
    PROVE  Counting'
  <1>0. /\ ListsTyped /\ DispatchTyped /\ Handing
        /\ CountsTyped /\ Placed /\ Readers
    BY DEF PubsubInv, Counting
  <1>1. /\ dispatch # Idle /\ dispatch.to = None
        /\ dispatch' = IF dispatch.i > dispatch.n THEN Idle
                       ELSE [dispatch EXCEPT !.to = View[dispatch.i], !.i = dispatch.i + 1]
        /\ array' = array /\ length' = length /\ inbox' = inbox /\ messages' = messages
        /\ reader' = reader /\ holds' = holds /\ channel' = channel /\ closers' = closers
        /\ crashed' = crashed /\ owed' = owed /\ missed' = missed /\ disturbed' = disturbed
        /\ values' = values /\ now' = now /\ sent' = sent
    BY DEF Pick, View, lists, bus, goroutines, channels, history, counts
  <1>2. /\ dispatch.topic \in Topics /\ dispatch.i \in 1 .. dispatch.n + 1
        /\ dispatch.n <= Len(View) /\ dispatch.n \in Nat
    BY <1>0, <1>1 DEF Handing, DispatchTyped
  <1>3. \/ dispatch' = Idle
        \/ /\ dispatch'.topic = dispatch.topic /\ dispatch'.id = dispatch.id /\ dispatch'.n = dispatch.n
           /\ dispatch'.own = dispatch.own /\ dispatch'.i = dispatch.i + 1
           /\ dispatch'.to = View[dispatch.i] /\ dispatch.i <= dispatch.n
    BY <1>0, <1>1, <1>2 DEF DispatchTyped
  <1>4. CountsTyped' /\ Readers'
    BY <1>0, <1>1 DEF CountsTyped, Readers
  <1>5. ASSUME dispatch' # Idle PROVE dispatch'.to # None => TopicOf[dispatch'.to] = dispatch.topic
    <2>1. View \in Seq(Slots)
      BY <1>0, <1>2 DEF View, ListsTyped, DispatchTyped
    <2>2. dispatch.i \in DOMAIN View /\ View[dispatch.i] \in Slots
      BY <1>2, <1>3, <1>5, <2>1
    <2>3. View[dispatch.i] \in Members(View)
      BY <2>2 DEF Members
    <2>4. \A l \in Members(View) \cap Listeners : TopicOf[l] = dispatch.topic
      BY <1>0, <1>2 DEF Placed, View
    <2> QED BY <1>3, <1>5, <2>2, <2>3, <2>4 DEF Slots
  <1>6. Placed'
    <2>1. (\A u \in Topics : \A l \in Members(array[u]) \cap Listeners : TopicOf[l] = u)'
      BY <1>0, <1>1 DEF Placed, Members
    <2>2. (\A l \in Members(dispatch.own) \cap Listeners : TopicOf[l] = dispatch.topic)'
      <3>1. CASE dispatch' = Idle
        BY <3>1 DEF Members, Idle
      <3>2. CASE dispatch' # Idle
        BY <1>0, <1>3, <3>2 DEF Members, Placed
      <3> QED BY <3>1, <3>2
    <2>3. \A j \in DOMAIN inbox' : /\ sent'[inbox'[j].id].topic = inbox'[j].topic
                                  /\ array'[inbox'[j].topic] # <<>>
      BY <1>0, <1>1 DEF Placed
    <2>4. dispatch'.to # None => TopicOf[dispatch'.to] = dispatch'.topic /\ dispatch'.i >= 2
      BY <1>2, <1>3, <1>5 DEF Idle
    <2>5. (dispatch # Idle => sent[dispatch.id].topic = dispatch.topic)'
      <3>1. sent[dispatch.id].topic = dispatch.topic
        BY <1>0, <1>1 DEF Placed
      <3> QED BY <1>1, <1>3, <3>1 DEF Idle
    <2> QED BY <2>1, <2>2, <2>3, <2>4, <2>5 DEF Placed
  <1>7. ASSUME NEW l \in Counters PROVE Once(l)' /\ Lossless(l)'
    <2>1. Once(l) /\ Lossless(l) /\ l \in Listeners /\ TopicOf[l] \in Topics
      BY OwnTopic DEF Counting
    <2>2. \A d : Past(d)' <=> Past(d)
      BY <1>1 DEF Past
    <2>3. Kept(l)' = Kept(l) /\ Received(l)' = Received(l) /\ Distinct(values[l])' /\ holds'[l] \notin Kept(l)
      BY <1>1, <2>1 DEF Kept, Received, Members, Once, Distinct
    <2>4. dispatch'.topic = TopicOf[l] =>
              /\ dispatch'.n = 1
              /\ dispatch'.i = 1 \/ dispatch'.to = l => dispatch'.id \notin Received(l)
      <3>1. CASE dispatch' = Idle
        BY <2>1, <3>1, Topical DEF Idle
      <3>2. CASE dispatch' # Idle /\ dispatch.topic = TopicOf[l]
        <4>1. dispatch.n = 1 /\ dispatch.i = 1
          BY <1>2, <1>3, <2>1, <3>2 DEF Once
        <4> QED BY <1>3, <2>1, <3>2, <4>1 DEF Once
      <3>3. CASE dispatch' # Idle /\ dispatch.topic # TopicOf[l]
        BY <1>3, <3>3
      <3> QED BY <3>1, <3>2, <3>3
    <2>5. Once(l)'
      BY <1>1, <2>1, <2>2, <2>3, <2>4 DEF Once
    <2>6. \A d : Somewhere(l, d) => Somewhere(l, d)'
      BY <1>1 DEF Somewhere, Received, Kept, Members, Left
    <2>7. Lossless(l)'
      BY <1>1, <2>1, <2>6, LosslessStays DEF InList, Left
    <2> QED BY <2>5, <2>7
  <1> QED BY <1>4, <1>6, <1>7 DEF Counting
LEMMA SendCounts ==
    ASSUME PubsubInv, Counting, Send, UNCHANGED counts
    PROVE  Counting'
  <1>0. /\ DispatchTyped /\ BusTyped /\ Ids
        /\ CountsTyped /\ Placed /\ Readers
    BY DEF PubsubInv, Counting
  <1>k. PICK k : k = dispatch.to
    OBVIOUS
  <1>d. PICK d : d = dispatch.id
    OBVIOUS
  <1>1. CASE channel[k] = "closed" /\ Crash
    BY <1>1, CountingStays DEF Crash
  <1>2. CASE /\ channel[k] = "open" /\ reader[k] = "ready"
             /\ reader' = [reader EXCEPT ![k] = "busy"]
             /\ holds' = [holds EXCEPT ![k] = d]
             /\ dispatch' = [dispatch EXCEPT !.to = None]
             /\ owed' = owed \ {<<k, d>>}
             /\ UNCHANGED <<lists, bus, channels, crashed, missed, disturbed>>
    <2>1. k \in Listeners /\ dispatch # Idle
      BY <1>0, <1>k DEF Send, DispatchTyped, Slots, Idle
    <2>2. /\ array' = array /\ length' = length /\ inbox' = inbox /\ messages' = messages
          /\ channel' = channel /\ closers' = closers
          /\ crashed' = crashed /\ missed' = missed /\ disturbed' = disturbed
          /\ values' = values /\ now' = now /\ sent' = sent
      BY <1>2 DEF lists, bus, channels, counts
    <2>3. /\ dispatch'.topic = dispatch.topic /\ dispatch'.id = dispatch.id /\ dispatch'.n = dispatch.n
          /\ dispatch'.own = dispatch.own /\ dispatch'.i = dispatch.i /\ dispatch'.to = None
      BY <1>0, <1>2 DEF DispatchTyped
    <2>4. Past(d) /\ d \in 1 .. messages /\ messages \in Nat
      BY <1>0, <1>d, <2>1 DEF Ids, Past, BusTyped
    <2>5. TopicOf[k] = dispatch.topic /\ dispatch.i >= 2 /\ sent[d].topic = dispatch.topic
      BY <1>0, <1>k, <1>d, <2>1 DEF Placed, Send
    <2>6. CountsTyped' /\ Readers'
      <3>1. reader' \in [Listeners -> {"off", "new", "ready", "busy", "gone"}]
            /\ holds' \in [Listeners -> Nat] /\ \A l \in Listeners : holds'[l] <= messages
        <4>1. d \in Nat /\ d <= messages
          BY <2>4
        <4> QED BY <1>0, <1>2, <4>1 DEF CountsTyped
      <3>2. CountsTyped'
        BY <1>0, <2>2, <3>1 DEF CountsTyped
      <3>3. Readers'
        BY <1>0, <1>2, <2>2, <2>4 DEF CountsTyped, Readers
      <3> QED BY <3>2, <3>3
    <2>7. Placed'
      <3>1. (\A u \in Topics : \A l \in Members(array[u]) \cap Listeners : TopicOf[l] = u)'
        BY <1>0, <2>2 DEF Placed, Members
      <3>2. (\A l \in Members(dispatch.own) \cap Listeners : TopicOf[l] = dispatch.topic)'
        BY <1>0, <2>3 DEF Members, Placed
      <3>3. \A j \in DOMAIN inbox' : /\ sent'[inbox'[j].id].topic = inbox'[j].topic
                                    /\ array'[inbox'[j].topic] # <<>>
        BY <1>0, <2>2 DEF Placed
      <3>4. (dispatch # Idle => sent[dispatch.id].topic = dispatch.topic)'
        BY <1>d, <2>2, <2>3, <2>5
      <3> QED BY <2>3, <3>1, <3>2, <3>3, <3>4 DEF Placed
    <2>8. ASSUME NEW l \in Counters PROVE Once(l)' /\ Lossless(l)'
      <3>1. Once(l) /\ Lossless(l) /\ l \in Listeners
        BY OwnTopic DEF Counting
      <3>2. \A c : Past(c)' <=> Past(c)
        BY <2>2 DEF Past
      <3>3. Left(l) => Left(l)'
        BY <1>0, <1>2, <2>2, <3>1 DEF Left, CountsTyped
      <3>4. Kept(l)' = Kept(l) /\ Distinct(values[l])'
        BY <2>2, <3>1 DEF Kept, Members, Once, Distinct
      <3>5. CASE l # k
        <4>1. holds'[l] = holds[l] /\ Received(l)' = Received(l)
          BY <1>0, <1>2, <3>1, <3>4, <3>5 DEF Received, CountsTyped
        <4>2. Once(l)'
          <5>1. None # l
            BY <3>1, Topical
          <5> QED BY <2>2, <2>3, <3>1, <3>2, <3>4, <4>1, <5>1 DEF Once
        <4>3. ASSUME NEW c, Somewhere(l, c) PROVE Somewhere(l, c)'
          <5>1. <<l, c>> # <<k, d>>
            BY <3>5
          <5> QED BY <1>2, <2>2, <3>3, <4>1, <4>3, <5>1 DEF Somewhere
        <4>4. Lossless(l)'
          BY <2>2, <3>1, <3>3, <4>3, LosslessStays DEF InList
        <4> QED BY <4>2, <4>4
      <3>6. CASE l = k
        <4>1. d \notin Received(l) /\ dispatch.n = 1 /\ dispatch.topic = TopicOf[l]
          BY <1>k, <1>d, <2>5, <3>1, <3>6 DEF Once
        <4>2. holds[l] = 0 /\ holds'[l] = d /\ d # 0
          BY <1>0, <1>2, <2>1, <2>4, <3>6 DEF Readers, CountsTyped
        <4>3. Received(l) = Kept(l) /\ Received(l)' = Kept(l) \cup {d}
          <5>1. {holds[l]} \ {0} = {} /\ {holds'[l]} \ {0} = {d}
            BY <4>2
          <5> QED BY <3>4, <5>1 DEF Received
        <4>4. Once(l)'
          <5>1. dispatch'.i # 1 /\ dispatch'.to # l
            BY <2>3, <2>5, <3>1, Topical
          <5> QED BY <2>2, <2>3, <2>4, <2>5, <3>1, <3>2, <3>4, <4>1, <4>2, <4>3, <5>1 DEF Once
        <4>5. ASSUME NEW c, Somewhere(l, c) PROVE Somewhere(l, c)'
          <5>1. <<l, c>> \in owed => <<l, c>> \in owed' \/ c = d
            BY <1>2, <3>6
          <5> QED BY <2>2, <3>3, <4>3, <4>5, <5>1 DEF Somewhere
        <4>6. Lossless(l)'
          BY <2>2, <3>1, <3>3, <4>5, LosslessStays DEF InList
        <4> QED BY <4>4, <4>6
      <3> QED BY <3>5, <3>6
    <2> QED BY <2>6, <2>7, <2>8 DEF Counting
  <1> QED BY <1>1, <1>2, <1>k, <1>d DEF Send

LEMMA KeptAfter ==
    ASSUME NEW q \in Seq(Nat), NEW n \in Nat, Distinct(q), n \notin Members(q)
    PROVE  /\ Append(q, n) \in Seq(Nat) /\ Distinct(Append(q, n))
           /\ Members(Append(q, n)) = Members(q) \cup {n}
  <1>1. /\ Append(q, n) \in Seq(Nat) /\ DOMAIN Append(q, n) = 1 .. Len(q) + 1
        /\ \A i \in 1 .. Len(q) : Append(q, n)[i] = q[i]
        /\ Append(q, n)[Len(q) + 1] = n
        /\ DOMAIN q = 1 .. Len(q) /\ Len(q) \in Nat
    OBVIOUS
  <1>p. PICK p : p = Append(q, n)
    OBVIOUS
  <1>2. /\ DOMAIN p = 1 .. Len(q) + 1
        /\ \A i \in 1 .. Len(q) : p[i] = q[i]
        /\ p[Len(q) + 1] = n
    BY <1>1, <1>p
  <1>3. \A i \in 1 .. Len(q) + 1 : i \in 1 .. Len(q) \/ i = Len(q) + 1
    BY <1>1
  <1>4. Len(q) + 1 \in 1 .. Len(q) + 1 /\ \A i \in 1 .. Len(q) : i \in 1 .. Len(q) + 1
    BY <1>1
  <1>5. Members(p) = Members(q) \cup {n}
    BY <1>1, <1>2, <1>3, <1>4 DEF Members
  <1>6. Distinct(p)
    BY <1>1, <1>2, <1>3, <1>4 DEF Distinct, Members
  <1> QED BY <1>1, <1>p, <1>5, <1>6

LEMMA ReceiveCounts ==
    ASSUME PubsubInv, Counting, NEW k \in Listeners, Handle(k),
           values' = IF k \in Counters
                     THEN [values EXCEPT ![k] = Append(values[k], holds[k])] ELSE values,
           UNCHANGED <<now, sent>>
    PROVE  Counting'
  <1>0. /\ DispatchTyped /\ BusTyped
        /\ CountsTyped /\ Placed /\ Readers
    BY DEF PubsubInv, Counting
  <1>1. /\ array' = array /\ length' = length /\ inbox' = inbox /\ messages' = messages
        /\ channel' = channel /\ closers' = closers /\ dispatch' = dispatch
        /\ crashed' = crashed /\ owed' = owed /\ missed' = missed /\ disturbed' = disturbed
        /\ reader[k] = "busy" /\ reader' = [reader EXCEPT ![k] = "ready"]
        /\ holds' = [holds EXCEPT ![k] = 0]
    BY DEF Handle, lists, bus, channels, history
  <1>2. holds[k] \in Nat /\ holds[k] # 0
    BY <1>0, <1>1 DEF CountsTyped, Readers
  <1>3. ASSUME NEW l \in Counters
        PROVE  /\ Distinct(values'[l]) /\ values'[l] \in Seq(Nat)
               /\ Kept(l)' = IF l = k THEN Kept(l) \cup {holds[k]} ELSE Kept(l)
    <2>1. Distinct(values[l]) /\ holds[l] \notin Members(values[l]) /\ values[l] \in Seq(Nat)
      BY <1>0 DEF Counting, Once, Kept, CountsTyped
    <2>2. CASE l = k
      <3>1. values'[l] = Append(values[l], holds[l])
        BY <1>0, <2>2 DEF CountsTyped
      <3> QED BY <1>2, <2>1, <2>2, <3>1, KeptAfter DEF Kept
    <2>3. CASE l # k
      <3>1. values'[l] = values[l]
        BY <1>0, <2>3 DEF CountsTyped
      <3> QED BY <2>1, <2>3, <3>1 DEF Kept
    <2> QED BY <2>2, <2>3
  <1>4. CountsTyped' /\ Readers'
    <2>1. values' \in [Counters -> Seq(Nat)]
      <3>1. DOMAIN values' = Counters /\ values' = [l \in Counters |-> values'[l]]
        BY <1>0 DEF CountsTyped
      <3> QED BY <1>3, <3>1
    <2>2. messages \in Nat
      BY <1>0 DEF BusTyped
    <2>3. CountsTyped'
      BY <1>0, <1>1, <2>1, <2>2 DEF CountsTyped
    <2>4. Readers'
      BY <1>0, <1>1 DEF CountsTyped, Readers
    <2> QED BY <2>3, <2>4
  <1>5. Placed'
    BY <1>0, <1>1 DEF Placed, Members, Idle
  <1>6. ASSUME NEW l \in Counters PROVE Once(l)' /\ Lossless(l)'
    <2>1. Once(l) /\ Lossless(l) /\ l \in Listeners
      BY OwnTopic DEF Counting
    <2>2. \A c : Past(c)' <=> Past(c)
      BY <1>1 DEF Past
    <2>3. Left(l) => Left(l)'
      BY <1>0, <1>1, <2>1 DEF Left, CountsTyped
    <2>4. Received(l)' = Received(l) /\ holds'[l] \notin Kept(l)'
      <3>1. CASE l = k
        <4>1. holds'[l] = 0 /\ holds[l] \in Nat /\ holds[l] # 0
          BY <1>0, <1>1, <1>2, <3>1 DEF CountsTyped
        <4>2. 0 \notin Received(l)
          BY <2>1 DEF Once, Past
        <4>3. {holds[l]} \ {0} = {holds[l]} /\ {holds'[l]} \ {0} = {}
          BY <4>1
        <4>4. Received(l) = Kept(l) \cup {holds[l]} /\ Received(l)' = Kept(l) \cup {holds[l]}
          BY <1>3, <3>1, <4>3 DEF Received
        <4>5. Kept(l)' = Received(l)
          BY <1>3, <3>1, <4>4
        <4> QED BY <4>1, <4>2, <4>4, <4>5
      <3>2. CASE l # k
        <4>1. holds'[l] = holds[l] /\ Kept(l)' = Kept(l)
          BY <1>0, <1>1, <1>3, <2>1, <3>2 DEF CountsTyped
        <4> QED BY <2>1, <4>1 DEF Received, Once
      <3> QED BY <3>1, <3>2
    <2>5. Once(l)'
      <3>1. Distinct(values[l])'
        BY <1>3 DEF Distinct
      <3> QED BY <1>1, <2>1, <2>2, <2>4, <3>1 DEF Once
    <2>6. \A c : Somewhere(l, c) => Somewhere(l, c)'
      BY <1>1, <2>3, <2>4 DEF Somewhere
    <2>7. Lossless(l)'
      BY <1>1, <2>1, <2>3, <2>6, LosslessStays DEF InList
    <2> QED BY <2>5, <2>7
  <1> QED BY <1>4, <1>5, <1>6 DEF Counting
LEMMA Queued ==
    ASSUME BusTyped, NEW e \in [topic : Topics, id : Nat], inbox' = Append(inbox, e)
    PROVE  /\ \A k \in DOMAIN inbox : k \in DOMAIN inbox' /\ inbox'[k] = inbox[k]
           /\ \E k \in DOMAIN inbox' : inbox'[k] = e
           /\ \A k \in DOMAIN inbox' : inbox'[k] = e \/ (k \in DOMAIN inbox /\ inbox'[k] = inbox[k])
  <1> DEFINE M == [topic : Topics, id : Nat]
  <1>1. inbox \in Seq(M) /\ e \in M
    BY DEF BusTyped
  <1> HIDE DEF M
  <1>2. /\ DOMAIN inbox' = 1 .. Len(inbox) + 1 /\ DOMAIN inbox = 1 .. Len(inbox)
        /\ \A k \in 1 .. Len(inbox) : inbox'[k] = inbox[k]
        /\ inbox'[Len(inbox) + 1] = e /\ Len(inbox) \in Nat
    BY <1>1
  <1> QED BY <1>2

LEMMA NotifyCounts ==
    ASSUME PubsubInv, Counting, NEW t \in Topics, Notify(t), UNCHANGED <<values, now>>
    PROVE  Counting'
  <1>0. /\ DispatchTyped /\ BusTyped /\ Ids
        /\ CountsTyped /\ Placed /\ Readers
    BY DEF PubsubInv, Counting
  <1> DEFINE e == [topic |-> t, id |-> messages + 1]
             new == messages + 1
  <1>1. /\ messages < MaxMessages /\ messages' = messages + 1
        /\ \/ array[t] # <<>> /\ inbox' = Append(inbox, e) /\ missed' = missed
           \/ missed' = missed \cup {messages + 1} /\ inbox' = inbox
        /\ array' = array /\ length' = length /\ dispatch' = dispatch
        /\ reader' = reader /\ holds' = holds /\ channel' = channel /\ closers' = closers
        /\ crashed' = crashed /\ owed' = owed /\ disturbed' = disturbed
        /\ values' = values /\ now' = now
        /\ sent' = [sent EXCEPT ![messages + 1] = [topic |-> t, time |-> now]]
    BY DEF Notify, Publish, lists, goroutines, channels
  <1>2. messages \in Nat /\ MaxMessages \in Nat /\ new \in 1 .. MaxMessages
    BY <1>0, <1>1, PubsubAssumption DEF BusTyped
  <1>3. /\ sent'[new] = [topic |-> t, time |-> now]
        /\ \A d \in 1 .. messages : sent'[d] = sent[d]
    BY <1>0, <1>1, <1>2 DEF CountsTyped
  <1>4. e \in [topic : Topics, id : Nat] /\ e.topic = t /\ e.id = new
    BY <1>2
  <1> HIDE DEF e
  <1>5. \/ inbox' = inbox /\ new \in missed'
        \/ array[t] # <<>> /\ inbox' = Append(inbox, e)
    BY <1>1
  <1>6. /\ \A k \in DOMAIN inbox : k \in DOMAIN inbox' /\ inbox'[k] = inbox[k]
        /\ \A k \in DOMAIN inbox' : (inbox'[k] = e /\ array[t] # <<>>)
                                   \/ (k \in DOMAIN inbox /\ inbox'[k] = inbox[k])
        /\ new \in missed' \/ \E k \in DOMAIN inbox' : inbox'[k].id = new
    <2>1. CASE inbox' = inbox /\ new \in missed'
      BY <2>1
    <2>2. CASE array[t] # <<>> /\ inbox' = Append(inbox, e)
      <3>1. /\ \A k \in DOMAIN inbox : k \in DOMAIN inbox' /\ inbox'[k] = inbox[k]
            /\ \E k \in DOMAIN inbox' : inbox'[k] = e
            /\ \A k \in DOMAIN inbox' : inbox'[k] = e \/ (k \in DOMAIN inbox /\ inbox'[k] = inbox[k])
        BY <1>0, <1>4, <2>2, Queued
      <3> QED BY <1>4, <2>2, <3>1
    <2> QED BY <1>5, <2>1, <2>2
  <1> HIDE DEF new
  <1>7. ASSUME NEW d, Past(d) PROVE Past(d)' /\ sent'[d] = sent[d]
    <2>1. d \in 1 .. messages /\ d \in 1 .. messages' /\ d < new
      BY <1>1, <1>2, <1>7 DEF Past, new
    <2>2. \A k \in DOMAIN inbox' : d < inbox'[k].id
      BY <1>4, <1>6, <1>7, <2>1 DEF Past
    <2> QED BY <1>3, <2>1, <2>2 DEF Past
  <1>8. CountsTyped'
    <2>1. messages' <= MaxMessages /\ \A l \in Listeners : holds[l] <= messages + 1
      BY <1>0, <1>1, <1>2 DEF CountsTyped, new
    <2>2. missed' \subseteq 1 .. messages + 1
      <3>1. missed \subseteq 1 .. messages + 1 /\ messages + 1 \in 1 .. messages + 1
        BY <1>0, <1>2 DEF CountsTyped
      <3>2. missed' = missed \/ missed' = missed \cup {messages + 1}
        BY <1>1
      <3> QED BY <3>1, <3>2
    <2>3. sent' \in [1 .. MaxMessages -> [topic : Topics \cup {None}, time : 0 .. MaxTime]]
      BY <1>0, <1>1, <1>2 DEF CountsTyped, new
    <2> QED BY <1>0, <1>1, <2>1, <2>2, <2>3 DEF CountsTyped
  <1>9. Readers'
    BY <1>0, <1>1 DEF Readers
  <1>10. Placed'
    <2>1. (\A u \in Topics : \A l \in Members(array[u]) \cap Listeners : TopicOf[l] = u)'
      BY <1>0, <1>1 DEF Placed, Members
    <2>2. (\A l \in Members(dispatch.own) \cap Listeners : TopicOf[l] = dispatch.topic)'
      BY <1>0, <1>1 DEF Members, Placed
    <2>3. ASSUME NEW j \in DOMAIN inbox'
          PROVE  sent'[inbox'[j].id].topic = inbox'[j].topic /\ array'[inbox'[j].topic] # <<>>
      <3>1. CASE inbox'[j] = e /\ array[t] # <<>>
        BY <1>1, <1>3, <1>4, <3>1
      <3>2. CASE j \in DOMAIN inbox /\ inbox'[j] = inbox[j]
        <4>1. inbox[j].id \in 1 .. messages
          BY <1>0, <3>2 DEF Ids
        <4> QED BY <1>0, <1>1, <1>3, <3>2, <4>1 DEF Placed
      <3> QED BY <1>6, <3>1, <3>2
    <2>4. /\ dispatch'.to # None => TopicOf[dispatch'.to] = dispatch'.topic /\ dispatch'.i >= 2
          /\ (dispatch # Idle => sent[dispatch.id].topic = dispatch.topic)'
      <3>1. dispatch # Idle => sent'[dispatch.id] = sent[dispatch.id]
        BY <1>0, <1>7 DEF Ids
      <3> QED BY <1>0, <1>1, <3>1 DEF Placed, Idle
    <2> QED BY <2>1, <2>2, <2>3, <2>4 DEF Placed
  <1>11. ASSUME NEW l \in Counters PROVE Once(l)' /\ Lossless(l)'
    <2>1. Once(l) /\ Lossless(l) /\ l \in Listeners
      BY OwnTopic DEF Counting
    <2>2. Once(l)'
      BY <1>1, <1>7, <2>1, OnceStays
    <2>3. Left(l)' <=> Left(l)
      BY <1>1 DEF Left
    <2>4. Received(l)' = Received(l) /\ missed \subseteq missed'
      BY <1>1 DEF Received, Kept, Members
    <2>5. \A c : Somewhere(l, c) => Somewhere(l, c)'
      BY <1>1, <1>6, <2>3, <2>4 DEF Somewhere
    <2>6. (array[TopicOf[l]] # <<>> => InList(l) \/ Left(l))'
      BY <1>1, <2>1, <2>3 DEF Lossless, InList
    <2>7. \A c \in disturbed' : sent'[c].topic = TopicOf[l] => Left(l)'
      <3>1. \A c \in disturbed : sent'[c] = sent[c]
        BY <1>0, <1>7 DEF Ids
      <3> QED BY <1>1, <2>1, <2>3, <3>1 DEF Lossless
    <2>8. ASSUME NEW c \in 1 .. messages', sent'[c].topic = TopicOf[l], Recent(c)'
          PROVE  Somewhere(l, c)'
      <3>1. CASE c = new
        BY <1>6, <3>1 DEF Somewhere
      <3>2. CASE c # new
        <4>1. c \in 1 .. messages
          BY <1>1, <1>2, <3>2 DEF new
        <4>2. sent'[c] = sent[c] /\ Recent(c)
          BY <1>1, <1>3, <2>8, <4>1 DEF Recent
        <4> QED BY <2>1, <2>5, <2>8, <4>1, <4>2 DEF Lossless
      <3> QED BY <3>1, <3>2
    <2> QED BY <2>2, <2>6, <2>7, <2>8 DEF Lossless
  <1> QED BY <1>8, <1>9, <1>10, <1>11 DEF Counting

(* The cleanup keeps what is recent.                                       *)
LEMMA UnexpiredOnce ==
    ASSUME NEW q \in Seq(Nat), Distinct(q)
    PROVE  /\ Unexpired(q) \in Seq(Nat) /\ Distinct(Unexpired(q))
           /\ Members(Unexpired(q)) = {n \in Members(q) : Recent(n)}
  <1>n. PICK n \in Nat : n = Len(q)
    OBVIOUS
  <1> DEFINE S == Seq(Nat)
             next == [x \in (1 .. n) \X S |->
                        IF Recent(q[x[1]]) THEN Append(x[2], q[x[1]]) ELSE x[2]]
             Loop(f) == [i \in 0 .. n |->
                           IF i = 0 THEN <<>>
                           ELSE IF Recent(q[i]) THEN Append(f[i - 1], q[i]) ELSE f[i - 1]]
             kept == CHOOSE f : f = Loop(f)
  <1>1. Unexpired(q) = kept[n]
    BY <1>n DEF Unexpired
  <1>2. \A i \in 1 .. n : q[i] \in Nat
    BY <1>n
  <1>3. next \in [(1 .. n) \X S -> S]
    <2>1. ASSUME NEW i \in 1 .. n, NEW p \in S PROVE Append(p, q[i]) \in S
      BY <1>2
    <2> HIDE DEF S
    <2> QED BY <2>1
  <1>4. \E f : f = Loop(f)
    <2>1. <<>> \in S
      OBVIOUS
    <2>2. PICK f \in [0 .. n -> S] :
                f[0] = <<>> /\ \A i \in 1 .. n : f[i] = next[<<i, f[i - 1]>>]
      <3> HIDE DEF next, S
      <3>1. PICK e \in [(1 .. n) \X S -> S] : e = next
        BY <1>3
      <3>2. \E f \in [0 .. n -> S] : Follows(f, n, <<>>, e)
        BY <2>1, <3>1, Recursion
      <3> QED BY <3>1, <3>2 DEF Follows
    <2>3. ASSUME NEW i \in 1 .. n
          PROVE  f[i] = IF Recent(q[i]) THEN Append(f[i - 1], q[i]) ELSE f[i - 1]
      <3>1. i - 1 \in 0 .. n /\ f[i - 1] \in S
        <4> HIDE DEF S, next
        <4> QED BY <2>2
      <3>2. next[<<i, f[i - 1]>>] = IF Recent(q[i]) THEN Append(f[i - 1], q[i]) ELSE f[i - 1]
        <4> HIDE DEF S
        <4> QED BY <3>1
      <3> HIDE DEF next
      <3> QED BY <2>2, <3>2
    <2>4. ASSUME NEW i \in 0 .. n PROVE f[i] = Loop(f)[i]
      <3>1. Loop(f)[i] = IF i = 0 THEN <<>>
                         ELSE IF Recent(q[i]) THEN Append(f[i - 1], q[i]) ELSE f[i - 1]
        OBVIOUS
      <3>2. i = 0 \/ i \in 1 .. n
        BY <1>n
      <3> HIDE DEF Loop
      <3> QED BY <2>2, <2>3, <3>1, <3>2
    <2>5. DOMAIN Loop(f) = 0 .. n /\ Loop(f) = [i \in 0 .. n |-> Loop(f)[i]]
      OBVIOUS
    <2> HIDE DEF next, S, Loop
    <2> QED BY <2>2, <2>4, <2>5
  <1>5. \A i \in 0 .. n :
           kept[i] = IF i = 0 THEN <<>>
                     ELSE IF Recent(q[i]) THEN Append(kept[i - 1], q[i]) ELSE kept[i - 1]
    <2>1. PICK g : g = Loop(kept)
      OBVIOUS
    <2>2. kept = g
      <3> HIDE DEF Loop
      <3> QED BY <1>4, <2>1
    <2> HIDE DEF kept
    <2>3. \A i \in 0 .. n :
             g[i] = IF i = 0 THEN <<>>
                    ELSE IF Recent(q[i]) THEN Append(kept[i - 1], q[i]) ELSE kept[i - 1]
      BY <2>1
    <2> QED BY <2>2, <2>3
  <1> HIDE DEF kept
  <1> DEFINE Right(i) == /\ kept[i] \in Seq(Nat) /\ Distinct(kept[i])
                         /\ Members(kept[i]) = {q[j] : j \in {h \in 1 .. i : Recent(q[h])}}
             Good == {i \in 0 .. n : Right(i)}
  <1>6. 0 \in Good
    <2>1. kept[0] = <<>> /\ 0 \in 0 .. n
      BY <1>5
    <2>2. Distinct(kept[0]) /\ Members(kept[0]) = {} /\ kept[0] \in Seq(Nat)
      BY <2>1 DEF Distinct, Members
    <2>3. {h \in 1 .. 0 : Recent(q[h])} = {}
      OBVIOUS
    <2> QED BY <2>1, <2>2, <2>3
  <1>7. ASSUME NEW m \in 1 .. n, m - 1 \in Good PROVE m \in Good
    <2>1. kept[m] = IF Recent(q[m]) THEN Append(kept[m - 1], q[m]) ELSE kept[m - 1]
      BY <1>5
    <2>2. /\ kept[m - 1] \in Seq(Nat) /\ Distinct(kept[m - 1])
          /\ Members(kept[m - 1]) = {q[j] : j \in {h \in 1 .. m - 1 : Recent(q[h])}}
      BY <1>7
    <2>3. \A h : h \in 1 .. m <=> h \in 1 .. m - 1 \/ h = m
      OBVIOUS
    <2>4. CASE Recent(q[m])
      <3>1. q[m] \notin Members(kept[m - 1])
        <4>1. \A j \in 1 .. m - 1 : j # m /\ j \in DOMAIN q /\ m \in DOMAIN q
          BY <1>n
        <4> QED BY <2>2, <4>1 DEF Distinct
      <3>2. /\ kept[m] \in Seq(Nat) /\ Distinct(kept[m])
            /\ Members(kept[m]) = Members(kept[m - 1]) \cup {q[m]}
        <4>1. PICK p \in Seq(Nat) : p = kept[m - 1]
          BY <2>2
        <4>2. q[m] \in Nat /\ kept[m] = Append(p, q[m])
          BY <1>2, <2>1, <2>4, <4>1
        <4>3. Distinct(p) /\ q[m] \notin Members(p)
          BY <2>2, <3>1, <4>1
        <4>4. /\ Append(p, q[m]) \in Seq(Nat) /\ Distinct(Append(p, q[m]))
              /\ Members(Append(p, q[m])) = Members(p) \cup {q[m]}
          BY <4>2, <4>3, KeptAfter
        <4> QED BY <4>1, <4>2, <4>4
      <3>3. Members(kept[m]) = {q[j] : j \in {h \in 1 .. m : Recent(q[h])}}
        BY <2>2, <2>3, <2>4, <3>2
      <3>4. Right(m)
        BY <3>2, <3>3
      <3> HIDE DEF Right
      <3> QED BY <3>4
    <2>5. CASE ~Recent(q[m])
      <3>1. {h \in 1 .. m : Recent(q[h])} = {h \in 1 .. m - 1 : Recent(q[h])}
        BY <2>3, <2>5
      <3>2. kept[m] = kept[m - 1]
        BY <2>1, <2>5
      <3>3. Right(m)
        BY <2>2, <3>1, <3>2
      <3> HIDE DEF Right
      <3> QED BY <3>3
    <2> QED BY <2>4, <2>5
  <1>8. n \in Good
    <2>1. n \in 0 .. n
      OBVIOUS
    <2> HIDE DEF Good
    <2> QED BY <1>6, <1>7, <2>1, Upto
  <1>9. {q[j] : j \in {h \in 1 .. n : Recent(q[h])}} = {d \in Members(q) : Recent(d)}
    BY <1>n DEF Members
  <1> QED BY <1>1, <1>8, <1>9
LEMMA CleanUpCounts ==
    ASSUME PubsubInv, Counting, NEW s \in Sets, CleanUp(s)
    PROVE  Counting'
  <1>0. CountsTyped /\ Placed /\ Readers
    BY DEF Counting
  <1>k. PICK k : k = Count[s]
    OBVIOUS
  <1>1. k \in Counters
    BY <1>k DEF CleanUp, Counters
  <1>2. /\ values' = [values EXCEPT ![k] = Unexpired(values[k])]
        /\ UNCHANGED <<pubsub, now, sent>>
    BY <1>k DEF CleanUp
  <1>3. /\ array' = array /\ length' = length /\ inbox' = inbox /\ messages' = messages
        /\ reader' = reader /\ holds' = holds /\ channel' = channel /\ closers' = closers
        /\ dispatch' = dispatch /\ owed' = owed /\ missed' = missed /\ disturbed' = disturbed
        /\ crashed' = crashed /\ now' = now /\ sent' = sent
    BY <1>2 DEF pubsub, lists, bus, goroutines, channels, history
  <1>4. /\ values'[k] \in Seq(Nat) /\ Distinct(values'[k])
        /\ Members(values'[k]) = {n \in Kept(k) : Recent(n)}
        /\ \A l \in Counters \ {k} : values'[l] = values[l]
    <2>1. PICK q \in Seq(Nat) : q = values[k]
      BY <1>0, <1>1 DEF CountsTyped
    <2>2. Distinct(q)
      BY <1>1, <2>1 DEF Counting, Once
    <2>3. /\ Unexpired(q) \in Seq(Nat) /\ Distinct(Unexpired(q))
          /\ Members(Unexpired(q)) = {n \in Members(q) : Recent(n)}
      BY <2>2, UnexpiredOnce
    <2>4. values'[k] = Unexpired(q) /\ \A l \in Counters \ {k} : values'[l] = values[l]
      BY <1>0, <1>1, <1>2, <2>1 DEF CountsTyped
    <2> QED BY <2>1, <2>3, <2>4 DEF Kept
  <1>5. CountsTyped' /\ Readers'
    <2>1. values' \in [Counters -> Seq(Nat)]
      <3>1. DOMAIN values' = Counters /\ values' = [l \in Counters |-> values'[l]]
        BY <1>0, <1>2 DEF CountsTyped
      <3>2. \A l \in Counters : values'[l] \in Seq(Nat)
        BY <1>0, <1>4 DEF CountsTyped
      <3> QED BY <3>1, <3>2
    <2> QED BY <1>0, <1>3, <2>1 DEF CountsTyped, Readers
  <1>6. Placed'
    BY <1>0, <1>3 DEF Placed, Members, Idle
  <1>7. ASSUME NEW l \in Counters PROVE Once(l)' /\ Lossless(l)'
    <2>1. Once(l) /\ Lossless(l) /\ l \in Listeners
      BY OwnTopic DEF Counting
    <2>2. \A d : Past(d)' <=> Past(d)
      BY <1>3 DEF Past
    <2>3. Left(l)' <=> Left(l)
      BY <1>3 DEF Left
    <2>4. CASE l = k
      <3>1. Kept(l)' = {n \in Kept(l) : Recent(n)} /\ Distinct(values[l])'
        BY <1>4, <2>4 DEF Kept, Distinct
      <3>2. Received(l)' \subseteq Received(l) /\ \A n \in Received(l) : Recent(n) => n \in Received(l)'
        BY <1>3, <3>1 DEF Received
      <3>3. Once(l)'
        BY <1>3, <2>1, <2>2, <3>1, <3>2 DEF Once
      <3>4. \A n : Recent(n) /\ Somewhere(l, n) => Somewhere(l, n)'
        BY <1>3, <2>3, <3>2 DEF Somewhere
      <3>5. Lossless(l)'
        BY <1>3, <2>1, <2>3, <3>4 DEF Lossless, Recent, InList
      <3> QED BY <3>3, <3>5
    <2>5. CASE l # k
      <3>1. values'[l] = values[l]
        BY <1>4, <2>5
      <3>2. Once(l)'
        BY <1>3, <2>1, <2>2, <3>1, OnceStays
      <3>3. \A n : Somewhere(l, n) => Somewhere(l, n)'
        BY <1>3, <2>3, <3>1 DEF Somewhere, Received, Kept, Members
      <3>4. Lossless(l)'
        BY <1>3, <2>1, <2>3, <3>3, LosslessStays DEF InList
      <3> QED BY <3>2, <3>4
    <2> QED BY <2>4, <2>5
  <1> QED BY <1>5, <1>6, <1>7 DEF Counting

LEMMA TickCounts ==
    ASSUME PubsubInv, Counting, Tick
    PROVE  Counting'
  <1>0. CountsTyped /\ Placed /\ Readers
    BY DEF Counting
  <1>1. /\ array' = array /\ length' = length /\ inbox' = inbox /\ messages' = messages
        /\ reader' = reader /\ holds' = holds /\ channel' = channel /\ closers' = closers
        /\ dispatch' = dispatch /\ owed' = owed /\ missed' = missed /\ disturbed' = disturbed
        /\ crashed' = crashed /\ values' = values /\ sent' = sent
        /\ now' = now + 1 /\ now < MaxTime
    BY DEF Tick, pubsub, lists, bus, goroutines, channels, history
  <1>2. now \in Nat /\ MaxTime \in Nat /\ Window \in Nat
    BY <1>0, CounterAssumption DEF CountsTyped
  <1>3. CountsTyped' /\ Readers'
    BY <1>0, <1>1, <1>2 DEF CountsTyped, Readers
  <1>4. Placed'
    BY <1>0, <1>1 DEF Placed, Members, Idle
  <1>5. ASSUME NEW l \in Counters PROVE Once(l)' /\ Lossless(l)'
    <2>1. Once(l) /\ Lossless(l) /\ l \in Listeners
      BY OwnTopic DEF Counting
    <2>2. \A d : Past(d)' <=> Past(d)
      BY <1>1 DEF Past
    <2>3. Once(l)'
      BY <1>1, <2>1, <2>2, OnceStays
    <2>4. Left(l)' <=> Left(l)
      BY <1>1 DEF Left
    <2>5. \A n : Somewhere(l, n) => Somewhere(l, n)'
      BY <1>1, <2>4 DEF Somewhere, Received, Kept, Members
    <2>6. ASSUME NEW n \in 1 .. messages, Recent(n)' PROVE Recent(n)
      <3>1. sent[n].time \in Nat
        <4>1. n \in 1 .. MaxMessages
          <5>1. messages \in Nat /\ messages <= MaxMessages /\ MaxMessages \in Nat
            BY <1>0, PubsubAssumption DEF CountsTyped, PubsubInv, BusTyped
          <5> QED BY <5>1
        <4>2. sent[n] \in [topic : Topics \cup {None}, time : 0 .. MaxTime]
          BY <1>0, <4>1 DEF CountsTyped
        <4> QED BY <4>2
      <3> QED BY <1>1, <1>2, <2>6, <3>1 DEF Recent
    <2>7. Lossless(l)'
      BY <1>1, <2>1, <2>4, <2>5, <2>6 DEF Lossless, InList
    <2> QED BY <2>3, <2>7
  <1> QED BY <1>3, <1>4, <1>5 DEF Counting

LEMMA CountingAtInit == Init => Counting
  <1> SUFFICES ASSUME Init PROVE Counting
    OBVIOUS
  <1>1. /\ array = [t \in Topics |-> ListOf(t)] /\ inbox = <<>> /\ messages = 0 /\ dispatch = Idle
        /\ reader = [l \in Listeners |-> IF l \in Permanent THEN "ready" ELSE "off"]
        /\ holds = [l \in Listeners |-> 0]
        /\ channel = [l \in Listeners |-> IF l \in Permanent THEN "open" ELSE "none"]
        /\ closers = {} /\ crashed = FALSE /\ missed = {} /\ disturbed = {}
        /\ values = [l \in Counters |-> <<>>] /\ now = 0
        /\ sent = [n \in 1 .. MaxMessages |-> [topic |-> None, time |-> 0]]
    BY DEF Init, PubsubInit
  <1>2. MaxMessages \in Nat /\ MaxTime \in Nat
    BY PubsubAssumption, CounterAssumption
  <1>3. CountsTyped
    <2>1. sent \in [1 .. MaxMessages -> [topic : Topics \cup {None}, time : 0 .. MaxTime]]
      <3>1. [topic |-> None, time |-> 0] \in [topic : Topics \cup {None}, time : 0 .. MaxTime]
        BY <1>2
      <3> QED BY <1>1, <3>1
    <2>2. values \in [Counters -> Seq(Nat)]
      BY <1>1
    <2>3. /\ reader \in [Listeners -> {"off", "new", "ready", "busy", "gone"}]
          /\ holds \in [Listeners -> Nat] /\ \A l \in Listeners : holds[l] <= messages
      BY <1>1
    <2>4. messages <= MaxMessages /\ now \in 0 .. MaxTime
      <3>1. messages = 0 /\ now = 0
        BY <1>1
      <3> QED BY <1>2, <3>1
    <2>5. missed \subseteq 1 .. messages /\ crashed \in BOOLEAN
      <3>1. missed = {} /\ crashed = FALSE
        BY <1>1
      <3> QED BY <3>1
    <2> QED BY <2>1, <2>2, <2>3, <2>4, <2>5 DEF CountsTyped
  <1>4. Readers
    BY <1>1 DEF Readers
  <1>5. ASSUME NEW t \in Topics
        PROVE  /\ ListOf(t) # <<>> => \E l \in Permanent : TopicOf[l] = t
               /\ \A k \in Members(ListOf(t)) : TopicOf[k] = t
    <2>1. CASE \E l \in Permanent : TopicOf[l] = t
      <3>1. PICK l : l = CHOOSE k \in Permanent : TopicOf[k] = t
        OBVIOUS
      <3>2. TopicOf[l] = t /\ ListOf(t) = <<l>>
        BY <2>1, <3>1 DEF ListOf
      <3> QED BY <2>1, <3>2 DEF Members
    <2>2. CASE ~\E l \in Permanent : TopicOf[l] = t
      BY <2>2 DEF ListOf, Members
    <2> QED BY <2>1, <2>2
  <1>6. Placed
    <2>1. \A t \in Topics : \A k \in Members(array[t]) \cap Listeners : TopicOf[k] = t
      BY <1>1, <1>5
    <2>2. Members(dispatch.own) = {} /\ dispatch.to = None
      BY <1>1 DEF Idle, Members
    <2>3. DOMAIN inbox = {}
      BY <1>1
    <2> QED BY <1>1, <2>1, <2>2, <2>3 DEF Placed
  <1>7. ASSUME NEW l \in Counters PROVE Once(l) /\ Lossless(l)
    <2>1. /\ l \in Listeners /\ TopicOf[l] \in Topics
          /\ \A k \in Listeners : TopicOf[k] = TopicOf[l] => k = l
      BY OwnTopic
    <2>2. l \notin Permanent
      <3>1. PICK s \in Sets : l = Count[s] /\ l # None
        BY DEF Counters
      <3>2. l \in Own(s)
        BY <3>1 DEF Own
      <3> QED BY <3>2, CounterAssumption
    <2>3. array[TopicOf[l]] = <<>>
      <3>1. \A k \in Permanent : TopicOf[k] # TopicOf[l]
        BY <2>1, <2>2, PubsubAssumption
      <3> QED BY <1>1, <1>5, <2>1, <3>1
    <2>4. Kept(l) = {} /\ Received(l) = {} /\ Distinct(values[l])
      <3>1. values[l] = <<>> /\ holds[l] = 0
        BY <1>1, <2>1
      <3> QED BY <3>1 DEF Kept, Received, Members, Distinct
    <2>5. dispatch.topic # TopicOf[l]
      BY <1>1, <2>1, Topical DEF Idle
    <2>6. Once(l)
      BY <2>4, <2>5 DEF Once
    <2>7. Lossless(l)
      BY <1>1, <2>3 DEF Lossless
    <2> QED BY <2>6, <2>7
  <1> QED BY <1>3, <1>4, <1>6, <1>7 DEF Counting
(***************************************************************************)
(* The steps                                                               *)
(***************************************************************************)

LEMMA MakeFilterCounts ==
    ASSUME PubsubInv, FilterSetsInv, Counting, NEW s \in Sets, MakeFilter(s)
    PROVE  Counting'
  <1>k. PICK k : k = Head(todo[s])
    OBVIOUS
  <1>1. k \in Listeners /\ Fresh(k)
    <2>1. /\ todo[s] \in Seq(Listeners) /\ todo[s] # <<>> /\ Distinct(todo[s])
          /\ Members(todo[s]) \subseteq Own(s)
          /\ \A l \in Own(s) : l \in Members(todo[s]) => Fresh(l)
      BY DEF MakeFilter, FilterSetsInv, FilterSetsTyped, Owned
    <2>2. k \in Members(todo[s])
      BY <1>k, <2>1, Shortened
    <2> QED BY <2>1, <2>2, OwnApart
  <1>2. UNCHANGED counts /\ (Subscribe(k) \/ TakeWhileWritten)
    BY <1>k DEF MakeFilter
  <1>3. CASE Subscribe(k)
    BY <1>1, <1>2, <1>3, SubscribeCounts
  <1>4. CASE TakeWhileWritten
    BY <1>2, <1>4, CountingStays DEF TakeWhileWritten, Crash
  <1> QED BY <1>2, <1>3, <1>4

LEMMA CloseFilterCounts ==
    ASSUME PubsubInv, FilterSetsInv, Counting, NEW s \in Sets, CloseFilter(s)
    PROVE  Counting'
  <1>k. PICK k : k = Head(todo[s])
    OBVIOUS
  <1>1. k \in Listeners /\ InList(k)
    <2>1. /\ todo[s] \in Seq(Listeners) /\ todo[s] # <<>> /\ Distinct(todo[s])
          /\ Members(todo[s]) \subseteq Own(s)
          /\ \A l \in Own(s) : l \in Members(todo[s]) => InList(l)
      BY DEF CloseFilter, FilterSetsInv, FilterSetsTyped, Owned
    <2>2. k \in Members(todo[s])
      BY <1>k, <2>1, Shortened
    <2> QED BY <2>1, <2>2, OwnApart
  <1>2. UNCHANGED counts /\ (Unsubscribe(k) \/ TakeWhileWritten \/ UNCHANGED pubsub)
    BY <1>k DEF CloseFilter
  <1>3. CASE Unsubscribe(k)
    BY <1>1, <1>2, <1>3, UnsubscribeCounts
  <1>4. CASE TakeWhileWritten
    BY <1>2, <1>4, CountingStays DEF TakeWhileWritten, Crash
  <1>5. CASE UNCHANGED pubsub
    <2>1. crashed' \in BOOLEAN
      BY <1>5 DEF Counting, CountsTyped, pubsub
    <2> QED BY <1>2, <1>5, <2>1, CountingStays DEF pubsub
  <1> QED BY <1>2, <1>3, <1>4, <1>5

LEMMA CountsUnchanged ==
    ASSUME Counting, UNCHANGED <<pubsub, counts>>
    PROVE  Counting'
  <1>1. crashed' \in BOOLEAN
    BY DEF Counting, CountsTyped, pubsub
  <1> QED BY <1>1, CountingStays DEF pubsub

LEMMA CountingKept == Inv /\ Counting /\ [Next]_vars => Counting'
  <1> SUFFICES ASSUME PubsubInv, FilterSetsInv, ChecksInv, Counting, [Next]_vars PROVE Counting'
    BY DEF Inv
  <1>1. ASSUME NEW s \in Sets, NewSet(s) \/ CloseSet(s) PROVE Counting'
    BY <1>1, CountsUnchanged DEF NewSet, CloseSet
  <1>2. ASSUME NEW s \in Sets, MakeFilter(s) PROVE Counting'
    BY <1>2, MakeFilterCounts
  <1>3. ASSUME NEW s \in Sets, MakeFails(s) PROVE Counting'
    <2>1. UNCHANGED <<pubsub, counts>>
      BY <1>3 DEF MakeFails, SubscribeFails, pubsub
    <2> QED BY <2>1, CountsUnchanged
  <1>4. ASSUME NEW s \in Sets, CloseFilter(s) PROVE Counting'
    BY <1>4, CloseFilterCounts
  <1>5. ASSUME NEW s \in Sets, CleanUp(s) PROVE Counting'
    BY <1>5, CleanUpCounts
  <1>6. ASSUME NEW l \in Listeners, Receive(l) PROVE Counting'
    <2>1. /\ Handle(l) /\ UNCHANGED <<now, sent>>
          /\ values' = IF l \in Counters
                       THEN [values EXCEPT ![l] = Append(values[l], holds[l])] ELSE values
      BY <1>6 DEF Receive
    <2> QED BY <2>1, ReceiveCounts
  <1>7. ASSUME NEW l \in Listeners, StartReading(l) \/ SendClosing(l) \/ CloseChannel(l),
               UNCHANGED <<filterSets, counts, checks>>
        PROVE  Counting'
    BY <1>7, GoroutinesCount
  <1>8. ASSUME Dispatcher, UNCHANGED <<filterSets, counts, checks>> PROVE Counting'
    BY <1>8, TakeCounts, PickCounts, SendCounts DEF Dispatcher
  <1>9. ASSUME NEW t \in {TopicOf[l] : l \in Listeners \ Counters}, Notify(t),
               UNCHANGED <<filterSets, values, now, checks>>
        PROVE  Counting'
    <2>1. t \in Topics
      BY Topical
    <2> QED BY <1>9, <2>1, NotifyCounts
  <1>10. ASSUME NEW k \in Checks, NEW s \in Sets, Begin(k, s) PROVE Counting'
    BY <1>10, CountsUnchanged DEF Begin
  <1>11. ASSUME NEW k \in Checks, Increment(k) PROVE Counting'
    <2>1. TopicOf[Counted(k)] \in Topics
      BY <1>11, CounterAssumption, Topical DEF Increment, ChecksInv, Counted
    <2>2. CASE Notify(TopicOf[Counted(k)])
      BY <1>11, <2>1, <2>2, NotifyCounts DEF Increment
    <2>3. CASE UNCHANGED <<pubsub, sent>>
      BY <1>11, <2>3, CountsUnchanged DEF Increment, counts
    <2> QED BY <1>11, <2>2, <2>3 DEF Increment
  <1>12. ASSUME NEW k \in Checks, GetCount(k) PROVE Counting'
    BY <1>12, CountsUnchanged DEF GetCount, Compare
  <1>13. ASSUME Tick PROVE Counting'
    BY <1>13, TickCounts
  <1>14. ASSUME UNCHANGED vars PROVE Counting'
    BY <1>14, CountsUnchanged DEF vars
  <1> QED
    BY <1>1, <1>2, <1>3, <1>4, <1>5, <1>6, <1>7, <1>8, <1>9, <1>10, <1>11, <1>12, <1>13, <1>14
    DEF Next, Check
(***************************************************************************)
(* The count                                                               *)
(***************************************************************************)

(* Places of different notifications, all in T, are no more than T has,    *)
(* and as many when none is left out.                                      *)
LEMMA Places ==
    ASSUME NEW q, Distinct(q), NEW I \in SUBSET (DOMAIN q), NEW T, IsFiniteSet(T),
           \A i \in I : q[i] \in T
    PROVE  /\ Cardinality(I) \in Nat /\ Cardinality(T) \in Nat
           /\ Cardinality(I) <= Cardinality(T)
           /\ (\A x \in T : \E i \in I : q[i] = x) => Cardinality(I) = Cardinality(T)
  <1> DEFINE f == [i \in I |-> q[i]]
  <1>1. f \in [I -> T] /\ \A i, j \in I : f[i] = f[j] => i = j
    BY DEF Distinct
  <1>2. f \in Injection(I, T)
    BY <1>1 DEF Injection, IsInjective
  <1>3. /\ IsFiniteSet(I) /\ Cardinality(I) <= Cardinality(T)
        /\ Cardinality(I) = Cardinality(T) <=> f \in Surjection(I, T)
    <2> HIDE DEF f
    <2> QED BY <1>2, FS_Injection
  <1>4. ASSUME \A x \in T : \E i \in I : q[i] = x PROVE f \in Surjection(I, T)
    BY <1>1, <1>4 DEF Surjection
  <1> QED BY <1>3, <1>4, FS_CardinalityType

LEMMA CountIsTrue ==
    ASSUME PubsubInv, Counting, NEW l \in Counters
    PROVE  /\ Get(l) \in Nat /\ Cardinality(Published(l)) \in Nat
           /\ Get(l) <= Cardinality(Published(l))
           /\ \/ Get(l) = Cardinality(Published(l))
              \/ Left(l)
              \/ \E n \in Published(l) : n \in missed \/ UnderWay(l, n)
  <1>0. Once(l) /\ Lossless(l) /\ CountsTyped /\ Ids /\ BusTyped /\ OnceEach
    BY DEF PubsubInv, Counting
  <1>1. PICK q : q = values[l]
    OBVIOUS
  <1>2. PICK T : T = Published(l)
    OBVIOUS
  <1>3. PICK I : I = {i \in DOMAIN q : Recent(q[i])}
    OBVIOUS
  <1>4. Get(l) = Cardinality(I)
    BY <1>1, <1>3 DEF Get
  <1>5. IsFiniteSet(T)
    <2>1. messages \in Nat
      BY <1>0 DEF BusTyped
    <2>2. IsFiniteSet(1 .. messages)
      BY <2>1, FS_Interval
    <2>3. T \in SUBSET (1 .. messages)
      BY <1>2 DEF Published
    <2> QED BY <2>2, <2>3, FS_Subset
  <1>6. \A i \in I : q[i] \in T
    <2> SUFFICES ASSUME NEW i \in I PROVE q[i] \in T
      OBVIOUS
    <2>1. q[i] \in Kept(l) /\ Recent(q[i])
      BY <1>1, <1>3 DEF Kept, Members
    <2>2. q[i] \in 1 .. messages /\ sent[q[i]].topic = TopicOf[l]
      BY <1>0, <2>1 DEF Once, Received, Past
    <2> QED BY <1>2, <2>1, <2>2 DEF Published
  <1>7. Distinct(q) /\ I \in SUBSET (DOMAIN q)
    BY <1>0, <1>1, <1>3 DEF Once
  <1>8. /\ Cardinality(I) \in Nat /\ Cardinality(T) \in Nat
        /\ Cardinality(I) <= Cardinality(T)
        /\ (\A x \in T : \E i \in I : q[i] = x) => Cardinality(I) = Cardinality(T)
    BY <1>5, <1>6, <1>7, Places
  <1>9. ASSUME ~Left(l), ~\E n \in T : n \in missed \/ UnderWay(l, n), NEW x \in T
        PROVE  \E i \in I : q[i] = x
    <2>1. x \in 1 .. messages /\ sent[x].topic = TopicOf[l] /\ Recent(x)
      BY <1>2 DEF Published
    <2>2. Somewhere(l, x)
      BY <1>0, <2>1 DEF Lossless
    <2>3. x \notin missed /\ x # holds[l] /\ x # dispatch.id /\ ~\E k \in DOMAIN inbox : inbox[k].id = x
      BY <1>9 DEF UnderWay
    <2>4. <<l, x>> \notin owed
      <3>1. x \notin disturbed
        BY <1>0, <1>9, <2>1 DEF Lossless
      <3> QED BY <1>0, <2>3, <3>1 DEF OnceEach
    <2>5. x \in Kept(l)
      BY <1>9, <2>2, <2>3, <2>4 DEF Somewhere, Received
    <2> QED BY <1>1, <1>3, <2>1, <2>5 DEF Kept, Members
  <1> QED BY <1>2, <1>4, <1>8, <1>9

Tallying ==
    /\ tally \in [Checks -> Nat] /\ due \in [Checks -> Nat] /\ late \in [Checks -> BOOLEAN]
    /\ hasty \subseteq Counters
    /\ TallyIsTrue

LEMMA TallyStays ==
    ASSUME Tallying, UNCHANGED <<tally, due, late>>, hasty' \subseteq Counters
    PROVE  Tallying'
  BY DEF Tallying, TallyIsTrue

LEMMA ComparedTruly ==
    ASSUME PubsubInv, ChecksInv, Counting, Tallying, NEW k \in Checks, GetCount(k)
    PROVE  Tallying'
  <1>l. PICK l : l = Counted(k)
    OBVIOUS
  <1>1. l \in Counters
    BY <1>l DEF GetCount, Compare, ChecksInv, Counted, Counters
  <1>c. PICK c : c = Get(l)
    OBVIOUS
  <1>p. PICK p : p = Cardinality(Published(l))
    OBVIOUS
  <1>b. PICK b : b = (\/ l \in closers \/ reader[l] = "gone"
                      \/ \E n \in Published(l) : n \in missed \/ UnderWay(l, n))
    OBVIOUS
  <1>2. /\ tally' = [tally EXCEPT ![k] = c + 1]
        /\ due' = [due EXCEPT ![k] = p + IF k \in Mentions THEN 1 ELSE 0]
        /\ late' = [late EXCEPT ![k] = b]
        /\ hasty' = hasty
    BY <1>l, <1>c, <1>p, <1>b DEF GetCount, Compare, filterSets
  <1>3. c \in Nat /\ p \in Nat /\ c <= p /\ (c = p \/ b) /\ b \in BOOLEAN
    BY <1>1, <1>c, <1>p, <1>b, CountIsTrue DEF Left
  <1>4. /\ tally \in [Checks -> Nat] /\ due \in [Checks -> Nat] /\ late \in [Checks -> BOOLEAN]
        /\ hasty \subseteq Counters /\ TallyIsTrue
    BY DEF Tallying
  <1>5. /\ tally'[k] = c + 1 /\ due'[k] = p + (IF k \in Mentions THEN 1 ELSE 0) /\ late'[k] = b
        /\ \A j \in Checks \ {k} : tally'[j] = tally[j] /\ due'[j] = due[j] /\ late'[j] = late[j]
    BY <1>2, <1>4
  <1>6. tally' \in [Checks -> Nat] /\ due' \in [Checks -> Nat] /\ late' \in [Checks -> BOOLEAN]
    BY <1>2, <1>3, <1>4
  <1>7. ASSUME NEW j \in Checks, tally'[j] # 0
        PROVE  /\ tally'[j] <= due'[j] + IF j \in Mentions THEN 0 ELSE 1
               /\ tally'[j] >= due'[j] \/ late'[j]
    <2>1. CASE j = k
      BY <1>3, <1>5, <2>1
    <2>2. CASE j # k
      BY <1>4, <1>5, <1>7, <2>2 DEF TallyIsTrue
    <2> QED BY <2>1, <2>2
  <1>8. TallyIsTrue'
    BY <1>7 DEF TallyIsTrue
  <1> QED BY <1>2, <1>4, <1>6, <1>8 DEF Tallying

LEMMA TallyingKept == Inv /\ Counting /\ Tallying /\ [Next]_vars => Tallying'
  <1> SUFFICES ASSUME PubsubInv, ChecksInv, Counting, Tallying, [Next]_vars PROVE Tallying'
    BY DEF Inv
  <1>0. hasty \subseteq Counters
    BY DEF Tallying
  <1>1. CASE UNCHANGED <<tally, due, late, hasty>>
    BY <1>0, <1>1, TallyStays
  <1>2. ASSUME NEW s \in Sets, CloseFilter(s) PROVE Tallying'
    <2>1. PICK l : l = Head(todo[s])
      OBVIOUS
    <2>2. UNCHANGED <<tally, due, late>>
      BY <1>2 DEF CloseFilter, checks
    <2>3. hasty' = hasty \/ (l \in Counters /\ hasty' = hasty \cup {l})
      BY <1>2, <2>1 DEF CloseFilter
    <2> QED BY <1>0, <2>2, <2>3, TallyStays
  <1>3. ASSUME NEW k \in Checks, GetCount(k) PROVE Tallying'
    BY <1>3, ComparedTruly
  <1>4. ASSUME NEW k \in Checks, Increment(k) PROVE Tallying'
    <2>1. due' = due /\ late' = late /\ hasty' = hasty
      BY <1>4 DEF Increment, filterSets
    <2>2. tally' = tally \/ tally' = [tally EXCEPT ![k] = 0]
      BY <1>4 DEF Increment
    <2>3. CASE tally' = [tally EXCEPT ![k] = 0]
      <3>1. /\ tally \in [Checks -> Nat] /\ due \in [Checks -> Nat] /\ late \in [Checks -> BOOLEAN]
            /\ TallyIsTrue
        BY DEF Tallying
      <3>2. tally'[k] = 0 /\ \A j \in Checks \ {k} : tally'[j] = tally[j]
        BY <2>3, <3>1
      <3>3. tally' \in [Checks -> Nat]
        BY <2>3, <3>1
      <3>4. TallyIsTrue'
        BY <2>1, <3>1, <3>2 DEF TallyIsTrue
      <3> QED BY <1>0, <2>1, <3>1, <3>3, <3>4 DEF Tallying
    <2> QED BY <1>0, <2>1, <2>2, <2>3, TallyStays
  <1>5. CASE Next
    <2>1. ASSUME NEW s \in Sets,
                 NewSet(s) \/ MakeFilter(s) \/ MakeFails(s) \/ CloseSet(s) \/ CleanUp(s)
          PROVE  Tallying'
      <3>1. UNCHANGED <<tally, due, late, hasty>>
        BY <2>1 DEF NewSet, MakeFilter, MakeFails, CloseSet, CleanUp, checks, filterSets
      <3> QED BY <1>1, <3>1
    <2>2. ASSUME NEW l \in Listeners, Receive(l) PROVE Tallying'
      BY <1>1, <2>2 DEF Receive, checks, filterSets
    <2>3. ASSUME UNCHANGED <<filterSets, checks>> PROVE Tallying'
      BY <1>1, <2>3 DEF checks, filterSets
    <2>4. ASSUME NEW k \in Checks, NEW s \in Sets, Begin(k, s) PROVE Tallying'
      BY <1>1, <2>4 DEF Begin, filterSets
    <2>5. ASSUME Tick PROVE Tallying'
      BY <1>1, <2>5 DEF Tick, checks, filterSets
    <2> QED BY <1>2, <1>3, <1>4, <1>5, <2>1, <2>2, <2>3, <2>4, <2>5 DEF Next, Check
  <1>6. CASE UNCHANGED vars
    BY <1>1, <1>6 DEF vars, checks, filterSets
  <1> QED BY <1>5, <1>6

LEMMA CountsAlways == Spec => [](Inv /\ Counting /\ Tallying)
  <1>1. Init => Tallying
    BY DEF Init, Tallying, TallyIsTrue
  <1> QED
    BY <1>1, InitEstablishes, NextKeeps, CountingAtInit, CountingKept, TallyingKept, PTL DEF Spec

(* A rate limit sees the number of messages, or mentions, of the window:   *)
(* never more (the frequency filter: one more, the very event), and less   *)
(* only while echoes are on their way, or were lost, or the counter is     *)
(* closed: for any number of counters, checks and notifications.           *)
(* filter_frequency.go:65-76, filter_mentions_frequency.go:60-61           *)
THEOREM TalliesAreTrue == Spec => []TallyIsTrue
  <1>1. Tallying => TallyIsTrue
    BY DEF Tallying
  <1> QED BY <1>1, CountsAlways, PTL
(* The type invariant, from what the proofs need of the types.             *)
THEOREM CounterTypes == Spec => []TypeOK
  <1>1. Inv /\ Counting /\ Tallying => TypeOK
    <2> SUFFICES ASSUME Inv, Counting, Tallying PROVE TypeOK
      OBVIOUS
    <2>0. /\ ListsTyped /\ DispatchTyped /\ ChannelsTyped /\ BusTyped /\ Ids /\ OnceEach
          /\ CountsTyped /\ FilterSetsTyped /\ ChecksInv
      BY DEF Inv, PubsubInv, FilterSetsInv, Counting
    <2>1. messages \in Nat /\ MaxMessages \in Nat /\ messages <= MaxMessages
      BY <2>0, PubsubAssumption DEF BusTyped, CountsTyped
    <2>2. \A d \in 1 .. messages : d \in 1 .. MaxMessages
      BY <2>1
    <2>3. \A d : Past(d) => d \in 1 .. MaxMessages
      BY <2>2 DEF Past
    <2>4. /\ array \in [Topics -> Seq(Slots)]
          /\ \A t \in Topics : length[t] \in 0 .. Len(array[t])
      <3>1. ASSUME NEW t \in Topics PROVE length[t] \in 0 .. Len(array[t])
        <4>1. length[t] \in Nat /\ length[t] <= Len(array[t]) /\ array[t] \in Seq(Slots)
          BY <2>0 DEF ListsTyped
        <4> QED BY <4>1, LenProperties
      <3> QED BY <2>0, <3>1 DEF ListsTyped
    <2>5. inbox \in Seq([topic : Topics, id : 1 .. MaxMessages])
      <3> DEFINE M == [topic : Topics, id : Nat]
                 L == [topic : Topics, id : 1 .. MaxMessages]
      <3>1. inbox \in Seq(M)
        BY <2>0 DEF BusTyped
      <3>2. ASSUME NEW k \in DOMAIN inbox PROVE inbox[k] \in L
        <4>1. inbox[k] \in M
          <5> HIDE DEF M
          <5> QED BY <3>1
        <4>2. inbox[k].id \in 1 .. MaxMessages
          BY <2>0, <2>2 DEF Ids
        <4> QED BY <4>1, <4>2
      <3>3. inbox = [k \in 1 .. Len(inbox) |-> inbox[k]] /\ DOMAIN inbox = 1 .. Len(inbox) /\ Len(inbox) \in Nat
        <4> HIDE DEF M
        <4> QED BY <3>1
      <3> HIDE DEF L, M
      <3>4. inbox \in [1 .. Len(inbox) -> L]
        BY <3>2, <3>3
      <3>n. PICK n \in Nat : n = Len(inbox)
        BY <3>3
      <3>5. PICK q : q = inbox /\ n = Len(inbox)
        BY <3>n
      <3>6. q \in Seq(L)
        BY <3>4, <3>5, FunctionSeq
      <3> QED BY <3>5, <3>6 DEF L
    <2>6. dispatch \in [topic : Topics \cup {None}, id : 0 .. MaxMessages, n : Nat,
                        i : Nat, own : Seq(Slots), to : Slots]
      <3>1. dispatch.id \in 0 .. MaxMessages
        <4>1. CASE dispatch = Idle
          BY <2>1, <4>1 DEF Idle
        <4>2. CASE dispatch # Idle
          BY <2>0, <2>1, <2>3, <4>2 DEF Ids
        <4> QED BY <4>1, <4>2
      <3> HIDE DEF Slots
      <3> QED BY <2>0, <3>1 DEF DispatchTyped
    <2>7. holds \in [Listeners -> 0 .. MaxMessages]
      <3>1. \A l \in Listeners : holds[l] \in 0 .. MaxMessages
        BY <2>0, <2>1 DEF CountsTyped
      <3> QED BY <2>0, <3>1 DEF CountsTyped
    <2>8. /\ owed \subseteq Listeners \X (1 .. MaxMessages)
          /\ missed \cup repeated \cup disturbed \subseteq 1 .. MaxMessages
      <3>1. ASSUME NEW o \in owed PROVE o \in Listeners \X (1 .. MaxMessages)
        <4>1. o \in Listeners \X Nat /\ o[2] \in 1 .. MaxMessages
          BY <2>0, <2>3 DEF BusTyped, Ids
        <4> QED BY <4>1
      <3>2. missed \subseteq 1 .. MaxMessages
        BY <2>0, <2>2 DEF CountsTyped
      <3>3. disturbed \subseteq 1 .. MaxMessages /\ repeated \subseteq disturbed
        BY <2>0, <2>3 DEF Ids, OnceEach
      <3> QED BY <3>1, <3>2, <3>3
    <2>9. values \in [Counters -> Seq(1 .. MaxMessages)]
      <3>1. ASSUME NEW l \in Counters PROVE values[l] \in Seq(1 .. MaxMessages)
        <4>1. values[l] \in Seq(Nat)
          BY <2>0 DEF CountsTyped
        <4>2. \A i \in DOMAIN values[l] : values[l][i] \in 1 .. MaxMessages
          <5>1. \A n \in Kept(l) : n \in 1 .. MaxMessages
            BY <2>3 DEF Counting, Once, Received
          <5> QED BY <5>1 DEF Kept, Members
        <4>3. /\ values[l] = [i \in 1 .. Len(values[l]) |-> values[l][i]]
              /\ DOMAIN values[l] = 1 .. Len(values[l]) /\ Len(values[l]) \in Nat
          BY <4>1
        <4>4. values[l] \in [1 .. Len(values[l]) -> 1 .. MaxMessages]
          BY <4>2, <4>3
        <4>n. PICK n \in Nat : n = Len(values[l])
          BY <4>3
        <4>5. PICK q : q = values[l] /\ n = Len(values[l])
          BY <4>n
        <4>6. q \in Seq(1 .. MaxMessages)
          BY <4>4, <4>5, FunctionSeq
        <4> QED BY <4>5, <4>6
      <3> QED BY <2>0, <3>1 DEF CountsTyped
    <2>10. /\ messages \in 0 .. MaxMessages /\ crashed \in BOOLEAN /\ now \in 0 .. MaxTime
           /\ channel \in [Listeners -> {"none", "open", "closed"}] /\ closers \subseteq Listeners
           /\ reader \in [Listeners -> {"off", "new", "ready", "busy", "gone"}]
           /\ sent \in [1 .. MaxMessages -> [topic : Topics \cup {None}, time : 0 .. MaxTime]]
      BY <2>0, <2>1 DEF CountsTyped, ChannelsTyped
    <2>11. /\ phase \in [Sets -> {"none", "making", "failed", "open", "closing", "closed"}]
           /\ todo \in [Sets -> Seq(Listeners)] /\ hasty \subseteq Counters
           /\ step \in [Checks -> {"idle", "increment", "get", "done"}]
           /\ in \in [Checks -> Sets \cup {None}]
           /\ tally \in [Checks -> Nat] /\ due \in [Checks -> Nat] /\ late \in [Checks -> BOOLEAN]
      BY <2>0 DEF FilterSetsTyped, ChecksInv, Tallying
    <2> QED BY <2>4, <2>5, <2>6, <2>7, <2>8, <2>9, <2>10, <2>11 DEF TypeOK
  <1> QED BY <1>1, CountsAlways, PTL
=============================================================================
