-------------------------- MODULE CommunityCacheProofs --------------------------
(***************************************************************************)
(* Proofs about CommunityCache, for any number of checks, communities,     *)
(* rooms and changes, with and without a replica and lost notifications.   *)
(*                                                                         *)
(* A cached entry is out of date only with a reason; the reason must be    *)
(* there before, when a check that has read the old row has yet to cache   *)
(* it, and when the replica has yet to get the new one (ConfigFollowed,    *)
(* HomeFollowed).  It must not be the invalidation that is half done:      *)
(* that one deletes what is cached and forgets about what is not.          *)
(***************************************************************************)
EXTENDS CommunityCache, TLAPS

(* No configuration has changed more often than there were changes.        *)
Counted ==
    \A c \in Communities : db.config[c] <= changes /\ replica.config[c] <= changes

(* What a check has found once it has got so far, and who built a set.     *)
Shape ==
    /\ \A k \in Checks : stage[k] \in {"room", "community", "build"} => found[k] \in Communities
    /\ \A k \in Checks : stage[k] = "room" => target[k] \in Rooms
    /\ \A c \in Communities : filterSets[c] # None =>
          stage[filterSets[c]] \in {"use", "done"} /\ found[filterSets[c]] = c
    /\ \A k \in live : stage[k] \in {"use", "done"}

ToldConfig(c) == c \in ToSet(inbox.config) \/ c \in raced
ToldHome(r) == r \in ToSet(inbox.home) \/ r \in raced

ConfigFollowed ==
    \A c \in Communities :
        /\ StaleSet(c) => ToldConfig(c) \/ dropping = c
        /\ OldConfigAbout(c) => ToldConfig(c)

HomeFollowed ==
    \A r \in Rooms : StaleRoom(r) \/ OldHomeAbout(r) => ToldHome(r)

(* Who builds a set does so alone, or its community is on the books.       *)
OneBuilder ==
    \A k \in Checks : stage[k] = "build" =>
        \/ found[k] \in overlapped
        \/ /\ \A j \in Checks : stage[j] = "build" /\ found[j] = found[k] => j = k
           /\ filterSets[found[k]] = None
           /\ dropping # found[k]

(* What is deleted was closed, or its community is on the books.           *)
Closed ==
    /\ LostMeansOverlapped
    /\ dropping # None =>
          (filterSets[dropping] \in live => dropping \in overlapped)

Typed == TypeOK /\ Counted /\ Shape

USE CacheAssumption

(* A queue without its head, and one with one more at its end.             *)
LEMMA Queue ==
    ASSUME NEW S, NEW q \in Seq(S), NEW e \in S
    PROVE  /\ Append(q, e) \in Seq(S)
           /\ ToSet(Append(q, e)) = ToSet(q) \cup {e}
           /\ q # <<>> => /\ Head(q) \in S /\ Head(q) \in ToSet(q)
                          /\ Tail(q) \in Seq(S)
                          /\ ToSet(q) = {Head(q)} \cup ToSet(Tail(q))
           /\ ToSet(<<>>) = {}
  <1>1. ToSet(Append(q, e)) = ToSet(q) \cup {e}
    <2>1. \A i \in 1 .. Len(q) + 1 :
              Append(q, e)[i] = IF i = Len(q) + 1 THEN e ELSE q[i]
      OBVIOUS
    <2>2. DOMAIN Append(q, e) = 1 .. Len(q) + 1 /\ DOMAIN q = 1 .. Len(q) /\ Len(q) \in Nat
      OBVIOUS
    <2>3. ASSUME NEW x PROVE x \in ToSet(Append(q, e)) => x \in ToSet(q) \cup {e}
      BY <2>1, <2>2 DEF ToSet
    <2>4. ASSUME NEW x \in ToSet(q) PROVE x \in ToSet(Append(q, e))
      <3>1. PICK i \in 1 .. Len(q) : x = q[i]
        BY <2>2 DEF ToSet
      <3>2. i \in DOMAIN Append(q, e) /\ Append(q, e)[i] = x
        BY <2>1, <2>2, <3>1
      <3> QED BY <3>2 DEF ToSet
    <2>5. e \in ToSet(Append(q, e))
      <3>1. Len(q) + 1 \in DOMAIN Append(q, e) /\ Append(q, e)[Len(q) + 1] = e
        BY <2>1, <2>2
      <3> QED BY <3>1 DEF ToSet
    <2> QED BY <2>3, <2>4, <2>5
  <1>2. ASSUME q # <<>>
        PROVE  /\ Head(q) \in S /\ Head(q) \in ToSet(q) /\ Tail(q) \in Seq(S)
               /\ ToSet(q) = {Head(q)} \cup ToSet(Tail(q))
    <2>1. /\ Len(q) \in Nat \ {0} /\ DOMAIN q = 1 .. Len(q) /\ Head(q) = q[1]
          /\ Tail(q) \in Seq(S) /\ DOMAIN Tail(q) = 1 .. Len(q) - 1
          /\ \A i \in 1 .. Len(q) - 1 : Tail(q)[i] = q[i + 1]
      BY <1>2
    <2>2. Head(q) \in ToSet(q) /\ Head(q) \in S
      BY <2>1 DEF ToSet
    <2>3. ASSUME NEW x \in ToSet(q) PROVE x \in {Head(q)} \cup ToSet(Tail(q))
      <3>1. PICK i \in 1 .. Len(q) : x = q[i]
        BY <2>1 DEF ToSet
      <3>2. CASE i = 1
        BY <2>1, <3>1, <3>2
      <3>3. CASE i # 1
        <4>1. i - 1 \in DOMAIN Tail(q) /\ Tail(q)[i - 1] = x
          BY <2>1, <3>1, <3>3
        <4> QED BY <4>1 DEF ToSet
      <3> QED BY <3>2, <3>3
    <2>4. ASSUME NEW x \in ToSet(Tail(q)) PROVE x \in ToSet(q)
      <3>1. PICK i \in 1 .. Len(q) - 1 : x = Tail(q)[i]
        BY <2>1 DEF ToSet
      <3>2. i + 1 \in DOMAIN q /\ q[i + 1] = x
        BY <2>1, <3>1
      <3> QED BY <3>2 DEF ToSet
    <2> QED BY <2>1, <2>2, <2>3, <2>4
  <1>3. ToSet(<<>>) = {}
    BY DEF ToSet
  <1> QED BY <1>1, <1>2, <1>3

(* The steps of Next, one by one.                                          *)
LEMMA Cases ==
    ASSUME Next
    PROVE  \/ \E c \in Communities : ChangeConfig(c)
           \/ \E r \in Rooms : MoveRoom(r)
           \/ \E r \in Rooms : Expire(r)
           \/ Replicate
           \/ \E k \in Checks, r \in Rooms : FindCommunity(k, r)
           \/ \E k \in Checks, c \in Communities : CheckText(k, c)
           \/ \E k \in Checks : CacheRoom(k)
           \/ \E k \in Checks : FindSet(k)
           \/ \E k \in Checks : CacheSet(k)
           \/ \E k \in Checks : End(k)
           \/ CloseSet
           \/ DeleteSet
           \/ DeleteRoomId
           \/ Restart
  BY Zenon DEF Next, Progress, Invalidation

(* Of a notification that is on its way or lost.                           *)
LEMMA NotifyConfig ==
    ASSUME TypeOK, NEW c \in Communities, Notify("config", c)
    PROVE  /\ inbox' \in [config : Seq(Communities), home : Seq(Rooms)]
           /\ raced' \in SUBSET (Communities \cup Rooms)
           /\ inbox'.home = inbox.home
           /\ ToSet(inbox.config) \subseteq ToSet(inbox'.config) /\ raced \subseteq raced'
           /\ c \in ToSet(inbox'.config) \cup raced'
  <1>1. CASE inbox' = [inbox EXCEPT !["config"] = Append(@, c)] /\ raced' = raced
    <2>1. inbox' = [config |-> Append(inbox.config, c), home |-> inbox.home]
      BY <1>1 DEF TypeOK
    <2>2. inbox.config \in Seq(Communities) /\ inbox.home \in Seq(Rooms)
      BY DEF TypeOK
    <2>3. /\ Append(inbox.config, c) \in Seq(Communities)
          /\ ToSet(Append(inbox.config, c)) = ToSet(inbox.config) \cup {c}
      BY <2>2, Queue
    <2>4. /\ inbox'.config = Append(inbox.config, c) /\ inbox'.home = inbox.home
          /\ inbox' \in [config : Seq(Communities), home : Seq(Rooms)]
      BY <2>1, <2>2, <2>3
    <2>5. raced \in SUBSET (Communities \cup Rooms)
      BY DEF TypeOK
    <2> QED BY <1>1, <2>3, <2>4, <2>5
  <1>2. CASE raced' = raced \cup {c} /\ inbox' = inbox
    BY <1>2 DEF TypeOK
  <1> QED BY <1>1, <1>2 DEF Notify

LEMMA NotifyHome ==
    ASSUME TypeOK, NEW r \in Rooms, Notify("home", r)
    PROVE  /\ inbox' \in [config : Seq(Communities), home : Seq(Rooms)]
           /\ raced' \in SUBSET (Communities \cup Rooms)
           /\ inbox'.config = inbox.config
           /\ ToSet(inbox.home) \subseteq ToSet(inbox'.home) /\ raced \subseteq raced'
           /\ r \in ToSet(inbox'.home) \cup raced'
  <1>1. CASE inbox' = [inbox EXCEPT !["home"] = Append(@, r)] /\ raced' = raced
    <2>1. inbox' = [config |-> inbox.config, home |-> Append(inbox.home, r)]
      BY <1>1 DEF TypeOK
    <2>2. inbox.config \in Seq(Communities) /\ inbox.home \in Seq(Rooms)
      BY DEF TypeOK
    <2>3. /\ Append(inbox.home, r) \in Seq(Rooms)
          /\ ToSet(Append(inbox.home, r)) = ToSet(inbox.home) \cup {r}
      BY <2>2, Queue
    <2>4. /\ inbox'.config = inbox.config /\ inbox'.home = Append(inbox.home, r)
          /\ inbox' \in [config : Seq(Communities), home : Seq(Rooms)]
      BY <2>1, <2>2, <2>3
    <2>5. raced \in SUBSET (Communities \cup Rooms)
      BY DEF TypeOK
    <2> QED BY <1>1, <2>3, <2>4, <2>5
  <1>2. CASE raced' = raced \cup {r} /\ inbox' = inbox
    BY <1>2 DEF TypeOK
  <1> QED BY <1>1, <1>2 DEF Notify

(***************************************************************************)
(* Types                                                                   *)
(***************************************************************************)

LEMMA TypedAtInit == Init => Typed
  <1> SUFFICES ASSUME Init PROVE Typed
    OBVIOUS
  <1>1. TypeOK
    BY DEF Init, TypeOK
  <1>2. Counted
    BY DEF Init, Counted
  <1>3. Shape
    BY DEF Init, Shape
  <1> QED BY <1>1, <1>2, <1>3 DEF Typed

(* What is cached was built before.                                        *)
LEMMA BuiltBefore ==
    ASSUME Typed, NEW k \in Checks, stage[k] \notin {"use", "done"}
    PROVE  /\ \A c \in Communities : filterSets[c] # None => filterSets[c] \in Checks \ {k}
           /\ k \notin live
  <1>1. filterSets \in [Communities -> Checks \cup {None}]
    BY DEF Typed, TypeOK
  <1> QED BY <1>1 DEF Typed, Shape

LEMMA TypedStep == Typed /\ [Next]_vars => Typed'
  <1> SUFFICES ASSUME Typed, [Next]_vars PROVE Typed'
    OBVIOUS
  <1> USE DEF Typed
  <1>1. ASSUME NEW c \in Communities, ChangeConfig(c) PROVE Typed'
    <2>1. /\ db' = [config |-> [db.config EXCEPT ![c] = @ + 1], home |-> db.home]
          /\ changes < MaxChanges /\ changes' = changes + 1
          /\ UNCHANGED <<replica, filterSets, roomIds, dropping, stage, target, found,
                         version, set, live, overlapped>>
      BY <1>1 DEF ChangeConfig, TypeOK, caches, checks
    <2>2. /\ inbox' \in [config : Seq(Communities), home : Seq(Rooms)]
          /\ raced' \in SUBSET (Communities \cup Rooms)
      BY <1>1, NotifyConfig DEF ChangeConfig
    <2>3. /\ db.config \in [Communities -> 0 .. MaxChanges] /\ db.home \in [Rooms -> Communities]
          /\ db'.config = [db.config EXCEPT ![c] = @ + 1] /\ changes \in 0 .. MaxChanges
          /\ replica.config \in [Communities -> 0 .. MaxChanges]
      BY <2>1 DEF TypeOK
    <2>4. db'.config \in [Communities -> 0 .. MaxChanges]
      BY <2>1, <2>3 DEF Counted
    <2>5. db' \in [config : [Communities -> 0 .. MaxChanges], home : [Rooms -> Communities]]
      BY <2>1, <2>3, <2>4
    <2>6. TypeOK'
      BY <2>1, <2>2, <2>5 DEF TypeOK
    <2>7. Counted'
      BY <2>1, <2>3 DEF Counted
    <2>8. Shape'
      BY <2>1 DEF Shape
    <2> QED BY <2>6, <2>7, <2>8
  <1>2. ASSUME NEW r \in Rooms, MoveRoom(r) PROVE Typed'
    <2>1. PICK c \in Communities : db' = [config |-> db.config, home |-> [db.home EXCEPT ![r] = c]]
      BY <1>2 DEF MoveRoom, TypeOK
    <2>2. /\ changes < MaxChanges /\ changes' = changes + 1
          /\ UNCHANGED <<replica, filterSets, roomIds, dropping, stage, target, found,
                         version, set, live, overlapped>>
      BY <1>2 DEF MoveRoom, caches, checks
    <2>3. /\ inbox' \in [config : Seq(Communities), home : Seq(Rooms)]
          /\ raced' \in SUBSET (Communities \cup Rooms)
      BY <1>2, NotifyHome DEF MoveRoom
    <2>4. /\ db.config \in [Communities -> 0 .. MaxChanges] /\ db.home \in [Rooms -> Communities]
          /\ db'.config = db.config /\ changes \in 0 .. MaxChanges
          /\ replica.config \in [Communities -> 0 .. MaxChanges]
      BY <2>1 DEF TypeOK
    <2>5. db' \in [config : [Communities -> 0 .. MaxChanges], home : [Rooms -> Communities]]
      BY <2>1, <2>4
    <2>6. changes' \in 0 .. MaxChanges
      BY <2>2, <2>4
    <2>7. TypeOK'
      BY <2>2, <2>3, <2>5, <2>6 DEF TypeOK
    <2>8. Counted'
      BY <2>2, <2>4 DEF Counted
    <2>9. Shape'
      BY <2>2 DEF Shape
    <2> QED BY <2>7, <2>8, <2>9
  <1>3. ASSUME NEW r \in Rooms, Expire(r) PROVE Typed'
    BY <1>3 DEF Expire, TypeOK, Counted, Shape, notices, checks, history
  <1>4. CASE Replicate
    BY <1>4 DEF Replicate, TypeOK, Counted, Shape, caches, notices, checks, history
  <1>5. ASSUME NEW k \in Checks, NEW r \in Rooms, FindCommunity(k, r) PROVE Typed'
    <2> USE <1>5 DEF FindCommunity, Goto
    <2>0. Read.home[r] \in Communities
      BY DEF Read, TypeOK
    <2>1. TypeOK'
      <3>1. stage' \in [Checks -> {"idle", "room", "community", "build", "use", "done"}]
        BY DEF TypeOK
      <3>2. found' \in [Checks -> Communities \cup {None}]
        <4>1. \/ found' = [found EXCEPT ![k] = roomIds[r]]
              \/ found' = [found EXCEPT ![k] = Read.home[r]]
          OBVIOUS
        <4>2. found \in [Checks -> Communities \cup {None}]
          BY DEF TypeOK
        <4>3. {roomIds[r], Read.home[r]} \subseteq Communities \cup {None}
          BY <2>0 DEF TypeOK
        <4> QED BY ONLY <4>1, <4>2, <4>3
      <3>3. target' \in [Checks -> Rooms \cup {None}]
        BY DEF TypeOK
      <3>4. UNCHANGED <<db, replica, changes, filterSets, roomIds, inbox, dropping, version,
                        set, live, raced, overlapped>>
        BY DEF caches, notices, history
      <3> QED BY <3>1, <3>2, <3>3, <3>4 DEF TypeOK
    <2>2. Counted'
      BY DEF Counted
    <2>3. \A j \in Checks : j # k => stage'[j] = stage[j] /\ found'[j] = found[j] /\ target'[j] = target[j]
      BY DEF TypeOK
    <2>4. stage'[k] \in {"community", "room"} /\ found'[k] \in Communities /\ target'[k] = r
      BY <2>0 DEF TypeOK
    <2>5. \A c \in Communities : filterSets[c] # None => filterSets[c] \in Checks \ {k}
      BY BuiltBefore
    <2>6. k \notin live /\ UNCHANGED <<filterSets, live>>
      BY BuiltBefore DEF caches
    <2>7. live \subseteq Checks
      BY DEF TypeOK
    <2>8. Shape'
      BY <2>3, <2>4, <2>5, <2>6, <2>7 DEF Shape
    <2> QED BY <2>1, <2>2, <2>8
  <1>6. ASSUME NEW k \in Checks, NEW c \in Communities, CheckText(k, c) PROVE Typed'
    BY <1>6 DEF CheckText, Goto, TypeOK, Counted, Shape, caches, notices, history
  <1>7. ASSUME NEW k \in Checks, CacheRoom(k) PROVE Typed'
    <2> USE <1>7 DEF CacheRoom, Goto
    <2>0. stage[k] = "room" /\ target[k] \in Rooms /\ found[k] \in Communities
      BY DEF Shape
    <2>1. /\ roomIds' = [roomIds EXCEPT ![target[k]] = found[k]]
          /\ stage' = [stage EXCEPT ![k] = "community"]
          /\ UNCHANGED <<db, replica, changes, filterSets, inbox, dropping, target, found,
                         version, set, live, raced, overlapped>>
      BY DEF notices, history
    <2>2. roomIds' \in [Rooms -> Communities \cup {None}]
      BY <2>0, <2>1 DEF TypeOK
    <2>3. stage' \in [Checks -> {"idle", "room", "community", "build", "use", "done"}]
      BY <2>1 DEF TypeOK
    <2>4. TypeOK'
      BY <2>1, <2>2, <2>3 DEF TypeOK
    <2>5. Counted'
      BY <2>1 DEF Counted
    <2>6. stage'[k] = "community" /\ \A j \in Checks : j # k => stage'[j] = stage[j]
      BY <2>1 DEF TypeOK
    <2>7. ASSUME NEW c \in Communities, filterSets[c] # None
          PROVE  filterSets[c] \in Checks \ {k}
      <3>1. filterSets[c] \in Checks
        BY <2>7 DEF TypeOK
      <3>2. stage[filterSets[c]] \in {"use", "done"}
        BY <2>7 DEF Shape
      <3> QED BY <2>0, <3>1, <3>2
    <2>8. k \notin live /\ live \subseteq Checks
      BY <2>0 DEF TypeOK, Shape
    <2>9. Shape'
      BY <2>0, <2>1, <2>6, <2>7, <2>8 DEF Shape
    <2> QED BY <2>4, <2>5, <2>9
  <1>8. ASSUME NEW k \in Checks, FindSet(k) PROVE Typed'
    <2> USE <1>8 DEF FindSet, Goto
    <2>0. found[k] \in Communities /\ Read.config[found[k]] \in 0 .. MaxChanges
      BY DEF Read, TypeOK, Shape
    <2>1. /\ set' \in [Checks -> Checks \cup {None}]
          /\ version' \in [Checks -> 0 .. MaxChanges]
          /\ stage' \in [Checks -> {"idle", "room", "community", "build", "use", "done"}]
          /\ overlapped' \in SUBSET Communities
      <3>1. CASE filterSets[found[k]] # None
        BY <2>0, <3>1 DEF TypeOK
      <3>2. CASE filterSets[found[k]] = None
        <4>1. overlapped' = overlapped \/ overlapped' = overlapped \cup {found[k]}
          BY <3>2
        <4>2. version' = [version EXCEPT ![k] = Read.config[found[k]]] /\ UNCHANGED set
          BY <3>2
        <4>3. stage' = [stage EXCEPT ![k] = "build"]
          BY <3>2
        <4>4. overlapped' \in SUBSET Communities
          BY <2>0, <4>1 DEF TypeOK
        <4>5. version' \in [Checks -> 0 .. MaxChanges]
          BY <2>0, <4>2 DEF TypeOK
        <4> QED BY <4>2, <4>3, <4>4, <4>5 DEF TypeOK
      <3> QED BY <3>1, <3>2
    <2>2. TypeOK' /\ Counted'
      BY <2>1 DEF TypeOK, caches, notices, Counted
    <2>3. \A j \in Checks : j # k => stage'[j] = stage[j]
      BY DEF TypeOK
    <2>4. stage'[k] \in {"build", "use"}
      BY DEF TypeOK
    <2>5. \A c \in Communities : filterSets[c] # None => filterSets[c] \in Checks \ {k}
      BY BuiltBefore
    <2>6. k \notin live /\ live \subseteq Checks /\ UNCHANGED <<filterSets, live, found, target>>
      BY BuiltBefore DEF caches, TypeOK
    <2>7. Shape'
      BY <2>0, <2>3, <2>4, <2>5, <2>6 DEF Shape
    <2> QED BY <2>2, <2>7
  <1>9. ASSUME NEW k \in Checks, CacheSet(k) PROVE Typed'
    <2> USE <1>9 DEF CacheSet, Goto
    <2>1. TypeOK'
      BY DEF TypeOK, notices, history
    <2>2. Counted'
      BY DEF Counted
    <2>3. Shape'
      BY DEF Shape, TypeOK
    <2> QED BY <2>1, <2>2, <2>3
  <1>10. ASSUME NEW k \in Checks, End(k) PROVE Typed'
    <2> USE <1>10 DEF End, Goto
    <2>1. TypeOK' /\ Counted'
      BY DEF TypeOK, Counted, caches, notices, history
    <2>2. \A j \in Checks : j # k => stage'[j] = stage[j]
      BY DEF TypeOK
    <2>3. stage'[k] = "done"
      BY DEF TypeOK
    <2>4. \A c \in Communities : filterSets[c] # None => filterSets[c] \in Checks
      BY DEF TypeOK
    <2>5. Shape'
      BY <2>2, <2>3, <2>4 DEF Shape, TypeOK, caches
    <2> QED BY <2>1, <2>5
  <1>11. CASE CloseSet
    <2> USE <1>11 DEF CloseSet
    <2>1. Head(inbox.config) \in Communities /\ Tail(inbox.config) \in Seq(Communities)
      BY DEF TypeOK
    <2>2. TypeOK'
      BY <2>1 DEF TypeOK, caches, checks
    <2>3. Counted' /\ Shape'
      BY DEF Counted, Shape, caches, checks
    <2> QED BY <2>2, <2>3
  <1>12. CASE DeleteSet
    BY <1>12 DEF DeleteSet, TypeOK, Counted, Shape, checks, history
  <1>13. CASE DeleteRoomId
    <2> USE <1>13 DEF DeleteRoomId
    <2>1. Head(inbox.home) \in Rooms /\ Tail(inbox.home) \in Seq(Rooms)
      BY DEF TypeOK
    <2>2. TypeOK'
      BY <2>1 DEF TypeOK, checks
    <2>3. Counted' /\ Shape'
      BY DEF Counted, Shape, checks
    <2> QED BY <2>2, <2>3
  <1>14. CASE Restart
    BY <1>14 DEF Restart, TypeOK, Counted, Shape
  <1>15. CASE UNCHANGED vars
    BY <1>15 DEF vars, TypeOK, Counted, Shape
  <1> QED BY Cases, <1>1, <1>2, <1>3, <1>4, <1>5, <1>6, <1>7, <1>8, <1>9, <1>10,
             <1>11, <1>12, <1>13, <1>14, <1>15

(***************************************************************************)
(* Configurations                                                          *)
(***************************************************************************)

LEMMA ConfigAtInit == Init => ConfigFollowed
  BY DEF Init, ConfigFollowed, StaleSet, OldConfigAbout, Building, Read

(* A step that changes no configuration, caches no set and begins no build.*)
LEMMA ConfigFrame ==
    ASSUME ConfigFollowed,
           db'.config = db.config, Read'.config = Read.config,
           filterSets' = filterSets, dropping' = dropping,
           \A c \in Communities : ToldConfig(c) => ToldConfig(c)',
           \A c \in Communities : filterSets[c] # None =>
               version'[filterSets[c]] = version[filterSets[c]],
           \A k \in Checks : stage'[k] = "build" =>
               stage[k] = "build" /\ found'[k] = found[k] /\ version'[k] = version[k]
    PROVE  ConfigFollowed'
  <1> SUFFICES ASSUME NEW c \in Communities
               PROVE  /\ StaleSet(c)' => ToldConfig(c)' \/ dropping' = c
                      /\ OldConfigAbout(c)' => ToldConfig(c)'
    BY DEF ConfigFollowed
  <1>1. StaleSet(c)' => StaleSet(c)
    BY DEF StaleSet
  <1>2. OldConfigAbout(c)' => OldConfigAbout(c)
    BY DEF OldConfigAbout, Building
  <1> QED BY <1>1, <1>2 DEF ConfigFollowed

LEMMA ConfigStep == Typed /\ ConfigFollowed /\ [Next]_vars => ConfigFollowed'
  <1> SUFFICES ASSUME Typed, ConfigFollowed, [Next]_vars PROVE ConfigFollowed'
    OBVIOUS
  <1>0. /\ db \in [config : [Communities -> 0 .. MaxChanges], home : [Rooms -> Communities]]
        /\ stage \in [Checks -> {"idle", "room", "community", "build", "use", "done"}]
        /\ found \in [Checks -> Communities \cup {None}]
        /\ version \in [Checks -> 0 .. MaxChanges]
        /\ filterSets \in [Communities -> Checks \cup {None}]
        /\ inbox.config \in Seq(Communities)
    BY DEF Typed, TypeOK
  <1>1. ASSUME NEW d \in Communities, ChangeConfig(d) PROVE ConfigFollowed'
    <2>1. /\ db'.config = [db.config EXCEPT ![d] = @ + 1]
          /\ UNCHANGED <<replica, filterSets, dropping, stage, found, version>>
      BY <1>0, <1>1 DEF ChangeConfig, caches, checks
    <2>2. /\ ToldConfig(d)'
          /\ \A c \in Communities : ToldConfig(c) => ToldConfig(c)'
      BY <1>1, NotifyConfig DEF ChangeConfig, ToldConfig, Typed
    <2> SUFFICES ASSUME NEW c \in Communities, c # d
                 PROVE  /\ StaleSet(c)' => ToldConfig(c)' \/ dropping' = c
                        /\ OldConfigAbout(c)' => ToldConfig(c)'
      BY <2>2 DEF ConfigFollowed
    <2>3. db'.config[c] = db.config[c]
      BY <1>0, <2>1
    <2>4. Read'.config[c] = Read.config[c]
      BY <2>1, <2>3 DEF Read
    <2>5. StaleSet(c)' => StaleSet(c)
      BY <2>1, <2>3 DEF StaleSet
    <2>6. OldConfigAbout(c)' => OldConfigAbout(c)
      BY <2>1, <2>3, <2>4 DEF OldConfigAbout, Building
    <2> QED BY <2>1, <2>2, <2>5, <2>6 DEF ConfigFollowed
  <1>2. ASSUME NEW r \in Rooms, MoveRoom(r) PROVE ConfigFollowed'
    <2>1. db'.config = db.config /\ UNCHANGED <<replica, filterSets, dropping, stage, found, version>>
      BY <1>0, <1>2 DEF MoveRoom, caches, checks
    <2>2. \A c \in Communities : ToldConfig(c) => ToldConfig(c)'
      BY <1>2, NotifyHome DEF MoveRoom, ToldConfig, Typed
    <2>3. Read'.config = Read.config
      BY <2>1 DEF Read
    <2> QED BY <2>1, <2>2, <2>3, ConfigFrame
  <1>3. ASSUME NEW r \in Rooms, Expire(r) PROVE ConfigFollowed'
    BY <1>3, ConfigFrame DEF Expire, Read, ToldConfig, notices, checks, history
  <1>4. CASE Replicate
    <2>1. /\ Read' = db /\ db' = db
          /\ UNCHANGED <<filterSets, dropping, inbox, raced, stage, found, version>>
      BY <1>4 DEF Replicate, Read, caches, notices, checks, history
    <2> SUFFICES ASSUME NEW c \in Communities
                 PROVE  /\ StaleSet(c)' => ToldConfig(c)' \/ dropping' = c
                        /\ OldConfigAbout(c)' => ToldConfig(c)'
      BY DEF ConfigFollowed
    <2>2. StaleSet(c)' => StaleSet(c)
      BY <2>1 DEF StaleSet
    <2>3. OldConfigAbout(c)' => OldConfigAbout(c)
      BY <2>1 DEF OldConfigAbout, Building
    <2> QED BY <2>1, <2>2, <2>3 DEF ConfigFollowed, ToldConfig
  <1>5. ASSUME NEW k \in Checks, NEW r \in Rooms, FindCommunity(k, r) PROVE ConfigFollowed'
    <2>1. /\ UNCHANGED <<db, replica, filterSets, dropping, inbox, raced, version>>
          /\ \A j \in Checks : j # k => stage'[j] = stage[j] /\ found'[j] = found[j]
          /\ stage'[k] # "build"
      BY <1>0, <1>5 DEF FindCommunity, Goto, caches, notices, history
    <2> QED BY <2>1, ConfigFrame DEF Read, ToldConfig
  <1>6. ASSUME NEW k \in Checks, NEW c \in Communities, CheckText(k, c) PROVE ConfigFollowed'
    <2>1. /\ UNCHANGED <<db, replica, filterSets, dropping, inbox, raced, version>>
          /\ \A j \in Checks : j # k => stage'[j] = stage[j] /\ found'[j] = found[j]
          /\ stage'[k] # "build"
      BY <1>0, <1>6 DEF CheckText, Goto, caches, notices, history
    <2> QED BY <2>1, ConfigFrame DEF Read, ToldConfig
  <1>7. ASSUME NEW k \in Checks, CacheRoom(k) PROVE ConfigFollowed'
    <2>1. /\ UNCHANGED <<db, replica, filterSets, dropping, inbox, raced, version, found>>
          /\ \A j \in Checks : j # k => stage'[j] = stage[j]
          /\ stage'[k] # "build"
      BY <1>0, <1>7 DEF CacheRoom, Goto, notices, history
    <2> QED BY <2>1, ConfigFrame DEF Read, ToldConfig
  <1>8. ASSUME NEW k \in Checks, FindSet(k) PROVE ConfigFollowed'
    <2>1. /\ UNCHANGED <<db, replica, filterSets, dropping, inbox, raced, found>>
          /\ \A j \in Checks : j # k => stage'[j] = stage[j] /\ version'[j] = version[j]
          /\ stage'[k] = "build" => version'[k] = Read.config[found[k]]
      BY <1>0, <1>8 DEF FindSet, Goto, caches, notices
    <2>2. Read' = Read
      BY <2>1 DEF Read
    <2>3. \A c \in Communities : filterSets[c] # None => filterSets[c] \in Checks \ {k}
      BY <1>8, BuiltBefore DEF FindSet
    <2> SUFFICES ASSUME NEW c \in Communities
                 PROVE  /\ StaleSet(c)' => ToldConfig(c)' \/ dropping' = c
                        /\ OldConfigAbout(c)' => ToldConfig(c)'
      BY DEF ConfigFollowed
    <2>4. StaleSet(c)' => StaleSet(c)
      BY <2>1, <2>3 DEF StaleSet
    <2>5. OldConfigAbout(c)' => OldConfigAbout(c)
      <3> SUFFICES ASSUME NEW j \in Checks, stage'[j] = "build", found[j] = c,
                          version'[j] # db.config[c]
                   PROVE  OldConfigAbout(c)
        BY <2>1, <2>2 DEF OldConfigAbout, Building
      <3>1. CASE j = k
        BY <2>1, <3>1 DEF OldConfigAbout
      <3>2. CASE j # k
        BY <2>1, <3>2 DEF OldConfigAbout, Building
      <3> QED BY <3>1, <3>2
    <2> QED BY <2>1, <2>4, <2>5 DEF ConfigFollowed, ToldConfig
  <1>9. ASSUME NEW k \in Checks, CacheSet(k) PROVE ConfigFollowed'
    <2>1. /\ UNCHANGED <<db, replica, dropping, inbox, raced, found, version>>
          /\ filterSets' = [filterSets EXCEPT ![found[k]] = k]
          /\ stage[k] = "build"
          /\ \A j \in Checks : j # k => stage'[j] = stage[j]
          /\ stage'[k] = "use"
      BY <1>0, <1>9 DEF CacheSet, Goto, notices, history
    <2> SUFFICES ASSUME NEW c \in Communities
                 PROVE  /\ StaleSet(c)' => ToldConfig(c)' \/ dropping' = c
                        /\ OldConfigAbout(c)' => ToldConfig(c)'
      BY DEF ConfigFollowed
    <2>2. OldConfigAbout(c)' => OldConfigAbout(c)
      BY <2>1 DEF OldConfigAbout, Building, Read
    <2>3. StaleSet(c)' => StaleSet(c) \/ OldConfigAbout(c)
      <3>1. CASE c = found[k]
        BY <1>0, <2>1, <3>1 DEF StaleSet, OldConfigAbout, Building
      <3>2. CASE c # found[k]
        BY <1>0, <2>1, <3>2 DEF StaleSet
      <3> QED BY <3>1, <3>2
    <2> QED BY <2>1, <2>2, <2>3 DEF ConfigFollowed, ToldConfig
  <1>10. ASSUME NEW k \in Checks, End(k) PROVE ConfigFollowed'
    <2>1. /\ UNCHANGED <<db, replica, filterSets, dropping, inbox, raced, version, found>>
          /\ \A j \in Checks : j # k => stage'[j] = stage[j]
          /\ stage'[k] # "build"
      BY <1>0, <1>10 DEF End, Goto, caches, notices, history
    <2> QED BY <2>1, ConfigFrame DEF Read, ToldConfig
  <1>11. CASE CloseSet
    <2> DEFINE d == Head(inbox.config)
    <2>1. /\ d \in Communities
          /\ dropping = None /\ dropping' = d
          /\ inbox' = [inbox EXCEPT !.config = Tail(@)]
          /\ raced' = IF OldConfigAbout(d) THEN raced \cup {d} ELSE raced \ {d}
          /\ UNCHANGED <<db, replica, filterSets, stage, found, version>>
      BY <1>0, <1>11 DEF CloseSet, caches, checks
    <2>2. ToSet(inbox.config) = {d} \cup ToSet(inbox'.config)
      <3>1. inbox.config # <<>>
        BY <1>11 DEF CloseSet
      <3>2. inbox'.config = Tail(inbox.config)
        BY <2>1 DEF Typed, TypeOK
      <3> QED BY <1>0, <2>1, <3>1, <3>2, Queue
    <2> SUFFICES ASSUME NEW c \in Communities
                 PROVE  /\ StaleSet(c)' => ToldConfig(c)' \/ dropping' = c
                        /\ OldConfigAbout(c)' => ToldConfig(c)'
      BY DEF ConfigFollowed
    <2>3. (OldConfigAbout(c)' <=> OldConfigAbout(c)) /\ (StaleSet(c)' <=> StaleSet(c))
      BY <2>1 DEF OldConfigAbout, StaleSet, Building, Read
    <2>4. CASE c = d
      BY <2>1, <2>3, <2>4 DEF ToldConfig
    <2>5. CASE c # d
      <3>1. ToldConfig(c) => ToldConfig(c)'
        BY <2>1, <2>2, <2>5 DEF ToldConfig
      <3> QED BY <2>1, <2>3, <3>1 DEF ConfigFollowed
    <2> QED BY <2>4, <2>5
  <1>12. CASE DeleteSet
    <2>1. /\ UNCHANGED <<db, replica, inbox, raced, stage, found, version>>
          /\ filterSets' = [filterSets EXCEPT ![dropping] = None]
      BY <1>12 DEF DeleteSet, checks, history
    <2> SUFFICES ASSUME NEW c \in Communities
                 PROVE  /\ StaleSet(c)' => ToldConfig(c)' \/ dropping' = c
                        /\ OldConfigAbout(c)' => ToldConfig(c)'
      BY DEF ConfigFollowed
    <2>2. OldConfigAbout(c)' => OldConfigAbout(c)
      BY <2>1 DEF OldConfigAbout, Building, Read
    <2>3. StaleSet(c)' => StaleSet(c) /\ c # dropping
      BY <1>0, <2>1 DEF StaleSet
    <2> QED BY <2>1, <2>2, <2>3 DEF ConfigFollowed, ToldConfig
  <1>13. CASE DeleteRoomId
    <2> DEFINE r == Head(inbox.home)
    <2>1. r \in Rooms
      BY <1>13 DEF DeleteRoomId, Typed, TypeOK
    <2>2. /\ inbox'.config = inbox.config
          /\ raced' = IF OldHomeAbout(r) THEN raced \cup {r} ELSE raced \ {r}
          /\ UNCHANGED <<db, replica, filterSets, dropping, stage, found, version>>
      BY <1>13 DEF DeleteRoomId, checks, Typed, TypeOK
    <2>3. \A c \in Communities : ToldConfig(c) => ToldConfig(c)'
      BY <2>1, <2>2 DEF ToldConfig
    <2>4. Read' = Read
      BY <2>2 DEF Read
    <2> QED BY <2>2, <2>3, <2>4, ConfigFrame
  <1>14. CASE Restart
    <2>1. /\ UNCHANGED <<db, replica>>
          /\ filterSets' = [c \in Communities |-> None]
          /\ \A k \in Checks : stage'[k] \in {"idle", "done"}
          /\ \A c \in Communities : Read.config[c] # db.config[c] => c \in raced'
      BY <1>14 DEF Restart
    <2> QED BY <2>1 DEF ConfigFollowed, StaleSet, OldConfigAbout, Building, Read, ToldConfig
  <1>15. CASE UNCHANGED vars
    BY <1>15, ConfigFrame DEF vars, Read, ToldConfig
  <1> QED BY Cases, <1>1, <1>2, <1>3, <1>4, <1>5, <1>6, <1>7, <1>8, <1>9, <1>10,
             <1>11, <1>12, <1>13, <1>14, <1>15

(***************************************************************************)
(* Rooms                                                                   *)
(***************************************************************************)

LEMMA HomeAtInit == Init => HomeFollowed
  BY DEF Init, HomeFollowed, StaleRoom, OldHomeAbout, Looking, Read

(* A step that moves no room, caches no community and begins no look.      *)
LEMMA HomeFrame ==
    ASSUME HomeFollowed,
           db'.home = db.home, Read'.home = Read.home, roomIds' = roomIds,
           \A r \in Rooms : ToldHome(r) => ToldHome(r)',
           \A k \in Checks : stage'[k] = "room" =>
               stage[k] = "room" /\ target'[k] = target[k] /\ found'[k] = found[k]
    PROVE  HomeFollowed'
  <1> SUFFICES ASSUME NEW r \in Rooms
               PROVE  StaleRoom(r)' \/ OldHomeAbout(r)' => ToldHome(r)'
    BY DEF HomeFollowed
  <1>1. StaleRoom(r)' => StaleRoom(r)
    BY DEF StaleRoom
  <1>2. OldHomeAbout(r)' => OldHomeAbout(r)
    BY DEF OldHomeAbout, Looking
  <1> QED BY <1>1, <1>2 DEF HomeFollowed

LEMMA HomeStep == Typed /\ HomeFollowed /\ [Next]_vars => HomeFollowed'
  <1> SUFFICES ASSUME Typed, HomeFollowed, [Next]_vars PROVE HomeFollowed'
    OBVIOUS
  <1>0. /\ db \in [config : [Communities -> 0 .. MaxChanges], home : [Rooms -> Communities]]
        /\ stage \in [Checks -> {"idle", "room", "community", "build", "use", "done"}]
        /\ target \in [Checks -> Rooms \cup {None}]
        /\ found \in [Checks -> Communities \cup {None}]
        /\ roomIds \in [Rooms -> Communities \cup {None}]
        /\ inbox.home \in Seq(Rooms)
    BY DEF Typed, TypeOK
  <1>1. ASSUME NEW d \in Communities, ChangeConfig(d) PROVE HomeFollowed'
    <2>1. db'.home = db.home /\ UNCHANGED <<replica, roomIds, stage, target, found>>
      BY <1>0, <1>1 DEF ChangeConfig, caches, checks
    <2>2. \A r \in Rooms : ToldHome(r) => ToldHome(r)'
      BY <1>1, NotifyConfig DEF ChangeConfig, ToldHome, Typed
    <2>3. Read'.home = Read.home
      BY <2>1 DEF Read
    <2> QED BY <2>1, <2>2, <2>3, HomeFrame
  <1>2. ASSUME NEW s \in Rooms, MoveRoom(s) PROVE HomeFollowed'
    <2>1. PICK c \in Communities : db'.home = [db.home EXCEPT ![s] = c]
      BY <1>0, <1>2 DEF MoveRoom
    <2>2. UNCHANGED <<replica, roomIds, stage, target, found>>
      BY <1>2 DEF MoveRoom, caches, checks
    <2>3. /\ ToldHome(s)'
          /\ \A r \in Rooms : ToldHome(r) => ToldHome(r)'
      BY <1>2, NotifyHome DEF MoveRoom, ToldHome, Typed
    <2> SUFFICES ASSUME NEW r \in Rooms, r # s
                 PROVE  StaleRoom(r)' \/ OldHomeAbout(r)' => ToldHome(r)'
      BY <2>3 DEF HomeFollowed
    <2>4. db'.home[r] = db.home[r]
      BY <1>0, <2>1
    <2>5. Read'.home[r] = Read.home[r]
      BY <2>2, <2>4 DEF Read
    <2>6. StaleRoom(r)' => StaleRoom(r)
      BY <2>2, <2>4 DEF StaleRoom
    <2>7. OldHomeAbout(r)' => OldHomeAbout(r)
      BY <2>2, <2>4, <2>5 DEF OldHomeAbout, Looking
    <2> QED BY <2>3, <2>6, <2>7 DEF HomeFollowed
  <1>3. ASSUME NEW s \in Rooms, Expire(s) PROVE HomeFollowed'
    <2>1. /\ UNCHANGED <<db, replica, inbox, raced, stage, target, found>>
          /\ roomIds' = [roomIds EXCEPT ![s] = None]
      BY <1>3 DEF Expire, notices, checks, history
    <2> SUFFICES ASSUME NEW r \in Rooms
                 PROVE  StaleRoom(r)' \/ OldHomeAbout(r)' => ToldHome(r)'
      BY DEF HomeFollowed
    <2>2. StaleRoom(r)' => StaleRoom(r)
      BY <1>0, <2>1 DEF StaleRoom
    <2>3. OldHomeAbout(r)' => OldHomeAbout(r)
      BY <2>1 DEF OldHomeAbout, Looking, Read
    <2> QED BY <2>1, <2>2, <2>3 DEF HomeFollowed, ToldHome
  <1>4. CASE Replicate
    <2>1. /\ Read' = db /\ db' = db
          /\ UNCHANGED <<roomIds, inbox, raced, stage, target, found>>
      BY <1>4 DEF Replicate, Read, caches, notices, checks, history
    <2> SUFFICES ASSUME NEW r \in Rooms
                 PROVE  StaleRoom(r)' \/ OldHomeAbout(r)' => ToldHome(r)'
      BY DEF HomeFollowed
    <2>2. StaleRoom(r)' => StaleRoom(r)
      BY <2>1 DEF StaleRoom
    <2>3. OldHomeAbout(r)' => OldHomeAbout(r)
      BY <2>1 DEF OldHomeAbout, Looking
    <2> QED BY <2>1, <2>2, <2>3 DEF HomeFollowed, ToldHome
  <1>5. ASSUME NEW k \in Checks, NEW s \in Rooms, FindCommunity(k, s) PROVE HomeFollowed'
    <2>1. /\ UNCHANGED <<db, replica, roomIds, inbox, raced>>
          /\ \A j \in Checks : j # k =>
                stage'[j] = stage[j] /\ found'[j] = found[j] /\ target'[j] = target[j]
          /\ target'[k] = s
          /\ stage'[k] = "room" => found'[k] = Read.home[s]
      BY <1>0, <1>5 DEF FindCommunity, Goto, caches, notices, history
    <2>2. Read' = Read
      BY <2>1 DEF Read
    <2> SUFFICES ASSUME NEW r \in Rooms
                 PROVE  StaleRoom(r)' \/ OldHomeAbout(r)' => ToldHome(r)'
      BY DEF HomeFollowed
    <2>3. StaleRoom(r)' => StaleRoom(r)
      BY <2>1 DEF StaleRoom
    <2>4. OldHomeAbout(r)' => OldHomeAbout(r)
      <3> SUFFICES ASSUME NEW j \in Checks, stage'[j] = "room", target'[j] = r,
                          found'[j] # db.home[r]
                   PROVE  OldHomeAbout(r)
        BY <2>1, <2>2 DEF OldHomeAbout, Looking
      <3>1. CASE j = k
        BY <2>1, <3>1 DEF OldHomeAbout
      <3>2. CASE j # k
        BY <2>1, <3>2 DEF OldHomeAbout, Looking
      <3> QED BY <3>1, <3>2
    <2> QED BY <2>1, <2>3, <2>4 DEF HomeFollowed, ToldHome
  <1>6. ASSUME NEW k \in Checks, NEW c \in Communities, CheckText(k, c) PROVE HomeFollowed'
    <2>1. /\ UNCHANGED <<db, replica, roomIds, inbox, raced, target>>
          /\ \A j \in Checks : j # k => stage'[j] = stage[j] /\ found'[j] = found[j]
          /\ stage'[k] # "room"
      BY <1>0, <1>6 DEF CheckText, Goto, caches, notices, history
    <2> QED BY <2>1, HomeFrame DEF Read, ToldHome
  <1>7. ASSUME NEW k \in Checks, CacheRoom(k) PROVE HomeFollowed'
    <2>1. /\ UNCHANGED <<db, replica, inbox, raced, target, found>>
          /\ roomIds' = [roomIds EXCEPT ![target[k]] = found[k]]
          /\ stage[k] = "room"
          /\ \A j \in Checks : j # k => stage'[j] = stage[j]
          /\ stage'[k] = "community"
      BY <1>0, <1>7 DEF CacheRoom, Goto, notices, history
    <2> SUFFICES ASSUME NEW r \in Rooms
                 PROVE  StaleRoom(r)' \/ OldHomeAbout(r)' => ToldHome(r)'
      BY DEF HomeFollowed
    <2>2. OldHomeAbout(r)' => OldHomeAbout(r)
      BY <2>1 DEF OldHomeAbout, Looking, Read
    <2>3. StaleRoom(r)' => StaleRoom(r) \/ OldHomeAbout(r)
      <3>1. CASE r = target[k]
        BY <1>0, <2>1, <3>1 DEF StaleRoom, OldHomeAbout, Looking
      <3>2. CASE r # target[k]
        BY <1>0, <2>1, <3>2 DEF StaleRoom
      <3> QED BY <3>1, <3>2
    <2> QED BY <2>1, <2>2, <2>3 DEF HomeFollowed, ToldHome
  <1>8. ASSUME NEW k \in Checks, FindSet(k) PROVE HomeFollowed'
    <2>1. /\ UNCHANGED <<db, replica, roomIds, inbox, raced, target, found>>
          /\ \A j \in Checks : j # k => stage'[j] = stage[j]
          /\ stage'[k] # "room"
      BY <1>0, <1>8 DEF FindSet, Goto, caches, notices
    <2> QED BY <2>1, HomeFrame DEF Read, ToldHome
  <1>9. ASSUME NEW k \in Checks, CacheSet(k) PROVE HomeFollowed'
    <2>1. /\ UNCHANGED <<db, replica, roomIds, inbox, raced, target, found>>
          /\ \A j \in Checks : j # k => stage'[j] = stage[j]
          /\ stage'[k] # "room"
      BY <1>0, <1>9 DEF CacheSet, Goto, notices, history
    <2> QED BY <2>1, HomeFrame DEF Read, ToldHome
  <1>10. ASSUME NEW k \in Checks, End(k) PROVE HomeFollowed'
    <2>1. /\ UNCHANGED <<db, replica, roomIds, inbox, raced, target, found>>
          /\ \A j \in Checks : j # k => stage'[j] = stage[j]
          /\ stage'[k] # "room"
      BY <1>0, <1>10 DEF End, Goto, caches, notices, history
    <2> QED BY <2>1, HomeFrame DEF Read, ToldHome
  <1>11. CASE CloseSet
    <2> DEFINE d == Head(inbox.config)
    <2>1. d \in Communities
      BY <1>11 DEF CloseSet, Typed, TypeOK
    <2>2. /\ inbox'.home = inbox.home
          /\ raced' = IF OldConfigAbout(d) THEN raced \cup {d} ELSE raced \ {d}
          /\ UNCHANGED <<db, replica, roomIds, stage, target, found>>
      BY <1>11 DEF CloseSet, caches, checks, Typed, TypeOK
    <2>3. \A r \in Rooms : ToldHome(r) => ToldHome(r)'
      BY <2>1, <2>2 DEF ToldHome
    <2>4. Read' = Read
      BY <2>2 DEF Read
    <2> QED BY <2>2, <2>3, <2>4, HomeFrame
  <1>12. CASE DeleteSet
    <2>1. UNCHANGED <<db, replica, roomIds, inbox, raced, stage, target, found>>
      BY <1>12 DEF DeleteSet, checks, history
    <2> QED BY <2>1, HomeFrame DEF Read, ToldHome
  <1>13. CASE DeleteRoomId
    <2> DEFINE s == Head(inbox.home)
    <2>1. /\ s \in Rooms
          /\ inbox' = [inbox EXCEPT !.home = Tail(@)]
          /\ roomIds' = [roomIds EXCEPT ![s] = None]
          /\ raced' = IF OldHomeAbout(s) THEN raced \cup {s} ELSE raced \ {s}
          /\ UNCHANGED <<db, replica, stage, target, found>>
      BY <1>0, <1>13 DEF DeleteRoomId, checks
    <2>2. ToSet(inbox.home) = {s} \cup ToSet(inbox'.home)
      <3>1. inbox.home # <<>>
        BY <1>13 DEF DeleteRoomId
      <3>2. inbox'.home = Tail(inbox.home)
        BY <2>1 DEF Typed, TypeOK
      <3> QED BY <1>0, <2>1, <3>1, <3>2, Queue
    <2> SUFFICES ASSUME NEW r \in Rooms
                 PROVE  StaleRoom(r)' \/ OldHomeAbout(r)' => ToldHome(r)'
      BY DEF HomeFollowed
    <2>3. (OldHomeAbout(r)' <=> OldHomeAbout(r)) /\ (StaleRoom(r)' => StaleRoom(r) /\ r # s)
      BY <1>0, <2>1 DEF OldHomeAbout, StaleRoom, Looking, Read
    <2>4. CASE r = s
      BY <2>1, <2>3, <2>4 DEF ToldHome
    <2>5. CASE r # s
      <3>1. ToldHome(r) => ToldHome(r)'
        BY <2>1, <2>2, <2>5 DEF ToldHome
      <3> QED BY <2>3, <3>1 DEF HomeFollowed
    <2> QED BY <2>4, <2>5
  <1>14. CASE Restart
    <2>1. /\ UNCHANGED <<db, replica>>
          /\ roomIds' = [r \in Rooms |-> None]
          /\ \A k \in Checks : stage'[k] \in {"idle", "done"}
          /\ \A r \in Rooms : Read.home[r] # db.home[r] => r \in raced'
      BY <1>14 DEF Restart
    <2> QED BY <2>1 DEF HomeFollowed, StaleRoom, OldHomeAbout, Looking, Read, ToldHome
  <1>15. CASE UNCHANGED vars
    BY <1>15, HomeFrame DEF vars, Read, ToldHome
  <1> QED BY Cases, <1>1, <1>2, <1>3, <1>4, <1>5, <1>6, <1>7, <1>8, <1>9, <1>10,
             <1>11, <1>12, <1>13, <1>14, <1>15

(***************************************************************************)
(* Closing                                                                 *)
(***************************************************************************)

Books == OneBuilder /\ Closed

LEMMA BooksAtInit == Init => Books
  BY DEF Init, Books, OneBuilder, Closed, LostMeansOverlapped

(* A step that builds and drops nothing.                                   *)
LEMMA BooksFrame ==
    ASSUME Typed, Books,
           filterSets' = filterSets, dropping' = dropping, live' = live,
           overlapped \subseteq overlapped',
           \A k \in Checks : stage'[k] = "build" => stage[k] = "build" /\ found'[k] = found[k],
           \A k \in live : found'[k] = found[k]
    PROVE  Books'
  <1>1. \A k \in Checks : stage[k] = "build" => found[k] \in Communities
    BY DEF Typed, Shape
  <1>2. OneBuilder'
    BY <1>1 DEF Books, OneBuilder
  <1>3. \A k \in live : Cached(k) => Cached(k)'
    BY DEF Cached
  <1>4. Closed'
    BY <1>3 DEF Books, Closed, LostMeansOverlapped
  <1> QED BY <1>2, <1>4 DEF Books

LEMMA BooksStep == Typed /\ Books /\ [Next]_vars => Books'
  <1> SUFFICES ASSUME Typed, Books, [Next]_vars PROVE Books'
    OBVIOUS
  <1>0. /\ stage \in [Checks -> {"idle", "room", "community", "build", "use", "done"}]
        /\ found \in [Checks -> Communities \cup {None}]
        /\ filterSets \in [Communities -> Checks \cup {None}]
        /\ live \subseteq Checks
        /\ dropping \in Communities \cup {None}
    BY DEF Typed, TypeOK
  <1>1. ASSUME NEW c \in Communities, ChangeConfig(c) PROVE Books'
    BY <1>1, BooksFrame DEF ChangeConfig, caches, checks
  <1>2. ASSUME NEW r \in Rooms, MoveRoom(r) PROVE Books'
    BY <1>2, BooksFrame DEF MoveRoom, caches, checks
  <1>3. ASSUME NEW r \in Rooms, Expire(r) PROVE Books'
    BY <1>3, BooksFrame DEF Expire, notices, checks, history
  <1>4. CASE Replicate
    BY <1>4, BooksFrame DEF Replicate, caches, notices, checks, history
  <1>5. ASSUME NEW k \in Checks, NEW r \in Rooms, FindCommunity(k, r) PROVE Books'
    <2>1. /\ UNCHANGED <<filterSets, dropping, live, overlapped>>
          /\ \A j \in Checks : j # k => stage'[j] = stage[j] /\ found'[j] = found[j]
          /\ stage'[k] # "build" /\ stage[k] = "idle"
      BY <1>0, <1>5 DEF FindCommunity, Goto, caches, notices, history
    <2>2. k \notin live
      BY <2>1, BuiltBefore
    <2> QED BY <1>0, <2>1, <2>2, BooksFrame
  <1>6. ASSUME NEW k \in Checks, NEW c \in Communities, CheckText(k, c) PROVE Books'
    <2>1. /\ UNCHANGED <<filterSets, dropping, live, overlapped>>
          /\ \A j \in Checks : j # k => stage'[j] = stage[j] /\ found'[j] = found[j]
          /\ stage'[k] # "build" /\ stage[k] = "idle"
      BY <1>0, <1>6 DEF CheckText, Goto, caches, notices, history
    <2>2. k \notin live
      BY <2>1, BuiltBefore
    <2> QED BY <1>0, <2>1, <2>2, BooksFrame
  <1>7. ASSUME NEW k \in Checks, CacheRoom(k) PROVE Books'
    <2>1. /\ UNCHANGED <<filterSets, dropping, live, overlapped, found>>
          /\ \A j \in Checks : j # k => stage'[j] = stage[j]
          /\ stage'[k] # "build"
      BY <1>0, <1>7 DEF CacheRoom, Goto, notices, history
    <2> QED BY <2>1, BooksFrame
  <1>8. ASSUME NEW k \in Checks, FindSet(k) PROVE Books'
    <2>1. /\ UNCHANGED <<filterSets, dropping, live, found>>
          /\ overlapped \subseteq overlapped'
          /\ \A j \in Checks : j # k => stage'[j] = stage[j]
      BY <1>0, <1>8 DEF FindSet, Goto, caches, notices
    <2>2. CASE filterSets[found[k]] # None
      <3>1. stage'[k] # "build"
        BY <1>0, <1>8, <2>2 DEF FindSet, Goto
      <3> QED BY <2>1, <3>1, BooksFrame
    <2>3. CASE filterSets[found[k]] = None
      <3>1. /\ stage'[k] = "build"
            /\ Building(found[k]) # {} \/ dropping = found[k] => found[k] \in overlapped'
        BY <1>0, <1>8, <2>3 DEF FindSet, Goto
      <3>2. OneBuilder'
        <4> SUFFICES ASSUME NEW i \in Checks, stage'[i] = "build", found[i] \notin overlapped'
                     PROVE  /\ \A j \in Checks : stage'[j] = "build" /\ found[j] = found[i] => j = i
                            /\ filterSets[found[i]] = None
                            /\ dropping # found[i]
          BY <2>1 DEF OneBuilder
        <4>1. CASE i = k
          BY <2>1, <2>3, <3>1, <4>1 DEF Building
        <4>2. CASE i # k
          <5>1. stage[i] = "build" /\ found[i] \notin overlapped
            BY <2>1, <4>2
          <5>2. found[i] # found[k]
            BY <3>1, <5>1 DEF Building
          <5> QED BY <2>1, <5>1, <5>2 DEF Books, OneBuilder
        <4> QED BY <4>1, <4>2
      <3>3. Closed'
        BY <2>1 DEF Books, Closed, LostMeansOverlapped, Cached
      <3> QED BY <3>2, <3>3 DEF Books
    <2> QED BY <2>2, <2>3
  <1>9. ASSUME NEW k \in Checks, CacheSet(k) PROVE Books'
    <2> DEFINE c == found[k]
    <2>1. /\ UNCHANGED <<dropping, found, overlapped>>
          /\ filterSets' = [filterSets EXCEPT ![c] = k]
          /\ live' = live \cup {k}
          /\ stage[k] = "build" /\ stage'[k] = "use"
          /\ \A j \in Checks : j # k => stage'[j] = stage[j]
          /\ c \in Communities
      BY <1>0, <1>9 DEF CacheSet, Goto, notices, history, Typed, Shape
    <2>2. OneBuilder'
      BY <1>0, <2>1 DEF Books, OneBuilder
    <2>3. c \in overlapped \/ (filterSets[c] = None /\ dropping # c)
      BY <2>1 DEF Books, OneBuilder
    <2>4. LostMeansOverlapped'
      <3> SUFFICES ASSUME NEW j \in live', found[j] \notin overlapped PROVE Cached(j)'
        BY <2>1 DEF LostMeansOverlapped
      <3>1. CASE j = k
        BY <1>0, <2>1, <3>1 DEF Cached
      <3>2. CASE j # k
        <4>1. PICK d \in Communities : filterSets[d] = j
          BY <2>1, <3>2 DEF Books, Closed, LostMeansOverlapped, Cached
        <4>2. j # None /\ found[j] = d
          BY <1>0, <2>1, <3>2, <4>1 DEF Typed, Shape
        <4>3. d # c
          BY <2>3, <4>1, <4>2
        <4> QED BY <1>0, <2>1, <4>1, <4>3 DEF Cached
      <3> QED BY <3>1, <3>2
    <2>5. dropping # None => (filterSets'[dropping] \in live' => dropping \in overlapped)
      <3>1. CASE dropping = c
        BY <2>3, <3>1
      <3>2. CASE dropping # c /\ dropping # None
        <4>1. filterSets'[dropping] = filterSets[dropping] /\ filterSets[dropping] # k
          BY <1>0, <2>1, <3>2, BuiltBefore
        <4> QED BY <2>1, <4>1 DEF Books, Closed
      <3> QED BY <3>1, <3>2
    <2> QED BY <2>1, <2>2, <2>4, <2>5 DEF Books, Closed
  <1>10. ASSUME NEW k \in Checks, End(k) PROVE Books'
    <2>1. /\ UNCHANGED <<filterSets, dropping, live, overlapped, found>>
          /\ \A j \in Checks : j # k => stage'[j] = stage[j]
          /\ stage'[k] # "build"
      BY <1>0, <1>10 DEF End, Goto, caches, notices, history
    <2> QED BY <2>1, BooksFrame
  <1>11. CASE CloseSet
    <2> DEFINE c == Head(inbox.config)
    <2>1. /\ dropping' = c
          /\ live' = live \ {filterSets[c]}
          /\ overlapped \subseteq overlapped'
          /\ Building(c) # {} => c \in overlapped'
          /\ UNCHANGED <<filterSets, stage, found>>
      BY <1>11 DEF CloseSet, caches, checks
    <2>2. OneBuilder'
      BY <2>1 DEF Books, OneBuilder, Building
    <2>3. Closed'
      BY <2>1 DEF Books, Closed, LostMeansOverlapped, Cached
    <2> QED BY <2>2, <2>3 DEF Books
  <1>12. CASE DeleteSet
    <2>1. /\ dropping \in Communities /\ dropping' = None
          /\ filterSets' = [filterSets EXCEPT ![dropping] = None]
          /\ UNCHANGED <<live, overlapped, stage, found>>
      BY <1>0, <1>12 DEF DeleteSet, checks, history
    <2>2. OneBuilder'
      BY <1>0, <2>1 DEF Books, OneBuilder, Typed, Shape
    <2>3. LostMeansOverlapped'
      <3> SUFFICES ASSUME NEW j \in live, found[j] \notin overlapped PROVE Cached(j)'
        BY <2>1 DEF LostMeansOverlapped
      <3>1. PICK d \in Communities : filterSets[d] = j
        BY DEF Books, Closed, LostMeansOverlapped, Cached
      <3>2. j # None /\ found[j] = d
        BY <1>0, <3>1 DEF Typed, Shape
      <3>3. d # dropping
        BY <2>1, <3>1, <3>2 DEF Books, Closed
      <3> QED BY <1>0, <2>1, <3>1, <3>3 DEF Cached
    <2> QED BY <2>1, <2>2, <2>3 DEF Books, Closed
  <1>13. CASE DeleteRoomId
    BY <1>13, BooksFrame DEF DeleteRoomId, checks
  <1>14. CASE Restart
    <2>1. /\ live' = {} /\ dropping' = None
          /\ \A k \in Checks : stage'[k] \in {"idle", "done"}
      BY <1>14 DEF Restart
    <2> QED BY <2>1 DEF Books, OneBuilder, Closed, LostMeansOverlapped
  <1>15. CASE UNCHANGED vars
    BY <1>15, BooksFrame DEF vars
  <1> QED BY Cases, <1>1, <1>2, <1>3, <1>4, <1>5, <1>6, <1>7, <1>8, <1>9, <1>10,
             <1>11, <1>12, <1>13, <1>14, <1>15

(***************************************************************************)
(* Theorems                                                                *)
(***************************************************************************)

(* All of it, in every state.                                              *)
LEMMA Invariant == Spec => [](Typed /\ ConfigFollowed /\ HomeFollowed /\ Books)
  <1>1. Init => Typed /\ ConfigFollowed /\ HomeFollowed /\ Books
    BY TypedAtInit, ConfigAtInit, HomeAtInit, BooksAtInit
  <1>2. Typed /\ ConfigFollowed /\ HomeFollowed /\ Books /\ [Next]_vars
           => (Typed /\ ConfigFollowed /\ HomeFollowed /\ Books)'
    BY TypedStep, ConfigStep, HomeStep, BooksStep
  <1> QED BY <1>1, <1>2, PTL DEF Spec

(* The variables of the caches keep their types.                           *)
THEOREM TypeCorrect == Spec => []TypeOK
  <1>1. Typed => TypeOK
    BY DEF Typed
  <1> QED BY <1>1, Invariant, PTL

(* Whatever checks do between a Get, a Close and a Delete, an entry is out *)
(* of date only while its notification is on the way, or when the change   *)
(* was missed or heard of while the old row could still be read.           *)
THEOREM StaleNeedsRace == Spec => []StaleMeansRaced
  <1>1. ASSUME Typed, ConfigFollowed, HomeFollowed PROVE StaleMeansRaced
    <2>1. ASSUME NEW c \in Communities, StaleSet(c) PROVE Pending(c) \/ c \in raced
      BY <1>1, <2>1 DEF ConfigFollowed, ToldConfig, Pending
    <2>2. ASSUME NEW r \in Rooms, StaleRoom(r) PROVE Pending(r) \/ r \in raced
      BY <1>1, <2>2 DEF HomeFollowed, ToldHome, Pending
    <2> QED BY <2>1, <2>2 DEF StaleMeansRaced
  <1> QED BY <1>1, Invariant, PTL

(* A filter set gets out of reach unclosed only when two builds, or a      *)
(* build and an invalidation, of its community overlapped.                 *)
THEOREM LostNeedsOverlap == Spec => []LostMeansOverlapped
  <1>1. Books => LostMeansOverlapped
    BY DEF Books, Closed
  <1> QED BY <1>1, Invariant, PTL
=============================================================================
