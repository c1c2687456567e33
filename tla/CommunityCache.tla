----------------------------- MODULE CommunityCache -----------------------------
(***************************************************************************)
(* The caches of one process's community manager (community/manager.go):   *)
(* communityFilterCache, from a community to the filter set built from its *)
(* configuration, and roomToCommunityCache, from a room to its community;  *)
(* the triggers of migration 08 that notify of changes, and the two        *)
(* goroutines that drop entries upon a notification.  Processes share the  *)
(* database alone, so one process is enough.                               *)
(*                                                                         *)
(* A configuration is the number of changes made to it.  A filter set is   *)
(* named after the check that built it.  Of a set whose construction fails *)
(* half way nothing is kept here, although a listener of it may stay.      *)
(***************************************************************************)
EXTENDS Naturals, Sequences, SequencesExt

CONSTANTS
    Checks,       \* calls of GetFilterSetForRoomId or GetFilterSetForCommunityId
    Rooms,
    Communities,
    Home,         \* [Rooms -> Communities], the community each room starts in
    None,         \* no entry
    MaxChanges,   \* bound: changes to configurations and rooms
    Reconnects,   \* TRUE when the listener may lose its connection
    ReadReplica   \* TRUE when PS_DATABASE_READ names a lagging replica

ASSUME CacheAssumption ==
    /\ Home \in [Rooms -> Communities]
    /\ Rooms \cap Communities = {}
    /\ None \notin Checks \cup Communities
    /\ MaxChanges \in Nat
    /\ {Reconnects, ReadReplica} \subseteq BOOLEAN

VARIABLES
    db,         \* the primary: config of each community, community of each room
    replica,    \* the same as the read-only connection sees it
    changes,    \* changes made so far
    filterSets, \* communityFilterCache
    roomIds,    \* roomToCommunityCache
    inbox,      \* changed communities and rooms the process has yet to hear of
    dropping,   \* community whose set was closed and is about to be deleted
    stage,      \* of each check: idle, room, community, build, use, done
    target,     \* the room of a check, None for one of a text
    found,      \* its community
    version,    \* the configuration its filter set was built from
    set,        \* the filter set it uses
    live,       \* sets that were built and not closed
    raced,      \* history: what last changed unheard, or while being read
    overlapped  \* history: communities with overlapping builds or drops

vars == <<db, replica, changes, filterSets, roomIds, inbox, dropping, stage,
          target, found, version, set, live, raced, overlapped>>
caches == <<filterSets, roomIds>>
notices == <<inbox, dropping>>
checks == <<stage, target, found, version, set>>
history == <<raced, overlapped>>

Init ==
    /\ db = [config |-> [c \in Communities |-> 0], home |-> Home]
    /\ replica = db
    /\ changes = 0
    /\ filterSets = [c \in Communities |-> None]
    /\ roomIds = [r \in Rooms |-> None]
    /\ inbox = [config |-> <<>>, home |-> <<>>]
    /\ dropping = None
    /\ stage = [k \in Checks |-> "idle"]
    /\ target = [k \in Checks |-> None]
    /\ found = [k \in Checks |-> None]
    /\ version = [k \in Checks |-> 0]
    /\ set = [k \in Checks |-> None]
    /\ live = {}
    /\ raced = {}
    /\ overlapped = {}

(* GetRoom and GetCommunity read through the read-only connection.         *)
Read == IF ReadReplica THEN replica ELSE db

Goto(k, s) == stage' = [stage EXCEPT ![k] = s]
Building(c) == {k \in Checks : stage[k] = "build" /\ found[k] = c}
Looking(r) == {k \in Checks : stage[k] = "room" /\ target[k] = r}

(* A check holds, or may still read, what c or r was before its change.    *)
OldConfigAbout(c) ==
    Read.config[c] # db.config[c] \/ \E k \in Building(c) : version[k] # db.config[c]
OldHomeAbout(r) ==
    Read.home[r] # db.home[r] \/ \E k \in Looking(r) : found[k] # db.home[r]

(***************************************************************************)
(* Changes                                                                 *)
(***************************************************************************)

(* The trigger's notification reaches the process, or finds it without a   *)
(* connection to the database.                                             *)
Notify(topic, x) ==
    \/ inbox' = [inbox EXCEPT ![topic] = Append(@, x)] /\ UNCHANGED raced
    \/ Reconnects /\ raced' = raced \cup {x} /\ UNCHANGED inbox

(* UpsertCommunity with another configuration.                             *)
ChangeConfig(c) ==
    /\ changes < MaxChanges
    /\ changes' = changes + 1
    /\ db' = [db EXCEPT !.config[c] = @ + 1]
    /\ Notify("config", c)
    /\ UNCHANGED <<replica, caches, dropping, checks, live, overlapped>>

(* Mutant: the trigger sends the new community instead of the room.        *)
MoveRoomNotifyingCommunity(r) ==
    /\ changes < MaxChanges
    /\ changes' = changes + 1
    /\ \E c \in Communities \ {db.home[r]} :
          db' = [db EXCEPT !.home[r] = c] /\ Notify("home", c)
    /\ UNCHANGED <<replica, caches, dropping, checks, live, overlapped>>

(* UpsertRoom with another community: two communities that join a room at  *)
(* once, or a row that was read before it moved and is written back.       *)
MoveRoom(r) ==
    /\ changes < MaxChanges
    /\ changes' = changes + 1
    /\ \E c \in Communities \ {db.home[r]} : db' = [db EXCEPT !.home[r] = c]
    /\ Notify("home", r)
    /\ UNCHANGED <<replica, caches, dropping, checks, live, overlapped>>

Replicate ==
    /\ ReadReplica
    /\ replica # db
    /\ replica' = db
    /\ UNCHANGED <<db, changes, caches, notices, checks, live, history>>

(***************************************************************************)
(* Checks                                                                  *)
(***************************************************************************)

(* getCommunityIdForRoom: the cached community, or the one of the row that *)
(* is about to be cached.                                                  *)
FindCommunity(k, r) ==
    /\ stage[k] = "idle"
    /\ target' = [target EXCEPT ![k] = r]
    /\ IF roomIds[r] # None
       THEN found' = [found EXCEPT ![k] = roomIds[r]] /\ Goto(k, "community")
       ELSE found' = [found EXCEPT ![k] = Read.home[r]] /\ Goto(k, "room")
    /\ UNCHANGED <<db, replica, changes, caches, notices, version, set, live, history>>

CacheRoom(k) ==
    /\ stage[k] = "room"
    /\ roomIds' = [roomIds EXCEPT ![target[k]] = found[k]]
    /\ Goto(k, "community")
    /\ UNCHANGED <<db, replica, changes, filterSets, notices, target, found, version,
                   set, live, history>>

(* The text API asks for the filter set of a community.                    *)
CheckText(k, c) ==
    /\ stage[k] = "idle"
    /\ found' = [found EXCEPT ![k] = c]
    /\ Goto(k, "community")
    /\ UNCHANGED <<db, replica, changes, caches, notices, target, version, set,
                   live, history>>

(* GetFilterSetForCommunityId: the cached set, or the configuration to     *)
(* build one from.                                                         *)
FindSet(k) ==
    LET c == found[k] IN
    /\ stage[k] = "community"
    /\ IF filterSets[c] # None
       THEN /\ set' = [set EXCEPT ![k] = filterSets[c]]
            /\ Goto(k, "use")
            /\ UNCHANGED <<version, overlapped>>
       ELSE /\ version' = [version EXCEPT ![k] = Read.config[c]]
            /\ Goto(k, "build")
            /\ overlapped' = IF Building(c) # {} \/ dropping = c
                             THEN overlapped \cup {c} ELSE overlapped
            /\ UNCHANGED set
    /\ UNCHANGED <<db, replica, changes, caches, notices, target, found, live, raced>>

(* Mutant: the set is used and not cached.                                 *)
CacheSetNever(k) ==
    /\ stage[k] = "build"
    /\ set' = [set EXCEPT ![k] = k]
    /\ live' = live \cup {k}
    /\ Goto(k, "use")
    /\ UNCHANGED <<db, replica, changes, caches, notices, target, found, version,
                   history>>

(* NewSet, and the entry without expiry.                                   *)
CacheSet(k) ==
    /\ stage[k] = "build"
    /\ filterSets' = [filterSets EXCEPT ![found[k]] = k]
    /\ set' = [set EXCEPT ![k] = k]
    /\ live' = live \cup {k}
    /\ Goto(k, "use")
    /\ UNCHANGED <<db, replica, changes, roomIds, notices, target, found, version,
                   history>>

(* The database fails, the row is missing or NewSet fails; or the check    *)
(* has used its set.                                                       *)
End(k) ==
    /\ stage[k] \in {"room", "community", "build", "use"}
    /\ Goto(k, "done")
    /\ UNCHANGED <<db, replica, changes, caches, notices, target, found, version,
                   set, live, history>>

(***************************************************************************)
(* Invalidation                                                            *)
(***************************************************************************)

(* invalidateCacheOnChannel for configurations: Get and Close ...          *)
CloseSet ==
    LET c == Head(inbox.config) IN
    /\ inbox.config # <<>>
    /\ dropping = None
    /\ dropping' = c
    /\ inbox' = [inbox EXCEPT !.config = Tail(@)]
    /\ live' = live \ {filterSets[c]}
    /\ raced' = IF OldConfigAbout(c) THEN raced \cup {c} ELSE raced \ {c}
    /\ overlapped' = IF Building(c) # {} THEN overlapped \cup {c} ELSE overlapped
    /\ UNCHANGED <<db, replica, changes, caches, checks>>

(* Mutant: only the set is closed.                                         *)
DeleteSetNever ==
    /\ dropping # None
    /\ dropping' = None
    /\ UNCHANGED <<db, replica, changes, caches, inbox, checks, live, history>>

(* ... and Delete.                                                         *)
DeleteSet ==
    /\ dropping # None
    /\ filterSets' = [filterSets EXCEPT ![dropping] = None]
    /\ dropping' = None
    /\ UNCHANGED <<db, replica, changes, roomIds, inbox, checks, live, history>>

(* The same for rooms, where there is nothing to close.                    *)
DeleteRoomId ==
    LET r == Head(inbox.home) IN
    /\ inbox.home # <<>>
    /\ inbox' = [inbox EXCEPT !.home = Tail(@)]
    /\ roomIds' = [roomIds EXCEPT ![r] = None]
    /\ raced' = IF OldHomeAbout(r) THEN raced \cup {r} ELSE raced \ {r}
    /\ UNCHANGED <<db, replica, changes, filterSets, dropping, checks, live, overlapped>>

(* Mutant: entries for rooms are kept for ever.                            *)
ExpireNever(r) == FALSE

(* An entry for a room is kept for 60 minutes.                             *)
Expire(r) ==
    /\ roomIds[r] # None
    /\ roomIds' = [roomIds EXCEPT ![r] = None]
    /\ UNCHANGED <<db, replica, changes, filterSets, notices, checks, live, history>>

(* The process restarts.                                                   *)
Restart ==
    /\ \E k \in Checks : stage[k] \in {"room", "community", "build", "use"}
    /\ filterSets' = [c \in Communities |-> None]
    /\ roomIds' = [r \in Rooms |-> None]
    /\ inbox' = [config |-> <<>>, home |-> <<>>]
    /\ dropping' = None
    /\ stage' = [k \in Checks |-> IF stage[k] = "idle" THEN "idle" ELSE "done"]
    /\ live' = {}
    /\ raced' = {x \in Communities : Read.config[x] # db.config[x]}
                    \cup {x \in Rooms : Read.home[x] # db.home[x]}
    /\ overlapped' = {}
    /\ UNCHANGED <<db, replica, changes, target, found, version, set>>

Progress(k) == CacheRoom(k) \/ FindSet(k) \/ CacheSet(k) \/ End(k)
Invalidation == CloseSet \/ DeleteSet \/ DeleteRoomId

Next ==
    \/ \E c \in Communities : ChangeConfig(c)
    \/ \E r \in Rooms : MoveRoom(r) \/ Expire(r)
    \/ Replicate
    \/ \E k \in Checks, r \in Rooms : FindCommunity(k, r)
    \/ \E k \in Checks, c \in Communities : CheckText(k, c)
    \/ \E k \in Checks : Progress(k)
    \/ Invalidation
    \/ Restart

Spec == Init /\ [][Next]_vars

(* A check that has begun goes on, time passes for the entries of rooms,   *)
(* and the replica catches up.                                             *)
Fairness ==
    /\ \A k \in Checks : WF_vars(Progress(k))
    /\ \A r \in Rooms : WF_vars(Expire(r))
    /\ WF_vars(Replicate)
FairSpec == Spec /\ Fairness

(***************************************************************************)
(* Properties                                                              *)
(***************************************************************************)

(* Types of all variables of the caches.                                   *)
TypeOK ==
    /\ db \in [config : [Communities -> 0 .. MaxChanges], home : [Rooms -> Communities]]
    /\ replica \in [config : [Communities -> 0 .. MaxChanges], home : [Rooms -> Communities]]
    /\ changes \in 0 .. MaxChanges
    /\ filterSets \in [Communities -> Checks \cup {None}]
    /\ roomIds \in [Rooms -> Communities \cup {None}]
    /\ inbox \in [config : Seq(Communities), home : Seq(Rooms)]
    /\ dropping \in Communities \cup {None}
    /\ stage \in [Checks -> {"idle", "room", "community", "build", "use", "done"}]
    /\ target \in [Checks -> Rooms \cup {None}]
    /\ found \in [Checks -> Communities \cup {None}]
    /\ version \in [Checks -> 0 .. MaxChanges]
    /\ set \in [Checks -> Checks \cup {None}]
    /\ live \in SUBSET Checks
    /\ raced \in SUBSET (Communities \cup Rooms)
    /\ overlapped \in SUBSET Communities

Pending(x) == x \in ToSet(inbox.config) \cup ToSet(inbox.home) \cup {dropping}

StaleSet(c) == filterSets[c] # None /\ version[filterSets[c]] # db.config[c]
StaleRoom(r) == roomIds[r] # None /\ roomIds[r] # db.home[r]

(* An entry is out of date only while the notification is on its way, or   *)
(* when the change was missed, or heard of while a check held, or the      *)
(* replica still gave, the old row: a check that finds an entry cannot     *)
(* keep an old one alive, however it runs against Get, Close and Delete.   *)
StaleMeansRaced ==
    /\ \A c \in Communities : StaleSet(c) => Pending(c) \/ c \in raced
    /\ \A r \in Rooms : StaleRoom(r) => Pending(r) \/ r \in raced

Cached(k) == \E c \in Communities : filterSets[c] = k

(* "The filters may need a proper shutdown" (manager.go:34): a set is out  *)
(* of reach and was not closed, so its listener runs on, only when two     *)
(* builds, or a build and an invalidation, of its community overlapped.    *)
LostMeansOverlapped ==
    \A k \in live : Cached(k) \/ found[k] \in overlapped

(* "In case that doesn't happen" (manager.go:260): whatever notification   *)
(* is lost or comes too early, the community of a room is right in the     *)
(* end, or not cached.                                                     *)
RoomsConverge == <>[](\A r \in Rooms : ~StaleRoom(r))

(* manager_test.go:201-211: once the manager was notified of a change and  *)
(* has handled it, checks use the new configuration.                       *)
HandledMeansFresh ==
    \A c \in Communities :
        (StaleSet(c) /\ Read.config[c] = db.config[c]) => Pending(c)
=============================================================================
