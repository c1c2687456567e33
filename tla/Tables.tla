--------------------------------- MODULE Tables ---------------------------------
(***************************************************************************)
(* The tables rooms and communities (storage/psql.go) and the writers that *)
(* share them: requests of the API, the join of the rooms of the           *)
(* configuration at startup, and the tasks that learn room state.  Every   *)
(* write is an upsert of a whole row, most of them of a row read before,   *)
(* and the reads go through the read-only connection.                      *)
(*                                                                         *)
(* A value is named after the request that set it.  A room's stamp         *)
(* (last_state_update_ts) is the number of the event whose state was       *)
(* learned, 0 if none was.                                                 *)
(***************************************************************************)
EXTENDS Learners, FiniteSets

CONSTANTS
    Communities,
    Default,     \* the community of migration 07
    Requests,    \* calls of the API, and of JoinRooms at startup
    Tasks,       \* runs of the learning task, in all processes
    ReadReplica, \* TRUE when PS_DATABASE_READ names a lagging replica
    MaxEvents,   \* bound: events that ask for their room's state to be learned
    MaxWork      \* bound: requests and such events, all together

Keys == Rooms \cup Communities
Writers == Requests \cup Tasks

ASSUME TableAssumption ==
    /\ Rooms \cap Communities = {}
    /\ Requests \cap Tasks = {}
    /\ Default \in Communities
    /\ None \notin Requests \cup Communities \cup Keys
    /\ ReadReplica \in BOOLEAN
    /\ MaxEvents \in Nat /\ MaxWork \in Nat

Value == Requests \cup {None}
RoomRow == [moderator : Value, stamp : 0 .. MaxEvents, community : Communities]
CommunityRow == [token : Value, config : Value, selfJoin : BOOLEAN]
NoRow == [none |-> None]

VARIABLES
    events,     \* events so far that asked for learning
    db,         \* the primary: a function from the keys that have a row
    replica,    \* the same as the read-only connection sees it
    at,         \* where each writer is
    key,        \* the row it is about
    copy,       \* the row it read and is about to write
    intended,   \* history: the tables if each write set its own fields only
    overlapped  \* history: rows with overlapping writers or stale reads

tables == <<db, replica, intended, overlapped>>
writers == <<at, key, copy>>

NewCommunity == [token |-> None, config |-> None, selfJoin |-> FALSE]
NewRoom(c) == [moderator |-> None, stamp |-> 0, community |-> c]

TablesInit ==
    /\ events = 0
    /\ db = [c \in {Default} |-> NewCommunity]
    /\ replica = db
    /\ intended = db
    /\ overlapped = {}
    /\ at = [w \in Writers |-> "idle"]
    /\ key = [w \in Writers |-> None]
    /\ copy = [w \in Writers |-> NoRow]

(* One more request or event may come.                                     *)
MoreWork == Cardinality({q \in Requests : at[q] # "idle"}) + events < MaxWork

Row(table, k) == IF k \in DOMAIN table THEN table[k] ELSE NoRow
Upsert(table, k, row) ==
    [x \in DOMAIN table \cup {k} |-> IF x = k THEN row ELSE table[x]]

(* GetRoom, GetCommunity, GetCommunityByAccessToken.                       *)
Source == IF ReadReplica THEN replica ELSE db

Goto(w, s) == at' = [at EXCEPT ![w] = s]

(* What the writer held is gone.                                           *)
Drop(w) == copy' = [copy EXCEPT ![w] = NoRow]

(* The writers whose decisions rest on what row k was when they read it.   *)
About(k) == {w \in Writers : at[w] \in {"check", "write"} /\ key[w] = k}

(* Row k is read, and may be old.                                          *)
Seen(k) ==
    overlapped' = IF Row(Source, k) # Row(db, k) THEN overlapped \cup {k} ELSE overlapped

(* The writer has read row k, which may be absent, and will write it.      *)
Hold(w, k) ==
    /\ Goto(w, "write")
    /\ key' = [key EXCEPT ![w] = k]
    /\ copy' = [copy EXCEPT ![w] = Row(Source, k)]
    /\ Seen(k)
    /\ UNCHANGED <<db, replica, intended>>

(* UpsertRoom or UpsertCommunity of the row, by a writer that means to     *)
(* change it to wanted.                                                    *)
Write(w, row, wanted) ==
    /\ db' = Upsert(db, key[w], row)
    /\ intended' = Upsert(intended, key[w], wanted)
    /\ overlapped' = IF About(key[w]) \subseteq {w}
                     THEN overlapped ELSE overlapped \cup {key[w]}
    /\ Drop(w)
    /\ UNCHANGED <<replica, key>>

Replicate ==
    /\ ReadReplica
    /\ replica # db
    /\ replica' = db
    /\ UNCHANGED <<db, intended, overlapped, writers>>
=============================================================================
