------------------------------ MODULE RoomsProofs ------------------------------
(***************************************************************************)
(* Proofs about Rooms, for any number of requests, tasks, rooms and        *)
(* communities, whatever the requests may be, with and without a replica.  *)
(*                                                                         *)
(* That fields are kept follows from what writers hold: the row as it is,  *)
(* or a row that is on the books (Held).  Whom a room was joined for, from *)
(* what a join that has found it absent still knows (Honest).              *)
(***************************************************************************)
EXTENDS Rooms, TLAPS

TablesOK ==
    /\ Table(db) /\ Table(replica) /\ Table(intended)
    /\ overlapped \subseteq Keys
    /\ DOMAIN replica \subseteq DOMAIN db /\ DOMAIN intended = DOMAIN db

WritersOK ==
    /\ at \in [Writers -> Places \cup Stages]
    /\ key \in [Writers -> Keys \cup {None}]
    /\ copy \in [Writers -> RoomRow \cup CommunityRow \cup {NoRow}]

ApiOK ==
    /\ op \in [Requests -> Ops]
    /\ for \in [Requests -> Communities \cup {None}]
    /\ answer \in [Requests -> {"none", "ok", "error"}]
    /\ given \in [Requests -> Communities \cup {None}]
    /\ nth \in [Requests -> 1 .. Len(StartRooms) + 1]
    /\ errors \in [Requests -> 0 .. MaxJoinErrors + 1]

LearningOK ==
    /\ events \in 0 .. MaxEvents /\ ripe \in 0 .. events
    /\ queue \in [Rooms -> 0 .. events]
    /\ pushCache \in [Procs -> SUBSET Rooms]
    /\ DOMAIN learned = Rooms /\ \A r \in Rooms : DOMAIN learned[r] = Learners
    /\ faults \in 0 .. MaxFaults

(* What a request is and holds when it is where it is.                     *)
RequestPlan(q) ==
    /\ at[q] \in Places
    /\ at[q] = "add" => op[q] \in JoinOps
    /\ at[q] = "check" => op[q] \in JoinOps \cup {"startup"}
    /\ at[q] = "next" => op[q] = "startup"
    /\ at[q] \in {"add", "check"} => key[q] \in Rooms /\ for[q] \in Communities
    /\ at[q] \in {"check", "write"} /\ op[q] = "startup" => nth[q] \in DOMAIN StartRooms
    /\ at[q] = "write" =>
          \/ op[q] \in CommunityOps /\ key[q] \in Communities \cap DOMAIN db /\ copy[q] \in CommunityRow
          \/ op[q] = "moderate" /\ key[q] \in Rooms \cap DOMAIN db /\ copy[q] \in RoomRow
          \/ /\ op[q] \in JoinOps \cup {"startup"}
             /\ key[q] \in Rooms /\ for[q] \in Communities /\ copy[q] = NoRow

TaskPlan(t) ==
    /\ at[t] \in Stages
    /\ at[t] # "idle" => key[t] \in Rooms
    /\ at[t] = "write" => key[t] \in DOMAIN db /\ copy[t] \in RoomRow

Planned == (\A q \in Requests : RequestPlan(q)) /\ (\A t \in Tasks : TaskPlan(t))

Typed == TablesOK /\ WritersOK /\ ApiOK /\ LearningOK /\ Planned

(* A writer holds the row as it is, or a row that is on the books.         *)
Held == \A w \in Writers :
            at[w] = "write" => copy[w] = Row(db, key[w]) \/ key[w] \in overlapped

(* A join that may still be answered with success has not missed the room, *)
(* and one that was answered so was told the truth.                        *)
Honest(q) ==
    /\ at[q] = "check" /\ op[q] \in JoinOps /\ answer[q] # "error" =>
          key[q] \notin DOMAIN db \/ key[q] \in overlapped
    /\ at[q] # "done" => answer[q] # "ok"
    /\ op[q] \in JoinOps /\ answer[q] = "ok" => given[q] = for[q] \/ key[q] \in overlapped

Joins == \A q \in Requests : Honest(q)

USE LearnerAssumption, TableAssumption, ApiAssumption, LearnAssumption

(***************************************************************************)
(* Types                                                                   *)
(***************************************************************************)

LEMMA LearningStep ==
    ASSUME Typed, LearnNext
    PROVE  LearningOK'
  <1> USE DEF LearningOK
  <1>0. LearningOK
    BY DEF Typed
  <1>1. ASSUME NEW p \in Procs, NEW r \in Rooms, QueueLearn(p, r) PROVE LearningOK'
    <2>1. /\ events < MaxEvents /\ events' = events + 1 /\ UNCHANGED <<ripe, learned, faults>>
          /\ pushCache' = [pushCache EXCEPT ![p] = @ \cup {r}]
          /\ queue' = [queue EXCEPT ![r] = IF @ = 0 THEN events + 1 ELSE @] \/ queue' = queue
      BY <1>1 DEF QueueLearn
    <2> QED BY <1>0, <2>1
  <1>2. ASSUME NEW p \in Procs, NEW r \in Rooms, ForgetPush(p, r) PROVE LearningOK'
    BY <1>0, <1>2 DEF ForgetPush
  <1>3. CASE Ripen
    BY <1>0, <1>3 DEF Ripen
  <1>4. ASSUME NEW t \in Tasks, NEW r \in Rooms, Pop(t, r) \/ PopLeaks(t, r) PROVE LearningOK'
    <2>1. UNCHANGED <<events, ripe, queue, pushCache, learned>>
      BY <1>4 DEF Pop, PopLeaks, Take
    <2>2. faults' \in 0 .. MaxFaults
      BY <1>0, <1>4 DEF Pop, PopLeaks
    <2> QED BY <1>0, <2>1, <2>2
  <1>5. ASSUME NEW t \in Tasks, Learn(t) PROVE LearningOK'
    <2>1. UNCHANGED <<events, ripe, queue, pushCache>>
      BY <1>5 DEF Learn
    <2>2. PICK bad \in SUBSET Learners :
             /\ faults' = faults \/ (faults < MaxFaults /\ faults' = faults + 1)
             /\ learned' = [learned EXCEPT ![key[t]] =
                              LearnFrom(key[t], @, StateAt[key[t]][queue[key[t]]], bad)]
      BY <1>5 DEF Learn
    <2>3. ASSUME NEW r, NEW old, NEW state PROVE DOMAIN LearnFrom(r, old, state, bad) = Learners
      BY DEF LearnFrom, Learners
    <2>4. DOMAIN learned' = Rooms /\ \A r \in Rooms : DOMAIN learned'[r] = Learners
      <3>1. \A x : DOMAIN [learned EXCEPT ![key[t]] = x] = DOMAIN learned
        OBVIOUS
      <3> QED BY <1>0, <2>2, <2>3
    <2>5. faults' \in 0 .. MaxFaults
      BY <1>0, <2>2
    <2> QED BY <1>0, <2>1, <2>4, <2>5
  <1>6. ASSUME NEW t \in Tasks, Refetch(t) \/ Stamp(t) PROVE LearningOK'
    BY <1>0, <1>6 DEF Refetch, Stamp, learning
  <1>7. ASSUME NEW t \in Tasks, Commit(t) PROVE LearningOK'
    <2>1. /\ queue' = [queue EXCEPT ![key[t]] = 0]
          /\ UNCHANGED <<events, ripe, pushCache, learned, faults>>
      BY <1>7 DEF Commit
    <2>2. 0 \in 0 .. events /\ queue \in [Rooms -> 0 .. events]
      BY <1>0
    <2>3. queue' \in [Rooms -> 0 .. events]
      BY <2>1, <2>2
    <2> QED BY <1>0, <2>1, <2>3
  <1>8. ASSUME NEW t \in Tasks, Abandon(t) PROVE LearningOK'
    BY <1>0, <1>8 DEF Abandon
  <1> QED BY <1>1, <1>2, <1>3, <1>4, <1>5, <1>6, <1>7, <1>8 DEF LearnNext, Task

(* The tables with one row more or anew.                                   *)
LEMMA Upserted ==
    ASSUME NEW table, Table(table), NEW k \in Keys, NEW row,
           k \in Rooms => row \in RoomRow, k \notin Rooms => row \in CommunityRow
    PROVE  /\ Table(Upsert(table, k, row))
           /\ DOMAIN Upsert(table, k, row) = DOMAIN table \cup {k}
           /\ Upsert(table, k, row)[k] = row
           /\ \A x \in DOMAIN table : x # k => Upsert(table, k, row)[x] = table[x]
           /\ Row(Upsert(table, k, row), k) = row
           /\ \A x : x # k => Row(Upsert(table, k, row), x) = Row(table, x)
  <1>1. /\ DOMAIN Upsert(table, k, row) = DOMAIN table \cup {k}
        /\ Upsert(table, k, row)[k] = row
        /\ \A x \in DOMAIN table : x # k => Upsert(table, k, row)[x] = table[x]
    BY DEF Upsert
  <1>2. Table(Upsert(table, k, row))
    BY <1>1 DEF Table
  <1> HIDE DEF Upsert
  <1> QED BY <1>1, <1>2 DEF Row

(* A table's rows, and that there is none that looks like NoRow.           *)
LEMMA RowTypes ==
    ASSUME NEW table, Table(table), NEW k \in DOMAIN table
    PROVE  /\ k \in Rooms => table[k] \in RoomRow
           /\ k \in Communities => table[k] \in CommunityRow
           /\ k \in Keys /\ Row(table, k) = table[k] /\ table[k] # NoRow
  <1>1. /\ k \in Rooms => table[k] \in RoomRow
        /\ k \in Communities => table[k] \in CommunityRow
        /\ k \in Keys
    BY DEF Table, Keys
  <1>2. ASSUME NEW row \in RoomRow \cup CommunityRow PROVE row # NoRow
    <2>1. "none" \notin DOMAIN row
      BY DEF RoomRow, CommunityRow
    <2>2. "none" \in DOMAIN NoRow
      BY DEF NoRow
    <2> QED BY <2>1, <2>2
  <1> QED BY <1>1, <1>2 DEF Row, Keys

LEMMA NewRows ==
    /\ NewCommunity \in CommunityRow
    /\ \A c \in Communities : NewRoom(c) \in RoomRow
  BY DEF NewCommunity, NewRoom, CommunityRow, RoomRow, Value

(* What a request makes of a row.                                          *)
LEMMA ChangedRow ==
    ASSUME NEW q \in Requests, NEW row
    PROVE  /\ op[q] \in CommunityOps /\ row \in CommunityRow => Changed(q, row) \in CommunityRow
           /\ op[q] = "moderate" /\ row \in RoomRow => Changed(q, row) \in RoomRow
  <1>1. ASSUME row \in CommunityRow
        PROVE  {Rotate(q, row), Configure(q, row), Permit(row)} \subseteq CommunityRow
    BY <1>1 DEF Rotate, Configure, Permit, CommunityRow, Value
  <1>2. ASSUME row \in RoomRow PROVE Moderate(q, row) \in RoomRow
    BY <1>2 DEF Moderate, RoomRow, Value
  <1> QED BY <1>1, <1>2 DEF Changed, CommunityOps

LEMMA StampedRow ==
    ASSUME NEW row \in RoomRow, NEW n \in 0 .. MaxEvents
    PROVE  [row EXCEPT !.stamp = n] \in RoomRow
  BY DEF RoomRow

(* What may be read from the read-only connection.                         *)
LEMMA SourceTypes ==
    ASSUME TablesOK
    PROVE  Table(Source) /\ DOMAIN Source \subseteq DOMAIN db
  BY DEF TablesOK, Source

(***************************************************************************)
(* Whoever makes the step, the other writers' plans stand.                 *)
(***************************************************************************)
LEMMA Others ==
    ASSUME Planned, NEW w \in Writers,
           DOMAIN db \subseteq DOMAIN db',
           \A v \in Writers \ {w} : at'[v] = at[v] /\ key'[v] = key[v] /\ copy'[v] = copy[v],
           \A q \in Requests \ {w} : op'[q] = op[q] /\ for'[q] = for[q] /\ nth'[q] = nth[q],
           w \in Requests => RequestPlan(w)', w \in Tasks => TaskPlan(w)'
    PROVE  Planned'
  <1>1. ASSUME NEW q \in Requests, q # w PROVE RequestPlan(q)'
    <2>1. RequestPlan(q)
      BY DEF Planned
    <2>2. q \in Writers \ {w}
      BY <1>1 DEF Writers
    <2> QED BY <1>1, <2>1, <2>2 DEF RequestPlan
  <1>2. ASSUME NEW t \in Tasks, t # w PROVE TaskPlan(t)'
    <2>1. TaskPlan(t)
      BY DEF Planned
    <2>2. t \in Writers \ {w}
      BY <1>2 DEF Writers
    <2> QED BY <1>2, <2>1, <2>2 DEF TaskPlan
  <1> QED BY <1>1, <1>2 DEF Planned

(* A request that has nothing to write, any more or for now.               *)
LEMMA MovedOn ==
    ASSUME Typed, NEW q \in Requests, DOMAIN db \subseteq DOMAIN db',
           key' = key, copy' \in {copy, [copy EXCEPT ![q] = NoRow]},
           NEW s \in {"done", "next"}, at' = [at EXCEPT ![q] = s],
           s = "next" => op'[q] = "startup",
           \A p \in Requests \ {q} : op'[p] = op[p] /\ for'[p] = for[p] /\ nth'[p] = nth[p]
    PROVE  WritersOK' /\ Planned'
  <1>1. q \in Writers /\ q \notin Tasks
    BY DEF Writers
  <1>2. /\ at'[q] = s
        /\ \A v \in Writers \ {q} : at'[v] = at[v] /\ key'[v] = key[v] /\ copy'[v] = copy[v]
    BY <1>1 DEF Typed, WritersOK
  <1>3. WritersOK'
    BY DEF Typed, WritersOK, Places
  <1>4. RequestPlan(q)'
    BY <1>2 DEF RequestPlan, Places
  <1>5. Planned'
    BY <1>1, <1>2, <1>4, Others DEF Typed
  <1> QED BY <1>3, <1>5

LEMMA SameTables ==
    ASSUME Typed, UNCHANGED tables
    PROVE  TablesOK' /\ db' = db
  BY DEF Typed, TablesOK, tables, Table

(* The tables after a write of rows that have their types.                 *)
LEMMA WrittenTables ==
    ASSUME Typed, NEW w \in Writers, NEW row, NEW wanted, Write(w, row, wanted),
           key[w] \in Keys,
           key[w] \in Rooms => row \in RoomRow /\ wanted \in RoomRow,
           key[w] \notin Rooms => row \in CommunityRow /\ wanted \in CommunityRow
    PROVE  /\ TablesOK' /\ DOMAIN db \subseteq DOMAIN db'
           /\ key' = key /\ copy' = [copy EXCEPT ![w] = NoRow]
  <1>1. /\ db' = Upsert(db, key[w], row) /\ intended' = Upsert(intended, key[w], wanted)
        /\ overlapped' \in {overlapped, overlapped \cup {key[w]}}
        /\ UNCHANGED <<replica, key>> /\ copy' = [copy EXCEPT ![w] = NoRow]
    BY DEF Write, Drop
  <1>2. Table(db) /\ Table(intended)
    BY DEF Typed, TablesOK
  <1>3. /\ Table(Upsert(db, key[w], row)) /\ Table(Upsert(intended, key[w], wanted))
        /\ DOMAIN Upsert(db, key[w], row) = DOMAIN db \cup {key[w]}
        /\ DOMAIN Upsert(intended, key[w], wanted) = DOMAIN intended \cup {key[w]}
    <2> DEFINE k == key[w]
    <2>1. /\ k \in Keys
          /\ k \in Rooms => row \in RoomRow
          /\ k \notin Rooms => row \in CommunityRow
          /\ k \in Rooms => wanted \in RoomRow
          /\ k \notin Rooms => wanted \in CommunityRow
      OBVIOUS
    <2> HIDE DEF k
    <2>2. Table(Upsert(db, k, row)) /\ DOMAIN Upsert(db, k, row) = DOMAIN db \cup {k}
      BY Zenon, <1>2, <2>1, Upserted
    <2>3. /\ Table(Upsert(intended, k, wanted))
          /\ DOMAIN Upsert(intended, k, wanted) = DOMAIN intended \cup {k}
      BY Zenon, <1>2, <2>1, Upserted
    <2> QED BY <2>2, <2>3 DEF k
  <1>4. Table(db)' /\ Table(intended)' /\ Table(replica)'
    BY <1>1, <1>3 DEF Typed, TablesOK, Table
  <1> QED BY <1>1, <1>3, <1>4 DEF Typed, TablesOK

LEMMA ReadRowStep ==
    ASSUME Typed, NEW q \in Requests, NEW o \in Ops, NEW k \in Keys, ReadRow(q, o, k)
    PROVE  TablesOK' /\ WritersOK' /\ ApiOK' /\ Planned'
  <1>1. /\ op' = [op EXCEPT ![q] = o] /\ UNCHANGED <<for, given, nth, errors>>
        /\ o \in CommunityOps => k \in Communities
        /\ o = "moderate" => k \in Rooms
        /\ o \in CommunityOps \cup {"moderate", "show"}
    BY DEF ReadRow, Start
  <1>2. ApiOK
    BY DEF Typed
  <1>3. op'[q] = o /\ op' \in [Requests -> Ops] /\ \A p \in Requests \ {q} : op'[p] = op[p]
    BY <1>1, <1>2 DEF ApiOK
  <1>4. ASSUME UNCHANGED <<tables, key, copy>>, NEW a \in {"ok", "error"}, Finish(q, a)
        PROVE  TablesOK' /\ WritersOK' /\ ApiOK' /\ Planned'
    <2>1. at' = [at EXCEPT ![q] = "done"]
      BY <1>4 DEF Finish, Goto
    <2>2. ApiOK'
      BY <1>1, <1>2, <1>3, <1>4 DEF ApiOK, Finish, Answer
    <2> QED BY <1>1, <1>3, <1>4, <2>1, <2>2, SameTables, MovedOn
  <1>5. ASSUME k \in DOMAIN Source, o # "show", Hold(q, k), UNCHANGED answer
        PROVE  TablesOK' /\ WritersOK' /\ ApiOK' /\ Planned'
    <2>1. /\ at' = [at EXCEPT ![q] = "write"]
          /\ key' = [key EXCEPT ![q] = k]
          /\ copy' = [copy EXCEPT ![q] = Row(Source, k)]
          /\ overlapped' \in {overlapped, overlapped \cup {k}}
          /\ UNCHANGED <<db, replica, intended>>
      BY <1>5 DEF Hold, Goto, Seen
    <2>2. /\ Row(Source, k) \in RoomRow \cup CommunityRow
          /\ k \in Rooms => Row(Source, k) \in RoomRow
          /\ k \in Communities => Row(Source, k) \in CommunityRow
          /\ k \in DOMAIN db
      BY <1>5, SourceTypes, RowTypes DEF Typed, Keys
    <2>3. TablesOK'
      BY <2>1 DEF Typed, TablesOK, Table
    <2>4. WritersOK'
      BY <2>1, <2>2 DEF Typed, WritersOK, Places
    <2>5. q \in Writers /\ q \notin Tasks
      BY DEF Writers
    <2>6. /\ at'[q] = "write" /\ key'[q] = k /\ copy'[q] = Row(Source, k)
          /\ \A v \in Writers \ {q} : at'[v] = at[v] /\ key'[v] = key[v] /\ copy'[v] = copy[v]
      BY <2>1, <2>5 DEF Typed, WritersOK
    <2>7. RequestPlan(q)'
      BY <1>1, <1>3, <1>5, <2>1, <2>2, <2>6 DEF RequestPlan, Places, CommunityOps
    <2>8. Planned'
      BY <1>1, <1>3, <2>1, <2>5, <2>6, <2>7, Others DEF Typed
    <2>9. ApiOK'
      BY <1>1, <1>2, <1>3, <1>5 DEF ApiOK
    <2> QED BY <2>3, <2>4, <2>8, <2>9
  <1> QED BY <1>4, <1>5 DEF ReadRow, Refuse

LEMMA CreateStep ==
    ASSUME Typed, NEW q \in Requests, NEW c \in Communities, CreateCommunity(q, c)
    PROVE  TablesOK' /\ WritersOK' /\ ApiOK' /\ Planned'
  <1>1. /\ op' = [op EXCEPT ![q] = "create"] /\ UNCHANGED <<for, given, nth, errors>>
        /\ at' = [at EXCEPT ![q] = "done"] /\ UNCHANGED <<key, copy, replica, overlapped>>
        /\ db' = Upsert(db, c, NewCommunity)
        /\ intended' = Upsert(intended, c, NewCommunity)
        /\ answer' = [answer EXCEPT ![q] = IF @ = "none" THEN "ok" ELSE @]
    BY DEF CreateCommunity, Start, Finish, Goto, Answer
  <1>2. c \in Keys /\ c \notin Rooms
    BY DEF Keys
  <1>3. TablesOK'
    <2>1. Table(db) /\ Table(intended)
      BY DEF Typed, TablesOK
    <2>2. /\ Table(Upsert(db, c, NewCommunity)) /\ Table(Upsert(intended, c, NewCommunity))
          /\ DOMAIN Upsert(db, c, NewCommunity) = DOMAIN db \cup {c}
          /\ DOMAIN Upsert(intended, c, NewCommunity) = DOMAIN intended \cup {c}
      BY <1>2, <2>1, NewRows, Upserted
    <2>3. Table(db)' /\ Table(intended)' /\ Table(replica)'
      BY <1>1, <2>2 DEF Typed, TablesOK, Table
    <2> QED BY <1>1, <2>2, <2>3 DEF Typed, TablesOK
  <1>4. DOMAIN db \subseteq DOMAIN db'
    BY <1>1 DEF Upsert
  <1>5. ApiOK' /\ \A p \in Requests \ {q} : op'[p] = op[p]
    BY <1>1 DEF Typed, ApiOK, Ops
  <1>6. WritersOK' /\ Planned'
    BY <1>1, <1>4, <1>5, MovedOn
  <1> QED BY <1>3, <1>5, <1>6

(* A request that goes to a place without rows to write.                   *)
LEMMA PlacedRequest ==
    ASSUME Typed, NEW q \in Requests, NEW r \in Rooms, NEW s \in {"add", "check"},
           at' = [at EXCEPT ![q] = s], key' = [key EXCEPT ![q] = r], copy' = copy,
           TablesOK', DOMAIN db \subseteq DOMAIN db',
           for'[q] \in Communities,
           s = "add" => op'[q] \in JoinOps,
           s = "check" => op'[q] \in JoinOps \cup {"startup"},
           op'[q] = "startup" => nth'[q] \in DOMAIN StartRooms,
           \A p \in Requests \ {q} : op'[p] = op[p] /\ for'[p] = for[p] /\ nth'[p] = nth[p]
    PROVE  WritersOK' /\ Planned'
  <1>1. q \in Writers /\ q \notin Tasks
    BY DEF Writers
  <1>2. WritersOK'
    BY DEF Typed, WritersOK, Places, Keys
  <1>3. /\ at'[q] = s /\ key'[q] = r
        /\ \A v \in Writers \ {q} : at'[v] = at[v] /\ key'[v] = key[v] /\ copy'[v] = copy[v]
    BY <1>1 DEF Typed, WritersOK
  <1>4. RequestPlan(q)'
    BY <1>3 DEF RequestPlan, Places
  <1>5. Planned'
    BY <1>1, <1>3, <1>4, Others DEF Typed
  <1> QED BY <1>2, <1>5

LEMMA AddingStep ==
    ASSUME Typed, NEW q \in Requests, NEW o \in JoinOps, NEW r \in Rooms, NEW c \in Communities,
           op' = [op EXCEPT ![q] = o], UNCHANGED <<given, nth, errors>>,
           Adding(q, r, c) \/ (Refuse(q) /\ UNCHANGED for)
    PROVE  TablesOK' /\ WritersOK' /\ ApiOK' /\ Planned'
  <1>1. /\ op'[q] = o /\ op' \in [Requests -> Ops] /\ \A p \in Requests \ {q} : op'[p] = op[p]
    BY DEF Typed, ApiOK, Ops, JoinOps
  <1>2. CASE Adding(q, r, c)
    <2>1. /\ at' = [at EXCEPT ![q] = "add"] /\ key' = [key EXCEPT ![q] = r]
          /\ for' = [for EXCEPT ![q] = c] /\ UNCHANGED <<tables, copy, answer>>
      BY <1>2 DEF Adding, Goto
    <2>2. TablesOK' /\ db' = db
      BY <2>1, SameTables
    <2>3. for'[q] = c /\ \A p \in Requests \ {q} : for'[p] = for[p]
      BY <2>1 DEF Typed, ApiOK
    <2>4. o # "startup"
      BY DEF JoinOps
    <2>5. WritersOK' /\ Planned'
      BY <1>1, <2>1, <2>2, <2>3, <2>4, PlacedRequest
    <2>6. ApiOK'
      BY <1>1, <2>1 DEF Typed, ApiOK
    <2> QED BY <2>2, <2>5, <2>6
  <1>3. CASE Refuse(q) /\ UNCHANGED for
    <2>1. /\ at' = [at EXCEPT ![q] = "done"] /\ UNCHANGED <<tables, key, copy>>
          /\ answer' = [answer EXCEPT ![q] = IF @ = "none" THEN "error" ELSE @]
      BY <1>3 DEF Refuse, Finish, Goto, Answer
    <2>2. ApiOK'
      BY <1>1, <1>3, <2>1 DEF Typed, ApiOK
    <2> QED BY <1>1, <1>3, <2>1, <2>2, SameTables, MovedOn
  <1> QED BY <1>2, <1>3

LEMMA FindStep ==
    ASSUME Typed, NEW q \in Requests, NEW r \in Rooms,
           \/ \E c \in Communities : FindCommunity(q, r, c)
           \/ \E token \in Requests : Authenticate(q, r, token)
    PROVE  TablesOK' /\ WritersOK' /\ ApiOK' /\ Planned'
  <1>1. ASSUME NEW c \in Communities, FindCommunity(q, r, c)
        PROVE  TablesOK' /\ WritersOK' /\ ApiOK' /\ Planned'
    BY <1>1, AddingStep DEF FindCommunity, Start, JoinOps
  <1>2. ASSUME NEW token \in Requests, Authenticate(q, r, token)
        PROVE  TablesOK' /\ WritersOK' /\ ApiOK' /\ Planned'
    <2>1. op' = [op EXCEPT ![q] = "selfjoin"] /\ UNCHANGED <<given, nth, errors>>
      BY <1>2 DEF Authenticate, Start
    <2>2. \E c \in Communities : Adding(q, r, c) \/ (Refuse(q) /\ UNCHANGED for)
      BY <1>2 DEF Authenticate
    <2> QED BY <2>1, <2>2, AddingStep DEF JoinOps
  <1> QED BY <1>1, <1>2

LEMMA StartJoiningStep ==
    ASSUME Typed, NEW q \in Requests, StartJoining(q)
    PROVE  TablesOK' /\ WritersOK' /\ ApiOK' /\ Planned'
  <1>1. /\ at' = [at EXCEPT ![q] = "check"]
        /\ key' = [key EXCEPT ![q] = StartRooms[nth[q]]]
        /\ for' = [for EXCEPT ![q] = Default]
        /\ nth[q] \in DOMAIN StartRooms
        /\ UNCHANGED <<tables, copy, answer, given, nth, errors>>
    BY DEF StartJoining, Goto
  <1>2. op' = [op EXCEPT ![q] = "startup"]
    <2>1. CASE Start(q, "startup")
      BY <2>1 DEF Start
    <2>2. CASE at[q] = "next" /\ op' = op
      <3>1. op[q] = "startup" /\ op \in [Requests -> Ops]
        BY <2>2 DEF Typed, Planned, RequestPlan, ApiOK
      <3> QED BY <2>2, <3>1
    <2> QED BY <2>1, <2>2 DEF StartJoining
  <1>3. TablesOK' /\ db' = db
    BY <1>1, SameTables
  <1>4. StartRooms[nth[q]] \in Rooms
    BY <1>1
  <1>5. /\ for'[q] = Default /\ op'[q] = "startup"
        /\ \A p \in Requests \ {q} : for'[p] = for[p] /\ op'[p] = op[p]
    BY <1>1, <1>2 DEF Typed, ApiOK
  <1>6. WritersOK' /\ Planned'
    BY <1>1, <1>3, <1>4, <1>5, PlacedRequest
  <1>7. ApiOK'
    BY <1>1, <1>2 DEF Typed, ApiOK, Ops
  <1> QED BY <1>3, <1>6, <1>7

LEMMA WriteRowStep ==
    ASSUME Typed, NEW q \in Requests, WriteRow(q)
    PROVE  TablesOK' /\ WritersOK' /\ ApiOK' /\ Planned'
  <1> DEFINE row == Changed(q, copy[q])
             wanted == Changed(q, intended[key[q]])
  <1>1. /\ at[q] = "write" /\ op[q] \in CommunityOps \cup {"moderate"}
        /\ Write(q, row, wanted)
        /\ at' = [at EXCEPT ![q] = "done"]
        /\ answer' = [answer EXCEPT ![q] = IF @ = "none" THEN "ok" ELSE @]
        /\ UNCHANGED <<op, for, given, nth, errors>>
    BY DEF WriteRow, Finish, Goto, Answer
  <1>2. \/ op[q] \in CommunityOps /\ key[q] \in Communities \cap DOMAIN db /\ copy[q] \in CommunityRow
        \/ op[q] = "moderate" /\ key[q] \in Rooms \cap DOMAIN db /\ copy[q] \in RoomRow
    BY <1>1 DEF Typed, Planned, RequestPlan, CommunityOps, JoinOps
  <1>3. /\ key[q] \in Keys
        /\ key[q] \in Rooms => intended[key[q]] \in RoomRow
        /\ key[q] \in Communities => intended[key[q]] \in CommunityRow
    BY <1>2, RowTypes DEF Typed, TablesOK, Keys
  <1>4. /\ key[q] \in Rooms => row \in RoomRow /\ wanted \in RoomRow
        /\ key[q] \notin Rooms => row \in CommunityRow /\ wanted \in CommunityRow
    BY <1>2, <1>3, ChangedRow
  <1>5. q \in Writers
    BY DEF Writers
  <1> HIDE DEF row, wanted
  <1>6. /\ TablesOK' /\ DOMAIN db \subseteq DOMAIN db'
        /\ key' = key /\ copy' = [copy EXCEPT ![q] = NoRow]
    BY <1>1, <1>3, <1>4, <1>5, WrittenTables
  <1>7. WritersOK' /\ Planned'
    BY <1>1, <1>6, MovedOn
  <1>8. ApiOK'
    BY <1>1 DEF Typed, ApiOK
  <1> QED BY <1>6, <1>7, <1>8

LEMMA CheckAbsentStep ==
    ASSUME Typed, NEW q \in Requests, CheckAbsent(q)
    PROVE  TablesOK' /\ WritersOK' /\ ApiOK' /\ Planned'
  <1>1. at[q] = "add" /\ UNCHANGED <<key, copy, op, for, given, nth, errors>>
    BY DEF CheckAbsent, Refuse
  <1>2. op[q] \in JoinOps /\ key[q] \in Rooms /\ for[q] \in Communities
    BY <1>1 DEF Typed, Planned, RequestPlan
  <1>3. CASE Refuse(q)
    <2>1. /\ at' = [at EXCEPT ![q] = "done"] /\ UNCHANGED tables
          /\ answer' = [answer EXCEPT ![q] = IF @ = "none" THEN "error" ELSE @]
      BY <1>3 DEF Refuse, Finish, Goto, Answer
    <2>2. ApiOK'
      BY <1>1, <2>1 DEF Typed, ApiOK
    <2> QED BY <1>1, <2>1, <2>2, SameTables, MovedOn
  <1>4. CASE ~Refuse(q)
    <2>1. /\ at' = [at EXCEPT ![q] = "check"]
          /\ UNCHANGED <<db, replica, intended>>
          /\ overlapped' \in {overlapped, overlapped \cup {key[q]}}
          /\ answer' \in {answer, [answer EXCEPT ![q] = IF @ = "none" THEN "error" ELSE @]}
      BY <1>4 DEF CheckAbsent, Goto, Seen, Answer, tables
    <2>2. TablesOK'
      BY <1>2, <2>1 DEF Typed, TablesOK, Table, Keys
    <2>3. ApiOK'
      BY <1>1, <2>1 DEF Typed, ApiOK
    <2>4. key' = [key EXCEPT ![q] = key[q]] /\ op'[q] # "startup"
      BY <1>1, <1>2 DEF Typed, WritersOK, JoinOps
    <2>5. WritersOK' /\ Planned'
      BY <1>1, <1>2, <2>1, <2>2, <2>4, PlacedRequest
    <2> QED BY <2>2, <2>3, <2>5
  <1> QED BY <1>3, <1>4

(* What is to say about a room that was joined or found.                   *)
LEMMA JoinedStep ==
    ASSUME Typed, NEW q \in Requests, NEW c \in Communities, Joined(q, c),
           at[q] \in {"check", "write"},
           DOMAIN db \subseteq DOMAIN db', key' = key, copy' \in {copy, [copy EXCEPT ![q] = NoRow]}
    PROVE  WritersOK' /\ ApiOK' /\ Planned'
  <1>1. /\ given' = [given EXCEPT ![q] = c] /\ UNCHANGED <<op, for>>
        /\ op[q] = "startup" => nth' = [nth EXCEPT ![q] = @ + 1] /\ errors' = [errors EXCEPT ![q] = 0]
        /\ op[q] # "startup" => UNCHANGED <<nth, errors>>
    BY DEF Joined
  <1>2. op[q] = "startup" => nth[q] \in DOMAIN StartRooms
    BY DEF Typed, Planned, RequestPlan
  <1>3. nth' \in [Requests -> 1 .. Len(StartRooms) + 1] /\ errors' \in [Requests -> 0 .. MaxJoinErrors + 1]
    <2>1. DOMAIN StartRooms = 1 .. Len(StartRooms) /\ Len(StartRooms) \in Nat
      OBVIOUS
    <2>2. nth \in [Requests -> 1 .. Len(StartRooms) + 1] /\ errors \in [Requests -> 0 .. MaxJoinErrors + 1]
      BY DEF Typed, ApiOK
    <2>3. CASE op[q] = "startup"
      <3>1. nth[q] + 1 \in 1 .. Len(StartRooms) + 1 /\ 0 \in 0 .. MaxJoinErrors + 1
        BY <1>2, <2>1, <2>3
      <3>2. nth' = [nth EXCEPT ![q] = nth[q] + 1] /\ errors' = [errors EXCEPT ![q] = 0]
        BY <1>1, <2>3
      <3> QED BY <2>2, <3>1, <3>2
    <2>4. CASE op[q] # "startup"
      BY <1>1, <2>2, <2>4
    <2> QED BY <2>3, <2>4
  <1>4. answer' \in {answer, [answer EXCEPT ![q] = IF @ = "none" THEN "ok" ELSE @]}
    BY DEF Joined, NextRoom, Finish, Answer
  <1>5. ApiOK'
    BY <1>1, <1>3, <1>4 DEF Typed, ApiOK
  <1>6. \/ at' = [at EXCEPT ![q] = "done"]
        \/ at' = [at EXCEPT ![q] = "next"] /\ op[q] = "startup"
    BY DEF Joined, NextRoom, Finish, Goto
  <1>7. \A p \in Requests \ {q} : op'[p] = op[p] /\ for'[p] = for[p] /\ nth'[p] = nth[p]
    BY <1>1 DEF Typed, ApiOK
  <1>8. WritersOK' /\ Planned'
    BY <1>1, <1>6, <1>7, MovedOn
  <1> QED BY <1>5, <1>8

LEMMA FindRoomStep ==
    ASSUME Typed, NEW q \in Requests, FindRoom(q)
    PROVE  TablesOK' /\ WritersOK' /\ ApiOK' /\ Planned'
  <1> DEFINE r == key[q]
  <1>1. at[q] = "check"
    BY DEF FindRoom
  <1>2. /\ op[q] \in JoinOps \cup {"startup"} /\ r \in Rooms /\ for[q] \in Communities
        /\ op[q] = "startup" => nth[q] \in DOMAIN StartRooms
    BY <1>1 DEF Typed, Planned, RequestPlan
  <1>3. CASE r \in DOMAIN Source
    <2>1. Joined(q, Source[r].community) /\ UNCHANGED <<tables, key, copy>>
      BY <1>3 DEF FindRoom
    <2>2. Source[r] \in RoomRow
      BY <1>2, <1>3, SourceTypes, RowTypes DEF Typed
    <2>3. Source[r].community \in Communities
      BY <2>2 DEF RoomRow
    <2> QED BY <1>1, <2>1, <2>3, SameTables, JoinedStep
  <1>4. CASE r \notin DOMAIN Source
    <2>1. Hold(q, r) /\ UNCHANGED api
      BY <1>4 DEF FindRoom
    <2>2. /\ at' = [at EXCEPT ![q] = "write"]
          /\ key' = [key EXCEPT ![q] = r]
          /\ copy' = [copy EXCEPT ![q] = NoRow]
          /\ overlapped' \in {overlapped, overlapped \cup {r}}
          /\ UNCHANGED <<db, replica, intended>>
      BY <1>4, <2>1 DEF Hold, Goto, Seen, Row
    <2>3. TablesOK'
      BY <1>2, <2>2 DEF Typed, TablesOK, Table, Keys
    <2>4. WritersOK'
      BY <1>2, <2>2 DEF Typed, WritersOK, Places, Keys
    <2>5. ApiOK' /\ UNCHANGED <<op, for, nth>>
      BY <2>1 DEF api, Typed, ApiOK
    <2>6. q \in Writers /\ q \notin Tasks
      BY DEF Writers
    <2>7. /\ at'[q] = "write" /\ key'[q] = r /\ copy'[q] = NoRow
          /\ \A v \in Writers \ {q} : at'[v] = at[v] /\ key'[v] = key[v] /\ copy'[v] = copy[v]
      BY <2>2, <2>6 DEF Typed, WritersOK
    <2>8. RequestPlan(q)'
      BY <1>2, <2>5, <2>7 DEF RequestPlan, Places
    <2>9. Planned'
      BY <2>2, <2>5, <2>6, <2>7, <2>8, Others DEF Typed
    <2> QED BY <2>3, <2>4, <2>5, <2>9
  <1> QED BY <1>3, <1>4

LEMMA StoreJoinedStep ==
    ASSUME Typed, NEW q \in Requests, StoreJoined(q)
    PROVE  TablesOK' /\ WritersOK' /\ ApiOK' /\ Planned'
  <1> DEFINE r == key[q]
             new == NewRoom(for[q])
             wanted == IF r \in DOMAIN intended THEN intended[r] ELSE new
  <1>1. /\ at[q] = "write" /\ op[q] \in JoinOps \cup {"startup"}
        /\ Write(q, new, wanted)
        /\ Joined(q, for[q])
    BY DEF StoreJoined
  <1>2. r \in Rooms /\ for[q] \in Communities
    BY <1>1 DEF Typed, Planned, RequestPlan, CommunityOps, JoinOps
  <1>3. new \in RoomRow /\ wanted \in RoomRow /\ r \in Keys
    BY <1>2, NewRows, RowTypes DEF Typed, TablesOK, Keys
  <1>4. q \in Writers
    BY DEF Writers
  <1> HIDE DEF new, wanted
  <1>5. /\ TablesOK' /\ DOMAIN db \subseteq DOMAIN db'
        /\ key' = key /\ copy' = [copy EXCEPT ![q] = NoRow]
    BY <1>1, <1>2, <1>3, <1>4, WrittenTables
  <1> QED BY <1>1, <1>2, <1>5, JoinedStep

LEMMA FailStep ==
    ASSUME Typed, NEW q \in Requests, Fail(q)
    PROVE  TablesOK' /\ WritersOK' /\ ApiOK' /\ Planned'
  <1>1. copy' = [copy EXCEPT ![q] = NoRow] /\ UNCHANGED <<tables, key, op, for, given, nth>>
    BY DEF Fail, Drop
  <1>2. \/ /\ op[q] = "startup" /\ at' = [at EXCEPT ![q] = "next"] /\ answer' = answer
           /\ errors[q] <= MaxJoinErrors /\ errors' = [errors EXCEPT ![q] = @ + 1]
        \/ /\ at' = [at EXCEPT ![q] = "done"] /\ errors' = errors
           /\ answer' = [answer EXCEPT ![q] = IF @ = "none" THEN "error" ELSE @]
    BY DEF Fail, Goto, Finish, Answer
  <1>3. ApiOK'
    <2>1. errors' \in [Requests -> 0 .. MaxJoinErrors + 1]
      <3>1. errors \in [Requests -> 0 .. MaxJoinErrors + 1]
        BY DEF Typed, ApiOK
      <3>2. errors[q] <= MaxJoinErrors => errors[q] + 1 \in 0 .. MaxJoinErrors + 1
        BY <3>1
      <3> QED BY <1>2, <3>1, <3>2
    <2>2. answer' \in [Requests -> {"none", "ok", "error"}]
      BY <1>2 DEF Typed, ApiOK
    <2> QED BY <1>1, <2>1, <2>2 DEF Typed, ApiOK
  <1>4. WritersOK' /\ Planned'
    BY <1>1, <1>2, SameTables, MovedOn
  <1> QED BY <1>1, <1>3, <1>4, SameTables

LEMMA RequestStep ==
    ASSUME Typed, NEW q \in Requests, Request(q)
    PROVE  TablesOK' /\ WritersOK' /\ ApiOK' /\ Planned'
  BY ReadRowStep, CreateStep, FindStep, StartJoiningStep, WriteRowStep, CheckAbsentStep,
     FindRoomStep, StoreJoinedStep, FailStep DEF Request

(***************************************************************************)
(* The tasks                                                               *)
(***************************************************************************)

(* A task that is about a room and has nothing to write, or has ended.     *)
LEMMA MovedTask ==
    ASSUME Typed, NEW t \in Tasks, UNCHANGED api, DOMAIN db \subseteq DOMAIN db',
           copy' \in {copy, [copy EXCEPT ![t] = NoRow]},
           NEW s \in Stages \ {"write"}, at' = [at EXCEPT ![t] = s],
           \/ s = "idle" /\ key' = [key EXCEPT ![t] = None]
           \/ key' = key /\ key[t] \in Rooms
           \/ \E r \in Rooms : key' = [key EXCEPT ![t] = r]
    PROVE  WritersOK' /\ Planned'
  <1>1. t \in Writers /\ t \notin Requests
    BY DEF Writers
  <1>2. WritersOK'
    BY <1>1 DEF Typed, WritersOK, Keys
  <1>3. /\ at'[t] = s
        /\ s # "idle" => key'[t] \in Rooms
        /\ \A v \in Writers \ {t} : at'[v] = at[v] /\ key'[v] = key[v] /\ copy'[v] = copy[v]
    BY <1>1 DEF Typed, WritersOK
  <1>4. TaskPlan(t)'
    BY <1>3 DEF TaskPlan
  <1>5. Planned'
    BY <1>1, <1>3, <1>4, Others DEF Typed, api
  <1> QED BY <1>2, <1>5

LEMMA TaskStep ==
    ASSUME Typed, UNCHANGED api, LearnNext
    PROVE  TablesOK' /\ WritersOK' /\ Planned'
  <1>1. ASSUME UNCHANGED <<tables, writers>> PROVE TablesOK' /\ WritersOK' /\ Planned'
    <2>1. TablesOK' /\ db' = db
      BY <1>1, SameTables
    <2>2. WritersOK'
      BY <1>1 DEF Typed, WritersOK, writers
    <2>3. Planned'
      BY <1>1, <2>1 DEF Typed, Planned, RequestPlan, TaskPlan, writers, api
    <2> QED BY <2>1, <2>2, <2>3
  <1>2. ASSUME NEW p \in Procs, NEW r \in Rooms, QueueLearn(p, r) \/ ForgetPush(p, r)
        PROVE  TablesOK' /\ WritersOK' /\ Planned'
    BY <1>1, <1>2 DEF QueueLearn, ForgetPush
  <1>3. CASE Ripen
    BY <1>1, <1>3 DEF Ripen
  <1>4. ASSUME NEW t \in Tasks, NEW r \in Rooms, Pop(t, r) \/ PopLeaks(t, r)
        PROVE  TablesOK' /\ WritersOK' /\ Planned'
    <2>1. /\ at' = [at EXCEPT ![t] = "learn"] \/ at' = [at EXCEPT ![t] = "leaked"]
          /\ key' = [key EXCEPT ![t] = r] /\ UNCHANGED <<tables, copy>>
      BY <1>4 DEF Pop, PopLeaks, Take, Goto
    <2> QED BY <2>1, SameTables, MovedTask DEF Stages
  <1>5. ASSUME NEW t \in Tasks, Learn(t) PROVE TablesOK' /\ WritersOK' /\ Planned'
    <2>1. /\ UNCHANGED tables
          /\ \/ at' = [at EXCEPT ![t] = "fresh"] /\ UNCHANGED <<key, copy>>
             \/ /\ at' = [at EXCEPT ![t] = "idle"] /\ key' = [key EXCEPT ![t] = None]
                /\ copy' = [copy EXCEPT ![t] = NoRow]
      BY <1>5 DEF Learn, Goto, End, Drop
    <2>2. key[t] \in Rooms
      BY <1>5 DEF Learn, Typed, Planned, TaskPlan
    <2> QED BY <2>1, <2>2, SameTables, MovedTask DEF Stages
  <1>6. ASSUME NEW t \in Tasks, Refetch(t) PROVE TablesOK' /\ WritersOK' /\ Planned'
    <2> DEFINE r == key[t]
    <2>1. /\ at[t] = "fresh" /\ r \in DOMAIN Source
          /\ at' = [at EXCEPT ![t] = "write"]
          /\ key' = [key EXCEPT ![t] = r]
          /\ copy' = [copy EXCEPT ![t] = Row(Source, r)]
          /\ overlapped' \in {overlapped, overlapped \cup {r}}
          /\ UNCHANGED <<db, replica, intended>>
      BY <1>6 DEF Refetch, Hold, Goto, Seen
    <2>2. r \in Rooms
      BY <2>1 DEF Typed, Planned, TaskPlan
    <2>3. Row(Source, r) \in RoomRow /\ r \in DOMAIN db
      BY <2>1, <2>2, SourceTypes, RowTypes DEF Typed
    <2>4. t \in Writers /\ t \notin Requests
      BY DEF Writers
    <2>5. TablesOK'
      BY <2>1, <2>2 DEF Typed, TablesOK, Table, Keys
    <2>6. WritersOK'
      BY <2>1, <2>2, <2>3, <2>4 DEF Typed, WritersOK, Stages, Keys
    <2>7. /\ at'[t] = "write" /\ key'[t] = r /\ copy'[t] = Row(Source, r)
          /\ \A v \in Writers \ {t} : at'[v] = at[v] /\ key'[v] = key[v] /\ copy'[v] = copy[v]
      BY <2>1, <2>4 DEF Typed, WritersOK
    <2>8. TaskPlan(t)'
      BY <2>1, <2>2, <2>3, <2>7 DEF TaskPlan, Stages
    <2>9. Planned'
      BY <2>1, <2>4, <2>7, <2>8, Others DEF Typed, api
    <2> QED BY <2>5, <2>6, <2>9
  <1>7. ASSUME NEW t \in Tasks, Stamp(t) PROVE TablesOK' /\ WritersOK' /\ Planned'
    <2> DEFINE r == key[t]
               row == [copy[t] EXCEPT !.stamp = queue[r]]
               wanted == [intended[r] EXCEPT !.stamp = queue[r]]
    <2>1. /\ at[t] = "write" /\ Write(t, row, wanted) /\ at' = [at EXCEPT ![t] = "commit"]
      BY <1>7 DEF Stamp, Goto
    <2>2. r \in Rooms /\ r \in DOMAIN db /\ copy[t] \in RoomRow
      BY <2>1 DEF Typed, Planned, TaskPlan
    <2>3. intended[r] \in RoomRow /\ r \in Keys
      BY <2>2, RowTypes DEF Typed, TablesOK
    <2>4. queue[r] \in 0 .. MaxEvents
      BY <2>2 DEF Typed, LearningOK
    <2>5. row \in RoomRow /\ wanted \in RoomRow
      BY <2>2, <2>3, <2>4, StampedRow
    <2>6. t \in Writers
      BY DEF Writers
    <2> HIDE DEF row, wanted
    <2>7. /\ TablesOK' /\ DOMAIN db \subseteq DOMAIN db'
          /\ key' = key /\ copy' = [copy EXCEPT ![t] = NoRow]
      BY <2>1, <2>2, <2>3, <2>5, <2>6, WrittenTables
    <2> QED BY <2>1, <2>2, <2>7, MovedTask DEF Stages
  <1>8. ASSUME NEW t \in Tasks, Commit(t) \/ Abandon(t) PROVE TablesOK' /\ WritersOK' /\ Planned'
    <2>1. /\ at' = [at EXCEPT ![t] = "idle"] /\ key' = [key EXCEPT ![t] = None]
          /\ copy' = [copy EXCEPT ![t] = NoRow] /\ UNCHANGED tables
      BY <1>8 DEF Commit, Abandon, End, Goto, Drop
    <2> QED BY <2>1, SameTables, MovedTask DEF Stages
  <1> QED BY <1>2, <1>3, <1>4, <1>5, <1>6, <1>7, <1>8 DEF LearnNext, Task

LEMMA TypedAtInit == Init => Typed
  <1> SUFFICES ASSUME Init PROVE Typed
    OBVIOUS
  <1> USE DEF Init, TablesInit, ApiInit, LearnInit
  <1>1. TablesOK
    BY NewRows DEF TablesOK, Table, Keys
  <1>2. WritersOK
    BY DEF WritersOK, Places
  <1>3. ApiOK
    BY DEF ApiOK, Ops
  <1>4. LearningOK
    BY DEF LearningOK, Nothing, Learners
  <1>5. Planned
    BY DEF Planned, RequestPlan, TaskPlan, Places, Stages, Writers
  <1> QED BY <1>1, <1>2, <1>3, <1>4, <1>5 DEF Typed

LEMMA TypedStep == Typed /\ [Next]_vars => Typed'
  <1> SUFFICES ASSUME Typed, [Next]_vars PROVE Typed'
    OBVIOUS
  <1>1. ASSUME NEW q \in Requests, Request(q), UNCHANGED learning PROVE Typed'
    <2>1. LearningOK'
      BY <1>1 DEF learning, Typed, LearningOK
    <2> QED BY <1>1, <2>1, RequestStep DEF Typed
  <1>2. CASE LearnNext /\ UNCHANGED api
    <2>1. ApiOK'
      BY <1>2 DEF api, Typed, ApiOK
    <2> QED BY <1>2, <2>1, TaskStep, LearningStep DEF Typed
  <1>3. ASSUME UNCHANGED <<db, intended, overlapped, writers, api, learning>>,
               replica' \in {replica, db}
        PROVE  Typed'
    <2>1. TablesOK'
      BY <1>3 DEF Typed, TablesOK, Table
    <2>2. WritersOK' /\ ApiOK' /\ LearningOK'
      BY <1>3 DEF writers, api, learning, Typed, WritersOK, ApiOK, LearningOK
    <2>3. Planned'
      BY <1>3 DEF writers, api, Typed, Planned, RequestPlan, TaskPlan
    <2> QED BY <2>1, <2>2, <2>3 DEF Typed
  <1>4. CASE Replicate /\ UNCHANGED <<api, learning>>
    BY <1>3, <1>4 DEF Replicate
  <1>5. CASE UNCHANGED vars
    BY <1>3, <1>5 DEF vars, tables
  <1> QED BY <1>1, <1>2, <1>4, <1>5 DEF Next

(***************************************************************************)
(* Rows                                                                    *)
(***************************************************************************)

Kept == FieldsKept /\ Held

(* A step that writes no row: who comes to hold one has read it.           *)
LEMMA KeptFrame ==
    ASSUME Kept, db' = db, intended' = intended, overlapped \subseteq overlapped',
           \A w \in Writers : at'[w] = "write" =>
               \/ at[w] = "write" /\ key'[w] = key[w] /\ copy'[w] = copy[w]
               \/ copy'[w] = Row(db, key'[w])
               \/ key'[w] \in overlapped'
    PROVE  Kept'
  <1>1. FieldsKept'
    BY DEF Kept, FieldsKept
  <1>2. Held'
    BY DEF Kept, Held, Row
  <1> QED BY <1>1, <1>2 DEF Kept

(* The holders, when one writer goes somewhere else.                       *)
LEMMA KeptElsewhere ==
    ASSUME Typed, Kept, NEW w \in Writers, UNCHANGED <<db, intended>>,
           overlapped \subseteq overlapped',
           NEW s, s # "write", at' = [at EXCEPT ![w] = s],
           \A v \in Writers \ {w} : key'[v] = key[v] /\ copy'[v] = copy[v]
    PROVE  Kept'
  <1>1. at'[w] = s /\ \A v \in Writers \ {w} : at'[v] = at[v]
    BY DEF Typed, WritersOK
  <1> QED BY <1>1, KeptFrame

LEMMA KeptHold ==
    ASSUME Typed, Kept, NEW w \in Writers, NEW k, Hold(w, k)
    PROVE  Kept'
  <1>1. /\ at' = [at EXCEPT ![w] = "write"]
        /\ key' = [key EXCEPT ![w] = k]
        /\ copy' = [copy EXCEPT ![w] = Row(Source, k)]
        /\ UNCHANGED <<db, intended>>
        /\ overlapped \subseteq overlapped'
        /\ Row(Source, k) = Row(db, k) \/ k \in overlapped'
    BY DEF Hold, Goto, Seen
  <1>2. /\ key'[w] = k /\ copy'[w] = Row(Source, k)
        /\ \A v \in Writers \ {w} : at'[v] = at[v] /\ key'[v] = key[v] /\ copy'[v] = copy[v]
    BY <1>1 DEF Typed, WritersOK
  <1> QED BY <1>1, <1>2, KeptFrame

(* A write of what was meant, if the row is not on the books.              *)
LEMMA KeptWrite ==
    ASSUME Typed, Kept, NEW w \in Writers, NEW row, NEW wanted, Write(w, row, wanted),
           NEW s, s # "write", at' = [at EXCEPT ![w] = s],
           key[w] \notin overlapped => row = wanted
    PROVE  Kept'
  <1> DEFINE k == key[w]
  <1>1. /\ db' = Upsert(db, k, row) /\ intended' = Upsert(intended, k, wanted)
        /\ overlapped' = IF About(k) \subseteq {w} THEN overlapped ELSE overlapped \cup {k}
        /\ key' = key /\ copy' = [copy EXCEPT ![w] = NoRow]
    BY DEF Write, Drop
  <1>2. at'[w] = s /\ \A v \in Writers \ {w} : at'[v] = at[v] /\ copy'[v] = copy[v]
    BY <1>1 DEF Typed, WritersOK
  <1> HIDE DEF k
  <1>3. /\ DOMAIN db' = DOMAIN db \cup {k}
        /\ db'[k] = row /\ intended'[k] = wanted
        /\ \A x \in DOMAIN db : x # k => db'[x] = db[x]
        /\ \A x \in DOMAIN intended : x # k => intended'[x] = intended[x]
    BY <1>1 DEF Upsert
  <1>4. FieldsKept'
    <2>1. DOMAIN intended = DOMAIN db
      BY DEF Typed, TablesOK
    <2>2. overlapped \subseteq overlapped'
      BY <1>1
    <2>3. k \notin overlapped' => row = wanted
      BY <2>2 DEF k
    <2> QED BY <1>3, <2>1, <2>2, <2>3 DEF FieldsKept, Kept
  <1>5. Held'
    <2> SUFFICES ASSUME NEW v \in Writers, at'[v] = "write", key[v] \notin overlapped'
                 PROVE  copy'[v] = Row(db', key[v])
      BY <1>1 DEF Held, Row
    <2>1. v # w /\ at[v] = "write" /\ copy'[v] = copy[v]
      BY <1>2
    <2>2. key[v] # k
      <3> SUFFICES ASSUME key[v] = k PROVE FALSE
        OBVIOUS
      <3>1. v \in About(k)
        BY <2>1 DEF About
      <3> QED BY <1>1, <2>1, <3>1
    <2>3. copy[v] = Row(db, key[v])
      BY <1>1, <2>1 DEF Kept, Held
    <2>4. Row(db', key[v]) = Row(db, key[v])
      BY <1>3, <2>2 DEF Row
    <2> QED BY <2>1, <2>3, <2>4
  <1> QED BY <1>4, <1>5 DEF Kept

(* What a writer holds of a row that is not on the books is the row.       *)
LEMMA HeldRow ==
    ASSUME Typed, Kept, NEW w \in Writers, at[w] = "write",
           key[w] \in DOMAIN db, key[w] \notin overlapped
    PROVE  copy[w] = intended[key[w]]
  BY DEF Kept, Held, FieldsKept, Row

LEMMA KeptStep == Typed /\ Kept /\ [Next]_vars => Kept'
  <1> SUFFICES ASSUME Typed, Kept, [Next]_vars PROVE Kept'
    OBVIOUS
  <1>0. ASSUME NEW q \in Requests PROVE q \in Writers
    BY DEF Writers
  <1>1. ASSUME NEW q \in Requests, NEW o \in Ops, NEW k \in Keys, ReadRow(q, o, k) PROVE Kept'
    <2>1. CASE Hold(q, k)
      BY <1>0, <2>1, KeptHold
    <2>2. CASE ~Hold(q, k)
      <3>1. at' = [at EXCEPT ![q] = "done"] /\ UNCHANGED <<tables, key, copy>>
        BY <1>1, <2>2 DEF ReadRow, Refuse, Finish, Goto
      <3> QED BY <1>0, <3>1, KeptElsewhere DEF tables
    <2> QED BY <2>1, <2>2
  <1>2. ASSUME NEW q \in Requests, NEW c \in Communities, CreateCommunity(q, c) PROVE Kept'
    <2>1. /\ at' = [at EXCEPT ![q] = "done"] /\ c \notin DOMAIN db
          /\ db' = Upsert(db, c, NewCommunity) /\ intended' = Upsert(intended, c, NewCommunity)
          /\ UNCHANGED <<overlapped, key, copy>>
      BY <1>2 DEF CreateCommunity, Finish, Goto
    <2>2. /\ DOMAIN db' = DOMAIN db \cup {c} /\ db'[c] = intended'[c]
          /\ \A x \in DOMAIN db : x # c => db'[x] = db[x]
          /\ \A x \in DOMAIN intended : x # c => intended'[x] = intended[x]
      BY <2>1 DEF Upsert
    <2>3. DOMAIN intended = DOMAIN db
      BY DEF Typed, TablesOK
    <2>4. FieldsKept'
      BY <2>1, <2>2, <2>3 DEF FieldsKept, Kept
    <2>5. \A v \in Writers : at'[v] = "write" => at[v] = "write"
      BY <2>1 DEF Typed, WritersOK
    <2>6. \A v \in Writers : at[v] = "write" => key[v] # c
      BY <2>1 DEF Typed, Planned, RequestPlan, TaskPlan, Writers
    <2>7. Held'
      BY <2>1, <2>2, <2>5, <2>6 DEF Kept, Held, Row
    <2> QED BY <2>4, <2>7 DEF Kept
  <1>3. ASSUME NEW q \in Requests, NEW r \in Rooms, NEW c \in Communities,
               Adding(q, r, c) \/ Refuse(q)
        PROVE  Kept'
    <2>1. /\ at' = [at EXCEPT ![q] = "add"] \/ at' = [at EXCEPT ![q] = "done"]
          /\ key' = [key EXCEPT ![q] = r] \/ key' = key
          /\ UNCHANGED <<tables, copy>>
      BY <1>3 DEF Adding, Refuse, Finish, Goto
    <2>2. \A v \in Writers \ {q} : key'[v] = key[v]
      BY <2>1 DEF Typed, WritersOK
    <2> QED BY <1>0, <2>1, <2>2, KeptElsewhere DEF tables
  <1>4. ASSUME NEW q \in Requests, NEW r \in Rooms, NEW token \in Requests, Authenticate(q, r, token)
        PROVE  Kept'
    <2>1. \E c \in Communities : Adding(q, r, c) \/ Refuse(q)
      BY <1>4 DEF Authenticate
    <2> QED BY <1>3, <2>1
  <1>5. ASSUME NEW q \in Requests, WriteRow(q) PROVE Kept'
    <2> DEFINE row == Changed(q, copy[q])
               wanted == Changed(q, intended[key[q]])
    <2>1. /\ at[q] = "write" /\ op[q] \in CommunityOps \cup {"moderate"}
          /\ Write(q, row, wanted) /\ at' = [at EXCEPT ![q] = "done"]
      BY <1>5 DEF WriteRow, Finish, Goto
    <2>2. key[q] \in DOMAIN db
      BY <2>1 DEF Typed, Planned, RequestPlan, CommunityOps, JoinOps
    <2>3. key[q] \notin overlapped => row = wanted
      BY <1>0, <2>1, <2>2, HeldRow
    <2> HIDE DEF row, wanted
    <2>4. PICK x : x = row
      OBVIOUS
    <2>5. PICK y : y = wanted
      OBVIOUS
    <2>6. /\ Write(q, x, y) /\ at' = [at EXCEPT ![q] = "done"]
          /\ key[q] \notin overlapped => x = y
      BY <2>1, <2>3, <2>4, <2>5
    <2>7. PICK s : s = "done"
      OBVIOUS
    <2>8. PICK w \in Writers : w = q
      BY <1>0
    <2>9. /\ Write(w, x, y) /\ s # "write" /\ at' = [at EXCEPT ![w] = s]
          /\ key[w] \notin overlapped => x = y
      BY <2>6, <2>7, <2>8
    <2> HIDE DEF Write
    <2> QED BY <2>9, KeptWrite
  <1>6. ASSUME NEW q \in Requests, CheckAbsent(q) PROVE Kept'
    <2>1. /\ at' = [at EXCEPT ![q] = "check"] \/ at' = [at EXCEPT ![q] = "done"]
          /\ UNCHANGED <<db, intended, key, copy>> /\ overlapped \subseteq overlapped'
      BY <1>6 DEF CheckAbsent, Refuse, Finish, Goto, Seen, tables
    <2> QED BY <1>0, <2>1, KeptElsewhere
  <1>7. ASSUME NEW q \in Requests, StartJoining(q) PROVE Kept'
    <2>1. /\ at' = [at EXCEPT ![q] = "check"]
          /\ key' = [key EXCEPT ![q] = StartRooms[nth[q]]]
          /\ UNCHANGED <<tables, copy>>
      BY <1>7 DEF StartJoining, Goto
    <2>2. \A v \in Writers \ {q} : key'[v] = key[v]
      BY <2>1 DEF Typed, WritersOK
    <2> QED BY <1>0, <2>1, <2>2, KeptElsewhere DEF tables
  <1>8. ASSUME NEW q \in Requests, FindRoom(q) PROVE Kept'
    <2>1. CASE Hold(q, key[q])
      BY <1>0, <2>1, KeptHold
    <2>2. CASE ~Hold(q, key[q])
      <3>1. /\ at' = [at EXCEPT ![q] = "done"] \/ at' = [at EXCEPT ![q] = "next"]
            /\ UNCHANGED <<tables, key, copy>>
        BY <1>8, <2>2 DEF FindRoom, Joined, NextRoom, Finish, Goto
      <3> QED BY <1>0, <3>1, KeptElsewhere DEF tables
    <2> QED BY <2>1, <2>2
  <1>9. ASSUME NEW q \in Requests, StoreJoined(q) PROVE Kept'
    <2> DEFINE r == key[q]
               new == NewRoom(for[q])
               wanted == IF r \in DOMAIN intended THEN intended[r] ELSE new
    <2>1. /\ at[q] = "write" /\ op[q] \in JoinOps \cup {"startup"}
          /\ Write(q, new, wanted)
          /\ at' = [at EXCEPT ![q] = "done"] \/ at' = [at EXCEPT ![q] = "next"]
      BY <1>9 DEF StoreJoined, Joined, NextRoom, Finish, Goto
    <2>2. copy[q] = NoRow
      BY <2>1 DEF Typed, Planned, RequestPlan, CommunityOps, JoinOps
    <2>3. r \notin overlapped => r \notin DOMAIN intended
      <3>1. r \notin overlapped => Row(db, r) = NoRow
        BY <1>0, <2>1, <2>2 DEF Kept, Held
      <3>2. r \in DOMAIN db => Row(db, r) # NoRow
        BY RowTypes DEF Typed, TablesOK
      <3> QED BY <3>1, <3>2 DEF Typed, TablesOK
    <2>4. key[q] \notin overlapped => new = wanted
      BY <2>3
    <2> HIDE DEF new, wanted, r
    <2>5. PICK s \in {"done", "next"} : at' = [at EXCEPT ![q] = s]
      BY <2>1
    <2> QED BY <1>0, <2>1, <2>4, <2>5, KeptWrite
  <1>10. ASSUME NEW q \in Requests, Fail(q) PROVE Kept'
    <2>1. /\ at' = [at EXCEPT ![q] = "done"] \/ at' = [at EXCEPT ![q] = "next"]
          /\ copy' = [copy EXCEPT ![q] = NoRow] /\ UNCHANGED <<tables, key>>
      BY <1>10 DEF Fail, Finish, Goto, Drop
    <2>2. \A v \in Writers \ {q} : copy'[v] = copy[v]
      BY <2>1 DEF Typed, WritersOK
    <2> QED BY <1>0, <2>1, <2>2, KeptElsewhere DEF tables
  <1>11. CASE LearnNext
    <2>0. ASSUME NEW t \in Tasks PROVE t \in Writers
      BY DEF Writers
    <2>1. ASSUME NEW p \in Procs, NEW r \in Rooms, QueueLearn(p, r) \/ ForgetPush(p, r) PROVE Kept'
      BY <2>1, KeptFrame DEF QueueLearn, ForgetPush, tables, writers
    <2>2. CASE Ripen
      BY <2>2, KeptFrame DEF Ripen, tables, writers
    <2>3. ASSUME NEW t \in Tasks, NEW r \in Rooms, Pop(t, r) \/ PopLeaks(t, r) PROVE Kept'
      <3>1. /\ at' = [at EXCEPT ![t] = "learn"] \/ at' = [at EXCEPT ![t] = "leaked"]
            /\ key' = [key EXCEPT ![t] = r] /\ UNCHANGED <<tables, copy>>
        BY <2>3 DEF Pop, PopLeaks, Take, Goto
      <3>2. \A v \in Writers \ {t} : key'[v] = key[v]
        BY <3>1 DEF Typed, WritersOK
      <3> QED BY <2>0, <3>1, <3>2, KeptElsewhere DEF tables
    <2>4. ASSUME NEW t \in Tasks, Learn(t) \/ Commit(t) \/ Abandon(t) PROVE Kept'
      <3>1. /\ at' = [at EXCEPT ![t] = "fresh"] \/ at' = [at EXCEPT ![t] = "idle"]
            /\ key' = key \/ key' = [key EXCEPT ![t] = None]
            /\ copy' = copy \/ copy' = [copy EXCEPT ![t] = NoRow]
            /\ UNCHANGED tables
        BY <2>4 DEF Learn, Commit, Abandon, End, Drop, Goto
      <3>2. \A v \in Writers \ {t} : key'[v] = key[v] /\ copy'[v] = copy[v]
        BY <3>1 DEF Typed, WritersOK
      <3> QED BY <2>0, <3>1, <3>2, KeptElsewhere DEF tables
    <2>5. ASSUME NEW t \in Tasks, Refetch(t) PROVE Kept'
      BY <2>0, <2>5, KeptHold DEF Refetch
    <2>6. ASSUME NEW t \in Tasks, Stamp(t) PROVE Kept'
      <3> DEFINE r == key[t]
                 row == [copy[t] EXCEPT !.stamp = queue[r]]
                 wanted == [intended[r] EXCEPT !.stamp = queue[r]]
      <3>1. at[t] = "write" /\ Write(t, row, wanted) /\ at' = [at EXCEPT ![t] = "commit"]
        BY <2>6 DEF Stamp, Goto
      <3>2. r \in DOMAIN db
        BY <3>1 DEF Typed, Planned, TaskPlan
      <3>3. r \notin overlapped => row = wanted
        BY <2>0, <3>1, <3>2, HeldRow
      <3> HIDE DEF row, wanted
      <3> QED BY <2>0, <3>1, <3>3, KeptWrite
    <2> QED BY <1>11, <2>1, <2>2, <2>3, <2>4, <2>5, <2>6 DEF LearnNext, Task
  <1>12. CASE Replicate
    BY <1>12, KeptFrame DEF Replicate, writers
  <1>13. CASE UNCHANGED vars
    BY <1>13, KeptFrame DEF vars, tables, writers
  <1>14. ASSUME NEW q \in Requests, Request(q) PROVE Kept'
    BY <1>1, <1>2, <1>3, <1>4, <1>5, <1>6, <1>7, <1>8, <1>9, <1>10, <1>14
       DEF Request, FindCommunity
  <1> QED BY <1>11, <1>12, <1>13, <1>14 DEF Next

(***************************************************************************)
(* Joins                                                                   *)
(***************************************************************************)

(* What a step leaves to the joins of the others: all that is theirs, and  *)
(* no room put under one that found it absent without being on the books.  *)
Leaves(w) ==
    /\ \A v \in Requests \ {w} :
          /\ at'[v] = at[v] /\ key'[v] = key[v] /\ op'[v] = op[v]
          /\ for'[v] = for[v] /\ answer'[v] = answer[v] /\ given'[v] = given[v]
    /\ overlapped \subseteq overlapped'
    /\ \A x \in DOMAIN db' \ DOMAIN db :
          x \in Communities \/ About(x) \subseteq {w} \/ x \in overlapped'

LEMMA JoinFrame ==
    ASSUME Typed, Joins, NEW w \in Writers, Leaves(w), w \in Requests => Honest(w)'
    PROVE  Joins'
  <1> SUFFICES ASSUME NEW v \in Requests, v # w PROVE Honest(v)'
    BY DEF Joins
  <1>1. Honest(v)
    BY DEF Joins
  <1>2. /\ at'[v] = at[v] /\ key'[v] = key[v] /\ op'[v] = op[v]
        /\ for'[v] = for[v] /\ answer'[v] = answer[v] /\ given'[v] = given[v]
        /\ overlapped \subseteq overlapped'
    BY DEF Leaves
  <1>3. at[v] = "check" /\ key[v] \in DOMAIN db' => key[v] \in DOMAIN db \/ key[v] \in overlapped'
    <2> SUFFICES ASSUME at[v] = "check", key[v] \in DOMAIN db', key[v] \notin DOMAIN db
                 PROVE  key[v] \in overlapped'
      OBVIOUS
    <2>1. key[v] \in Rooms
      BY DEF Typed, Planned, RequestPlan
    <2>2. v \in About(key[v])
      BY DEF About, Writers
    <2> QED BY <2>1, <2>2 DEF Leaves
  <1> QED BY <1>1, <1>2, <1>3 DEF Honest

(* The only row a write adds is the writer's.                              *)
LEMMA WriteGrows ==
    ASSUME NEW w \in Writers, NEW row, NEW wanted, Write(w, row, wanted)
    PROVE  /\ overlapped \subseteq overlapped' /\ key' = key
           /\ \A x \in DOMAIN db' \ DOMAIN db : About(x) \subseteq {w} \/ x \in overlapped'
  <1> DEFINE k == key[w]
  <1>1. /\ db' = Upsert(db, k, row) /\ key' = key
        /\ overlapped' = IF About(k) \subseteq {w} THEN overlapped ELSE overlapped \cup {k}
    BY DEF Write
  <1> HIDE DEF k
  <1>2. DOMAIN db' = DOMAIN db \cup {k}
    BY <1>1 DEF Upsert
  <1> QED BY <1>1, <1>2

LEMMA JoinsTask ==
    ASSUME Typed, Joins, LearnNext, UNCHANGED api
    PROVE  Joins'
  <1> USE DEF api
  <1>0. ASSUME NEW t \in Tasks PROVE t \in Writers /\ t \notin Requests
    BY DEF Writers
  <1>1. ASSUME UNCHANGED <<tables, writers>> PROVE Joins'
    BY <1>1 DEF tables, writers, Joins, Honest
  <1>2. ASSUME NEW t \in Tasks, NEW s, at' = [at EXCEPT ![t] = s],
               \A v \in Writers \ {t} : key'[v] = key[v],
               overlapped \subseteq overlapped',
               \A x \in DOMAIN db' \ DOMAIN db : About(x) \subseteq {t} \/ x \in overlapped'
        PROVE  Joins'
    <2>1. Leaves(t)
      BY <1>0, <1>2 DEF Leaves, Typed, WritersOK, Writers
    <2> QED BY <1>0, <2>1, JoinFrame
  <1>3. ASSUME NEW p \in Procs, NEW r \in Rooms, QueueLearn(p, r) \/ ForgetPush(p, r) PROVE Joins'
    BY <1>1, <1>3 DEF QueueLearn, ForgetPush
  <1>4. CASE Ripen
    BY <1>1, <1>4 DEF Ripen
  <1>5. ASSUME NEW t \in Tasks, NEW r \in Rooms, Pop(t, r) \/ PopLeaks(t, r) PROVE Joins'
    <2>1. /\ at' = [at EXCEPT ![t] = "learn"] \/ at' = [at EXCEPT ![t] = "leaked"]
          /\ key' = [key EXCEPT ![t] = r] /\ UNCHANGED tables
      BY <1>5 DEF Pop, PopLeaks, Take, Goto
    <2>2. \A v \in Writers \ {t} : key'[v] = key[v]
      BY <2>1 DEF Typed, WritersOK
    <2> QED BY <1>2, <2>1, <2>2 DEF tables
  <1>6. ASSUME NEW t \in Tasks, Learn(t) \/ Commit(t) \/ Abandon(t) PROVE Joins'
    <2>1. /\ at' = [at EXCEPT ![t] = "fresh"] \/ at' = [at EXCEPT ![t] = "idle"]
          /\ key' = key \/ key' = [key EXCEPT ![t] = None]
          /\ UNCHANGED tables
      BY <1>6 DEF Learn, Commit, Abandon, End, Goto
    <2>2. \A v \in Writers \ {t} : key'[v] = key[v]
      BY <2>1 DEF Typed, WritersOK
    <2> QED BY <1>2, <2>1, <2>2 DEF tables
  <1>7. ASSUME NEW t \in Tasks, Refetch(t) PROVE Joins'
    <2>1. /\ at' = [at EXCEPT ![t] = "write"] /\ key' = [key EXCEPT ![t] = key[t]]
          /\ db' = db /\ overlapped \subseteq overlapped'
      BY <1>7 DEF Refetch, Hold, Goto, Seen
    <2>2. \A v \in Writers \ {t} : key'[v] = key[v]
      BY <2>1 DEF Typed, WritersOK
    <2> QED BY <1>2, <2>1, <2>2
  <1>8. ASSUME NEW t \in Tasks, Stamp(t) PROVE Joins'
    <2>1. at' = [at EXCEPT ![t] = "commit"] /\ \E row, wanted : Write(t, row, wanted)
      BY <1>8 DEF Stamp, Goto
    <2>2. /\ overlapped \subseteq overlapped' /\ key' = key
          /\ \A x \in DOMAIN db' \ DOMAIN db : About(x) \subseteq {t} \/ x \in overlapped'
      BY <1>0, <2>1, WriteGrows
    <2> QED BY <1>2, <2>1, <2>2
  <1> QED BY <1>3, <1>4, <1>5, <1>6, <1>7, <1>8 DEF LearnNext, Task

(* A step that ends the request or sends it anywhere but to a check, and   *)
(* does not answer a join with success.                                    *)
LEMMA JoinsQuiet ==
    ASSUME Typed, Joins, NEW q \in Requests, at[q] # "done", Leaves(q),
           \/ Goto(q, "done") /\ Answer(q, "error")
           \/ Goto(q, "done") /\ Answer(q, "ok") /\ op'[q] \notin JoinOps
           \/ UNCHANGED answer /\ \E s : s # "check" /\ Goto(q, s)
    PROVE  Joins'
  <1>0. q \in Writers
    BY DEF Writers
  <1>1. ASSUME NEW a \in {"ok", "error"}, Goto(q, "done"), Answer(q, a),
               a = "error" \/ op'[q] \notin JoinOps
        PROVE  Joins'
    <2>1. answer[q] \in {"none", "error"}
      BY DEF Typed, ApiOK, Joins, Honest
    <2>2. at'[q] = "done"
      BY <1>0, <1>1 DEF Goto, Typed, WritersOK
    <2>3. answer'[q] = IF answer[q] = "none" THEN a ELSE answer[q]
      BY <1>1 DEF Answer, Typed, ApiOK
    <2>4. answer'[q] = "error" \/ op'[q] \notin JoinOps
      BY <1>1, <2>1, <2>3
    <2> QED BY <1>0, <2>2, <2>4, JoinFrame DEF Honest
  <1>2. CASE UNCHANGED answer /\ \E s : s # "check" /\ Goto(q, s)
    <2>1. at'[q] # "check" /\ answer'[q] # "ok"
      BY <1>0, <1>2 DEF Goto, Typed, WritersOK, Joins, Honest
    <2> QED BY <1>0, <2>1, JoinFrame DEF Honest
  <1> QED BY <1>1, <1>2

(* The first part of Leaves, from how a request's own state changes.       *)
LEMMA OthersStay ==
    ASSUME Typed, NEW q \in Requests,
           \E s : at' = [at EXCEPT ![q] = s],
           key' = key \/ \E k : key' = [key EXCEPT ![q] = k],
           op' = op \/ \E o : op' = [op EXCEPT ![q] = o],
           for' = for \/ \E c : for' = [for EXCEPT ![q] = c],
           answer' = answer \/ \E a : Answer(q, a),
           given' = given \/ \E c : given' = [given EXCEPT ![q] = c]
    PROVE  \A v \in Requests \ {q} :
              /\ at'[v] = at[v] /\ key'[v] = key[v] /\ op'[v] = op[v]
              /\ for'[v] = for[v] /\ answer'[v] = answer[v] /\ given'[v] = given[v]
  <1> SUFFICES ASSUME NEW v \in Requests, v # q
               PROVE  /\ at'[v] = at[v] /\ key'[v] = key[v] /\ op'[v] = op[v]
                      /\ for'[v] = for[v] /\ answer'[v] = answer[v] /\ given'[v] = given[v]
    OBVIOUS
  <1>1. at'[v] = at[v] /\ key'[v] = key[v]
    BY DEF Typed, WritersOK, Writers
  <1>2. op'[v] = op[v] /\ for'[v] = for[v] /\ given'[v] = given[v]
    BY DEF Typed, ApiOK
  <1>3. answer'[v] = answer[v]
    BY DEF Typed, ApiOK, Answer
  <1> QED BY <1>1, <1>2, <1>3

LEMMA JoinsRequest ==
    ASSUME Typed, Joins, NEW q \in Requests, Request(q)
    PROVE  Joins'
  <1>0. q \in Writers
    BY DEF Writers
  <1>1. ASSUME NEW o \in Ops, NEW k \in Keys, ReadRow(q, o, k) PROVE Joins'
    <2>1. /\ at[q] = "idle" /\ op' = [op EXCEPT ![q] = o] /\ o \notin JoinOps
          /\ UNCHANGED <<db, for, given>> /\ overlapped \subseteq overlapped'
          /\ key' = key \/ key' = [key EXCEPT ![q] = k]
          /\ \/ Goto(q, "done") /\ Answer(q, "error")
             \/ Goto(q, "done") /\ Answer(q, "ok")
             \/ Goto(q, "write") /\ UNCHANGED answer
      BY <1>1 DEF ReadRow, Start, Refuse, Finish, Hold, Seen, tables, CommunityOps, JoinOps
    <2>2. op'[q] \notin JoinOps
      BY <2>1 DEF Typed, ApiOK
    <2>3. Leaves(q)
      BY <2>1, OthersStay DEF Leaves, Goto
    <2> QED BY <2>1, <2>2, <2>3, JoinsQuiet
  <1>2. ASSUME NEW c \in Communities, CreateCommunity(q, c) PROVE Joins'
    <2>1. /\ at[q] = "idle" /\ op' = [op EXCEPT ![q] = "create"]
          /\ UNCHANGED <<overlapped, key, for, given>>
          /\ DOMAIN db' = DOMAIN db \cup {c}
          /\ Goto(q, "done") /\ Answer(q, "ok")
      BY <1>2 DEF CreateCommunity, Start, Finish, Upsert
    <2>2. op'[q] \notin JoinOps
      BY <2>1 DEF Typed, ApiOK, JoinOps
    <2>3. Leaves(q)
      BY <2>1, OthersStay DEF Leaves, Goto
    <2> QED BY <2>1, <2>2, <2>3, JoinsQuiet
  <1>3. ASSUME NEW r \in Rooms, NEW c \in Communities, NEW o \in JoinOps,
               Start(q, o), UNCHANGED given,
               Adding(q, r, c) \/ (Refuse(q) /\ UNCHANGED for)
        PROVE  Joins'
    <2>1. /\ at[q] = "idle" /\ op' = [op EXCEPT ![q] = o]
          /\ UNCHANGED <<tables, given>>
          /\ key' = key \/ key' = [key EXCEPT ![q] = r]
          /\ for' = for \/ for' = [for EXCEPT ![q] = c]
          /\ \/ Goto(q, "done") /\ Answer(q, "error")
             \/ Goto(q, "add") /\ UNCHANGED answer
      BY <1>3 DEF Start, Adding, Refuse, Finish
    <2>2. Leaves(q)
      BY <2>1, OthersStay DEF Leaves, Goto, tables
    <2> QED BY <2>1, <2>2, JoinsQuiet
  <1>4. ASSUME NEW r \in Rooms, NEW c \in Communities, FindCommunity(q, r, c) PROVE Joins'
    <2>1. /\ Start(q, "join") /\ UNCHANGED given
          /\ Adding(q, r, c) \/ (Refuse(q) /\ UNCHANGED for)
      BY Zenon, <1>4 DEF FindCommunity
    <2>2. "join" \in JoinOps
      BY DEF JoinOps
    <2> QED BY Zenon, <1>3, <2>1, <2>2
  <1>5. ASSUME NEW r \in Rooms, NEW token \in Requests, Authenticate(q, r, token) PROVE Joins'
    <2>1. /\ Start(q, "selfjoin") /\ UNCHANGED given
          /\ \/ Refuse(q) /\ UNCHANGED for
             \/ \E c \in Communities : Adding(q, r, c)
      BY <1>5 DEF Authenticate
    <2>2. "selfjoin" \in JoinOps
      BY DEF JoinOps
    <2>3. CASE Refuse(q) /\ UNCHANGED for
      BY Zenon, <1>3, <2>1, <2>2, <2>3, TableAssumption
    <2>4. ASSUME NEW c \in Communities, Adding(q, r, c) PROVE Joins'
      BY Zenon, <1>3, <2>1, <2>2, <2>4
    <2> QED BY <2>1, <2>3, <2>4
  <1>6. CASE WriteRow(q)
    <2>1. /\ at[q] = "write" /\ op[q] \notin JoinOps /\ UNCHANGED <<op, for, given>>
          /\ Goto(q, "done") /\ Answer(q, "ok") /\ \E row, wanted : Write(q, row, wanted)
      BY <1>6 DEF WriteRow, Finish, CommunityOps, JoinOps
    <2>2. /\ overlapped \subseteq overlapped' /\ key' = key
          /\ \A x \in DOMAIN db' \ DOMAIN db : About(x) \subseteq {q} \/ x \in overlapped'
      BY <1>0, <2>1, WriteGrows
    <2>3. Leaves(q)
      BY <2>1, <2>2, OthersStay DEF Leaves, Goto
    <2> QED BY <2>1, <2>3, JoinsQuiet
  <1>7. CASE CheckAbsent(q)
    <2>1. CASE Refuse(q) /\ UNCHANGED <<op, for, given>>
      <3>1. Leaves(q)
        BY <2>1, OthersStay DEF Leaves, Refuse, Finish, Goto, tables
      <3> QED BY <1>7, <2>1, <3>1, JoinsQuiet DEF CheckAbsent, Refuse, Finish
    <2>2. CASE /\ key[q] \notin DOMAIN Source /\ Goto(q, "check") /\ Seen(key[q])
               /\ UNCHANGED <<db, key, answer, op, for, given>>
      <3>1. Leaves(q)
        BY <2>2, OthersStay DEF Leaves, Goto, Seen
      <3>2. key[q] \notin DOMAIN db \/ key[q] \in overlapped'
        <4>1. key[q] \in DOMAIN db => Row(Source, key[q]) # Row(db, key[q])
          <5>1. key[q] \in DOMAIN db => Row(db, key[q]) # NoRow
            BY RowTypes DEF Typed, TablesOK
          <5> QED BY <2>2, <5>1 DEF Row
        <4> QED BY <2>2, <4>1 DEF Seen
      <3>3. at[q] = "add" /\ at'[q] = "check"
        BY <1>0, <1>7, <2>2 DEF CheckAbsent, Goto, Typed, WritersOK
      <3>4. Honest(q)'
        BY <2>2, <3>2, <3>3 DEF Honest, Joins
      <3> QED BY <1>0, <3>1, <3>4, JoinFrame
    <2>3. CASE Goto(q, "check") /\ Answer(q, "error") /\ UNCHANGED <<tables, key, op, for, given>>
      <3>1. Leaves(q)
        BY <2>3, OthersStay DEF Leaves, Goto, tables
      <3>2. answer[q] \in {"none", "error"}
        BY <1>7 DEF CheckAbsent, Typed, ApiOK, Joins, Honest
      <3>3. answer'[q] = "error"
        BY <2>3, <3>2 DEF Answer, Typed, ApiOK
      <3> QED BY <1>0, <3>1, <3>3, JoinFrame DEF Honest
    <2> QED BY <1>7, <2>1, <2>2, <2>3 DEF CheckAbsent
  <1>8. CASE StartJoining(q)
    <2>1. /\ at[q] \in {"idle", "next"} /\ op'[q] \notin JoinOps
          /\ key' = [key EXCEPT ![q] = StartRooms[nth[q]]]
          /\ for' = [for EXCEPT ![q] = Default]
          /\ op' = op \/ op' = [op EXCEPT ![q] = "startup"]
          /\ Goto(q, "check") /\ UNCHANGED <<tables, answer, given>>
      <3>1. CASE Start(q, "startup")
        BY <1>8, <3>1 DEF StartJoining, Start, Typed, ApiOK, JoinOps
      <3>2. CASE at[q] = "next" /\ UNCHANGED op
        BY <1>8, <3>2 DEF StartJoining, Typed, Planned, RequestPlan, JoinOps
      <3> QED BY <1>8, <3>1, <3>2 DEF StartJoining
    <2>2. Leaves(q)
      BY <2>1, OthersStay DEF Leaves, Goto, tables
    <2>3. answer'[q] # "ok"
      BY <2>1 DEF Joins, Honest
    <2> QED BY <1>0, <2>1, <2>2, <2>3, JoinFrame DEF Honest
  <1>9. CASE Fail(q)
    <2>1. /\ at[q] \in {"add", "check", "write", "next"}
          /\ UNCHANGED <<tables, key, op, for, given>>
          /\ \/ Goto(q, "next") /\ UNCHANGED answer
             \/ Goto(q, "done") /\ Answer(q, "error")
      BY <1>9 DEF Fail, Finish
    <2>2. Leaves(q)
      BY <2>1, OthersStay DEF Leaves, Goto, tables
    <2> QED BY <2>1, <2>2, JoinsQuiet
  <1>10. ASSUME NEW c, at[q] # "done", op' = op, Joined(q, c)
         PROVE  /\ given' = [given EXCEPT ![q] = c]
                /\ UNCHANGED for
                /\ \/ op'[q] \notin JoinOps /\ Goto(q, "next") /\ UNCHANGED answer
                   \/ Goto(q, "done") /\ Answer(q, "ok")
    BY <1>10 DEF Joined, NextRoom, Finish, JoinOps
  <1>11. ASSUME NEW c, at[q] # "done", op' = op, key' = key, Joined(q, c), Leaves(q),
                op[q] \in JoinOps /\ answer[q] # "error" => c = for[q] \/ key[q] \in overlapped
         PROVE  Joins'
    <2>1. CASE op'[q] \notin JoinOps
      BY <1>10, <1>11, <2>1, JoinsQuiet
    <2>2. CASE op'[q] \in JoinOps
      <3>1. /\ given' = [given EXCEPT ![q] = c] /\ for' = for
            /\ Goto(q, "done") /\ Answer(q, "ok")
        BY <1>10, <1>11, <2>2
      <3>2. at'[q] = "done"
        BY <1>0, <3>1 DEF Goto, Typed, WritersOK
      <3>3. answer'[q] = IF answer[q] = "none" THEN "ok" ELSE answer[q]
        BY <3>1 DEF Answer, Typed, ApiOK
      <3>4. given'[q] = c
        BY <3>1 DEF Typed, ApiOK
      <3>5. overlapped \subseteq overlapped'
        BY <1>11 DEF Leaves
      <3>6. Honest(q)'
        BY <1>11, <2>2, <3>1, <3>2, <3>3, <3>4, <3>5 DEF Honest
      <3> QED BY <1>0, <1>11, <3>6, JoinFrame
    <2> QED BY <2>1, <2>2
  <1>12. CASE StoreJoined(q)
    <2>1. /\ at[q] = "write" /\ Joined(q, for[q]) /\ op' = op
          /\ \E row, wanted : Write(q, row, wanted)
      BY <1>12 DEF StoreJoined, Joined
    <2>2. /\ overlapped \subseteq overlapped' /\ key' = key
          /\ \A x \in DOMAIN db' \ DOMAIN db : About(x) \subseteq {q} \/ x \in overlapped'
      BY <1>0, <2>1, WriteGrows
    <2>3. Leaves(q)
      BY <1>10, <2>1, <2>2, OthersStay DEF Leaves, Goto
    <2> QED BY <1>11, <2>1, <2>2, <2>3
  <1>13. CASE FindRoom(q)
    <2>1. CASE key[q] \in DOMAIN Source
      <3>1. /\ at[q] = "check" /\ Joined(q, Source[key[q]].community) /\ op' = op
            /\ UNCHANGED <<tables, key>>
        BY <1>13, <2>1 DEF FindRoom, Joined
      <3>2. key[q] \in DOMAIN db
        BY <2>1 DEF Source, Typed, TablesOK
      <3>3. op[q] \in JoinOps /\ answer[q] # "error" => key[q] \in overlapped
        BY <3>1, <3>2 DEF Joins, Honest
      <3>4. Leaves(q)
        BY <1>10, <3>1, OthersStay DEF Leaves, Goto, tables
      <3> QED BY <1>11, <3>1, <3>3, <3>4
    <2>2. CASE key[q] \notin DOMAIN Source
      <3>1. /\ at[q] = "check" /\ Hold(q, key[q]) /\ UNCHANGED api
        BY <1>13, <2>2 DEF FindRoom
      <3>2. /\ Goto(q, "write") /\ UNCHANGED <<db, answer, op, for, given>>
            /\ key' = [key EXCEPT ![q] = key[q]] /\ overlapped \subseteq overlapped'
        BY <3>1 DEF Hold, Seen, api
      <3>3. Leaves(q)
        BY <3>2, OthersStay DEF Leaves, Goto
      <3> QED BY <3>1, <3>2, <3>3, JoinsQuiet
    <2> QED BY <2>1, <2>2
  <1> QED BY <1>1, <1>2, <1>4, <1>5, <1>6, <1>7, <1>8, <1>9, <1>12, <1>13 DEF Request

LEMMA JoinsStep == Typed /\ Joins /\ [Next]_vars => Joins'
  <1> SUFFICES ASSUME Typed, Joins, UNCHANGED <<db, overlapped, writers, api>> PROVE Joins'
    BY JoinsRequest, JoinsTask DEF Next, Replicate, vars, tables
  <1> QED BY DEF writers, api, Joins, Honest

LEMMA KeptAtInit == Init => Kept
  BY DEF Init, TablesInit, Kept, FieldsKept, Held, Writers

LEMMA JoinsAtInit == Init => Joins
  BY DEF Init, TablesInit, ApiInit, Joins, Honest, JoinOps, Writers

LEMMA Invariant == Spec => [](Typed /\ Kept /\ Joins)
  <1>1. Init => Typed /\ Kept /\ Joins
    BY TypedAtInit, KeptAtInit, JoinsAtInit
  <1>2. Typed /\ Kept /\ Joins /\ [Next]_vars => (Typed /\ Kept /\ Joins)'
    BY TypedStep, KeptStep, JoinsStep
  <1> QED BY <1>1, <1>2, PTL DEF Spec

(* Every handler, join and task leaves the tables, the queue and itself in *)
(* a state its next step can start from.                                   *)
THEOREM TypeCorrect == Spec => []TypeOK
  <1>1. Typed => TypeOK
    BY DEF Typed, TablesOK, WritersOK, ApiOK, LearningOK, Planned, RequestPlan, TaskPlan, TypeOK
  <1> QED BY <1>1, Invariant, PTL

(* The upserts of whole rows in psql.go lose nobody's field unless writers *)
(* of the row overlapped or one read it from a replica that was behind.    *)
THEOREM FieldsStay == Spec => []FieldsKept
  <1>1. Kept => FieldsKept
    BY DEF Kept
  <1> QED BY <1>1, Invariant, PTL

(* JoinRoom answers with a room of the caller's community, or the room's   *)
(* row was written while the join ran or was read from a replica that was  *)
(* behind: the check of doHttpAddRoom is as good as the race allows.       *)
THEOREM JoinsAreMine == Spec => []JoinedMeansMine
  <1>1. Joins => JoinedMeansMine
    BY DEF Joins, Honest, JoinedMeansMine
  <1> QED BY <1>1, Invariant, PTL

(***************************************************************************)
(* What the stamp of a room promises                                       *)
(*                                                                         *)
(* A task that will stamp a room has learned the state of the room's item  *)
(* (Learnt), nobody else has the item (Alone), and the item stays what it  *)
(* was while the task has it.                                              *)
(***************************************************************************)

Alone == \A t, u \in Tasks :
            at[t] # "idle" /\ at[u] # "idle" /\ key[t] = key[u] => t = u

(* State s of room r was learned, and by all.                              *)
Knows(r, s) == learned[r] = LearnFrom(r, learned[r], s, {})

Learnt == \A t \in Tasks :
            /\ at[t] # "idle" => queue[key[t]] # 0
            /\ at[t] \in {"fresh", "write"} =>
                  Failing(key[t]) = {} /\ Knows(key[t], StateAt[key[t]][queue[key[t]]])

Learning == Alone /\ Learnt

(* What is learned from a state is what would be learned from it again.    *)
LEMMA LearnTwice ==
    ASSUME NEW r, NEW old, NEW s
    PROVE  LearnFrom(r, LearnFrom(r, old, s, {}), s, {}) = LearnFrom(r, old, s, {})
  <1>1. \A o : LevelsIn(LevelsIn(o, s), s) = LevelsIn(o, s)
    BY DEF LevelsIn
  <1>2. \A o : CreatorsIn(r, CreatorsIn(r, o, s), s) = CreatorsIn(r, o, s)
    BY DEF CreatorsIn
  <1> QED BY <1>1, <1>2 DEF LearnFrom

(* A step of no task, or of one, that leaves what the others have.         *)
LEMMA LearningFrame ==
    ASSUME Learning,
           \A t \in Tasks : at'[t] # "idle" =>
               /\ at[t] # "idle" /\ key'[t] = key[t]
               /\ queue'[key[t]] = queue[key[t]] /\ learned'[key[t]] = learned[key[t]]
               /\ at'[t] \in {"fresh", "write"} => at[t] \in {"fresh", "write"}
    PROVE  Learning'
  <1>1. Alone'
    BY DEF Learning, Alone
  <1>2. Learnt'
    <2> SUFFICES ASSUME NEW t \in Tasks, at'[t] # "idle"
                 PROVE  /\ queue'[key'[t]] # 0
                        /\ at'[t] \in {"fresh", "write"} =>
                              /\ Failing(key[t])'  = {}
                              /\ Knows(key[t], StateAt[key[t]][queue[key[t]]])'
      BY DEF Learnt
    <2>1. /\ at[t] # "idle" /\ key'[t] = key[t]
          /\ queue'[key[t]] = queue[key[t]] /\ learned'[key[t]] = learned[key[t]]
          /\ at'[t] \in {"fresh", "write"} => at[t] \in {"fresh", "write"}
      OBVIOUS
    <2>2. /\ queue[key[t]] # 0
          /\ at[t] \in {"fresh", "write"} =>
                Failing(key[t]) = {} /\ Knows(key[t], StateAt[key[t]][queue[key[t]]])
      BY <2>1 DEF Learning, Learnt
    <2>3. Failing(key[t])' = Failing(key[t])
      BY <2>1 DEF Failing
    <2>4. Knows(key[t], StateAt[key[t]][queue[key[t]]])' <=>
              Knows(key[t], StateAt[key[t]][queue[key[t]]])
      BY <2>1 DEF Knows
    <2> QED BY <2>1, <2>2, <2>3, <2>4
  <1> QED BY <1>1, <1>2 DEF Learning

(* Requests leave the tasks where they are.                                *)
Aside == \A t \in Tasks : at'[t] = at[t] /\ key'[t] = key[t]

LEMMA RequestsAside ==
    ASSUME Typed, NEW q \in Requests, Request(q)
    PROVE  Aside
  <1>1. ASSUME NEW s, at' = [at EXCEPT ![q] = s],
               key' = key \/ \E k : key' = [key EXCEPT ![q] = k]
        PROVE  Aside
    BY <1>1 DEF Typed, WritersOK, Writers, Aside
  <1>2. ASSUME NEW o \in Ops, NEW k \in Keys, ReadRow(q, o, k) PROVE Aside
    <2>1. /\ at' = [at EXCEPT ![q] = "done"] \/ at' = [at EXCEPT ![q] = "write"]
          /\ key' = key \/ key' = [key EXCEPT ![q] = k]
      BY <1>2 DEF ReadRow, Refuse, Finish, Hold, Goto
    <2> QED BY <1>1, <2>1
  <1>3. ASSUME NEW c \in Communities, CreateCommunity(q, c) PROVE Aside
    BY <1>1, <1>3 DEF CreateCommunity, Finish, Goto
  <1>4. ASSUME NEW r \in Rooms, NEW c \in Communities, Adding(q, r, c) \/ Refuse(q) PROVE Aside
    <2>1. /\ at' = [at EXCEPT ![q] = "add"] \/ at' = [at EXCEPT ![q] = "done"]
          /\ key' = key \/ key' = [key EXCEPT ![q] = r]
      BY <1>4 DEF Adding, Refuse, Finish, Goto
    <2> QED BY <1>1, <2>1
  <1>5. ASSUME NEW r \in Rooms, NEW token \in Requests, Authenticate(q, r, token) PROVE Aside
    <2>1. \E c \in Communities : Adding(q, r, c) \/ Refuse(q)
      BY <1>5 DEF Authenticate
    <2> QED BY <1>4, <2>1
  <1>6. ASSUME WriteRow(q) \/ CheckAbsent(q) PROVE Aside
    <2>1. at' = [at EXCEPT ![q] = "done"] \/ at' = [at EXCEPT ![q] = "check"]
      BY <1>6 DEF WriteRow, CheckAbsent, Refuse, Finish, Goto
    <2>2. key' = key
      BY <1>6 DEF WriteRow, CheckAbsent, Refuse, Write
    <2> QED BY <1>1, <2>1, <2>2
  <1>7. CASE StartJoining(q)
    BY <1>1, <1>7 DEF StartJoining, Goto
  <1>8. CASE FindRoom(q)
    <2>1. /\ \/ at' = [at EXCEPT ![q] = "done"] \/ at' = [at EXCEPT ![q] = "next"]
             \/ at' = [at EXCEPT ![q] = "write"]
          /\ key' = key \/ key' = [key EXCEPT ![q] = key[q]]
      BY <1>8 DEF FindRoom, Joined, NextRoom, Finish, Hold, Goto
    <2> QED BY <1>1, <2>1
  <1>9. CASE StoreJoined(q)
    <2>1. at' = [at EXCEPT ![q] = "done"] \/ at' = [at EXCEPT ![q] = "next"]
      BY <1>9 DEF StoreJoined, Joined, NextRoom, Finish, Goto
    <2>2. key' = key
      BY <1>9 DEF StoreJoined, Write
    <2> QED BY <1>1, <2>1, <2>2
  <1>10. CASE Fail(q)
    <2>1. (at' = [at EXCEPT ![q] = "done"] \/ at' = [at EXCEPT ![q] = "next"]) /\ key' = key
      BY <1>10 DEF Fail, Finish, Goto
    <2> QED BY <1>1, <2>1
  <1> QED BY <1>2, <1>3, <1>4, <1>5, <1>6, <1>7, <1>8, <1>9, <1>10 DEF Request, FindCommunity

(* A step of one task, which the item that another has does not feel.      *)
LEMMA LearningMove ==
    ASSUME Typed, Learning, NEW t \in Tasks, NEW s, NEW k,
           at' = [at EXCEPT ![t] = s], key' = key \/ key' = [key EXCEPT ![t] = k],
           \A u \in Tasks \ {t} : at[u] # "idle" =>
               /\ s # "idle" => key'[t] # key[u]
               /\ queue'[key[u]] = queue[key[u]] /\ learned'[key[u]] = learned[key[u]],
           s # "idle" => queue'[key'[t]] # 0,
           s \in {"fresh", "write"} =>
               Failing(key[t])' = {} /\ Knows(key[t], StateAt[key[t]][queue[key[t]]])'
    PROVE  Learning'
  <1>1. /\ at'[t] = s
        /\ \A u \in Tasks \ {t} : at'[u] = at[u] /\ key'[u] = key[u]
    BY DEF Typed, WritersOK, Writers
  <1>2. Alone'
    BY <1>1 DEF Learning, Alone
  <1>3. ASSUME NEW u \in Tasks, u # t, at[u] # "idle"
        PROVE  /\ queue'[key'[u]] # 0
               /\ at'[u] \in {"fresh", "write"} =>
                     Failing(key[u])' = {} /\ Knows(key[u], StateAt[key[u]][queue[key[u]]])'
    <2>1. /\ at'[u] = at[u] /\ key'[u] = key[u]
          /\ queue'[key[u]] = queue[key[u]] /\ learned'[key[u]] = learned[key[u]]
      BY <1>1, <1>3
    <2>2. /\ queue[key[u]] # 0
          /\ at[u] \in {"fresh", "write"} =>
                Failing(key[u]) = {} /\ Knows(key[u], StateAt[key[u]][queue[key[u]]])
      BY <1>3 DEF Learning, Learnt
    <2>3. Failing(key[u])' = Failing(key[u])
      BY <2>1 DEF Failing
    <2>4. Knows(key[u], StateAt[key[u]][queue[key[u]]])' <=>
              Knows(key[u], StateAt[key[u]][queue[key[u]]])
      BY <2>1 DEF Knows
    <2> QED BY <2>1, <2>2, <2>3, <2>4
  <1>4. Learnt'
    BY <1>1, <1>3 DEF Learnt
  <1> QED BY <1>2, <1>4 DEF Learning

LEMMA LearningKept == Typed /\ Learning /\ [Next]_vars => Learning'
  <1> SUFFICES ASSUME Typed, Learning, [Next]_vars PROVE Learning'
    OBVIOUS
  <1>1. ASSUME Aside, UNCHANGED <<queue, learned>> PROVE Learning'
    BY <1>1, LearningFrame DEF Aside
  <1>2. ASSUME NEW q \in Requests, Request(q), UNCHANGED learning PROVE Learning'
    BY <1>1, <1>2, RequestsAside DEF learning
  <1>3. ASSUME NEW p \in Procs, NEW r \in Rooms, QueueLearn(p, r) PROVE Learning'
    <2>1. /\ UNCHANGED <<writers, learned>>
          /\ queue' = [queue EXCEPT ![r] = IF @ = 0 THEN events + 1 ELSE @] \/ queue' = queue
      BY <1>3 DEF QueueLearn
    <2>2. ASSUME NEW t \in Tasks, at[t] # "idle" PROVE queue'[key[t]] = queue[key[t]]
      <3>1. queue[key[t]] # 0 /\ key[t] \in Rooms
        BY <2>2 DEF Learning, Learnt, Typed, Planned, TaskPlan
      <3> QED BY <2>1, <3>1 DEF Typed, LearningOK
    <2> QED BY <2>1, <2>2, LearningFrame DEF writers
  <1>4. ASSUME NEW p \in Procs, NEW r \in Rooms, ForgetPush(p, r) PROVE Learning'
    BY <1>1, <1>4 DEF ForgetPush, writers, Aside
  <1>5. CASE Ripen \/ (Replicate /\ UNCHANGED learning)
    BY <1>1, <1>5 DEF Ripen, Replicate, learning, writers, Aside
  <1>6. ASSUME NEW t \in Tasks, NEW r \in Rooms, Pop(t, r) \/ PopLeaks(t, r) PROVE Learning'
    <2>1. /\ at[t] = "idle" /\ NextDue(r)
          /\ at' = [at EXCEPT ![t] = "learn"] \/ at' = [at EXCEPT ![t] = "leaked"]
          /\ key' = [key EXCEPT ![t] = r] /\ UNCHANGED <<queue, learned>>
      BY <1>6 DEF Pop, PopLeaks, Take, Goto
    <2>2. r \notin Taken /\ queue[r] # 0 /\ key'[t] = r
      BY <2>1 DEF NextDue, Typed, WritersOK, Writers
    <2>3. \A u \in Tasks : at[u] # "idle" => key[u] # r
      BY <2>2 DEF Taken
    <2>4. ASSUME NEW s \in {"learn", "leaked"}, at' = [at EXCEPT ![t] = s] PROVE Learning'
      <3>1. \A u \in Tasks \ {t} : at[u] # "idle" =>
               /\ s # "idle" => key'[t] # key[u]
               /\ queue'[key[u]] = queue[key[u]] /\ learned'[key[u]] = learned[key[u]]
        BY <2>1, <2>2, <2>3
      <3>2. s \notin {"fresh", "write"} /\ key' = [key EXCEPT ![t] = r]
        BY <2>1, <2>4
      <3>3. queue'[key'[t]] # 0
        BY <2>1, <2>2
      <3> QED BY <2>4, <3>1, <3>2, <3>3, LearningMove
    <2> QED BY <2>1, <2>4
  <1>7. ASSUME NEW t \in Tasks, NEW s, at[t] # "idle", at' = [at EXCEPT ![t] = s], key' = key,
               queue' = queue, \A r \in Rooms \ {key[t]} : learned'[r] = learned[r],
               s \in {"fresh", "write"} =>
                   Failing(key[t])' = {} /\ Knows(key[t], StateAt[key[t]][queue[key[t]]])'
        PROVE  Learning'
    <2>1. \A u \in Tasks \ {t} : at[u] # "idle" =>
              key[t] # key[u] /\ learned'[key[u]] = learned[key[u]]
      BY <1>7 DEF Learning, Alone, Typed, Planned, TaskPlan
    <2>2. queue[key[t]] # 0
      BY <1>7 DEF Learning, Learnt
    <2> QED BY <1>7, <2>1, <2>2, LearningMove
  <1>8. ASSUME NEW t \in Tasks, at[t] # "idle", End(t),
               \A r \in Rooms \ {key[t]} : learned'[r] = learned[r] /\ queue'[r] = queue[r]
        PROVE  Learning'
    <2>1. at' = [at EXCEPT ![t] = "idle"] /\ key' = [key EXCEPT ![t] = None]
      BY <1>8 DEF End, Goto
    <2>2. \A u \in Tasks \ {t} : at[u] # "idle" =>
              queue'[key[u]] = queue[key[u]] /\ learned'[key[u]] = learned[key[u]]
      BY <1>8 DEF Learning, Alone, Typed, Planned, TaskPlan
    <2> QED BY <2>1, <2>2, LearningMove
  <1>9. ASSUME NEW t \in Tasks, Learn(t) PROVE Learning'
    <2> DEFINE r == key[t]
               state == StateAt[r][queue[r]]
    <2>1. PICK bad \in SUBSET Learners :
             /\ at[t] = "learn" /\ queue' = queue
             /\ Failing(r) \subseteq bad
             /\ learned' = [learned EXCEPT ![r] = LearnFrom(r, @, state, bad)]
             /\ IF bad = {} THEN Goto(t, "fresh") /\ UNCHANGED <<key, copy>> ELSE End(t)
      BY <1>9 DEF Learn
    <2>2. \A x \in Rooms \ {r} : learned'[x] = learned[x]
      BY <2>1 DEF Typed, LearningOK
    <2>3. CASE bad # {}
      <3>1. End(t)
        BY <2>1, <2>3
      <3> QED BY <1>8, <2>1, <2>2, <3>1
    <2>4. CASE bad = {}
      <3>1. at' = [at EXCEPT ![t] = "fresh"] /\ key' = key
        BY <2>1, <2>4 DEF Goto
      <3>2. r \in Rooms
        BY <2>1 DEF Typed, Planned, TaskPlan
      <3>3. learned'[r] = LearnFrom(r, learned[r], state, {})
        BY <2>1, <2>4, <3>2 DEF Typed, LearningOK
      <3>4. LearnFrom(r, learned'[r], state, {}) = learned'[r]
        BY <3>3, LearnTwice
      <3>5. Knows(key[t], StateAt[key[t]][queue[key[t]]])'
        BY <2>1, <3>1, <3>4 DEF Knows
      <3>6. Failing(key[t])' = {}
        BY <2>1, <2>4, <3>1 DEF Failing
      <3> QED BY <1>7, <2>1, <2>2, <3>1, <3>5, <3>6
    <2> QED BY <2>3, <2>4
  <1>10. ASSUME NEW t \in Tasks, Refetch(t) \/ Stamp(t) PROVE Learning'
    <2>1. /\ at[t] \in {"fresh", "write"} /\ UNCHANGED <<queue, learned>>
          /\ at' = [at EXCEPT ![t] = "write"] \/ at' = [at EXCEPT ![t] = "commit"]
      BY <1>10 DEF Refetch, Stamp, Hold, Goto, learning
    <2>2. key' = key
      BY <1>10 DEF Refetch, Stamp, Hold, Write, Typed, WritersOK
    <2>3. /\ Failing(key[t])' = {}
          /\ Knows(key[t], StateAt[key[t]][queue[key[t]]])'
      BY <2>1, <2>2 DEF Learning, Learnt, Failing, Knows
    <2>4. PICK s \in {"write", "commit"} : at' = [at EXCEPT ![t] = s]
      BY <2>1
    <2> QED BY <1>7, <2>1, <2>2, <2>3, <2>4
  <1>11. ASSUME NEW t \in Tasks, Commit(t) \/ Abandon(t) PROVE Learning'
    <2>1. /\ at[t] # "idle" /\ End(t) /\ learned' = learned
          /\ queue' = [queue EXCEPT ![key[t]] = 0] \/ queue' = queue
      BY <1>11 DEF Commit, Abandon
    <2>2. \A r \in Rooms \ {key[t]} : queue'[r] = queue[r]
      BY <2>1 DEF Typed, LearningOK
    <2> QED BY <1>8, <2>1, <2>2
  <1>12. CASE UNCHANGED vars
    BY <1>1, <1>12 DEF vars, writers, learning, Aside
  <1> QED BY <1>2, <1>3, <1>4, <1>5, <1>6, <1>9, <1>10, <1>11, <1>12 DEF Next, LearnNext, Task

LEMMA LearningAtInit == Init => Learning
  BY DEF Init, TablesInit, Learning, Alone, Learnt, Writers

(* Room r keeps its stamp, loses it, or gets one that means something.     *)
Stamped(r) ==
    LET n == StampOf(db', r)
    IN  n \notin {0, StampOf(db, r)} =>
           \/ Failures[r][n] = {} /\ learned[r] = LearnFrom(r, learned[r], StateAt[r][n], {})
           \/ r \in overlapped'

(* A write of a row is a stamp for its room alone.                         *)
LEMMA StampElsewhere ==
    ASSUME NEW w \in Writers, NEW row, NEW wanted, Write(w, row, wanted),
           NEW r \in Rooms, r # key[w]
    PROVE  Stamped(r)
  <1>1. db' = Upsert(db, key[w], row)
    BY DEF Write
  <1>2. StampOf(db', r) = StampOf(db, r)
    BY <1>1 DEF Upsert, StampOf
  <1> QED BY <1>2 DEF Stamped

LEMMA StampHere ==
    ASSUME NEW w \in Writers, NEW row, NEW wanted, Write(w, row, wanted)
    PROVE  StampOf(db', key[w]) = row.stamp /\ overlapped \subseteq overlapped'
  <1>1. /\ db' = Upsert(db, key[w], row)
        /\ overlapped' = IF About(key[w]) \subseteq {w}
                         THEN overlapped ELSE overlapped \cup {key[w]}
    BY DEF Write
  <1> QED BY <1>1 DEF Upsert, StampOf

LEMMA StampStep ==
    ASSUME Typed, Kept, Learning, [Next]_vars, NEW r \in Rooms
    PROVE  Stamped(r)
  <1>1. ASSUME db' = db PROVE Stamped(r)
    BY <1>1 DEF Stamped
  <1>2. ASSUME NEW q \in Requests, WriteRow(q) PROVE Stamped(r)
    <2> DEFINE row == Changed(q, copy[q])
               wanted == Changed(q, intended[key[q]])
    <2>0. q \in Writers
      BY DEF Writers
    <2>1. /\ at[q] = "write" /\ op[q] \in CommunityOps \cup {"moderate"}
          /\ Write(q, row, wanted)
      BY <1>2 DEF WriteRow
    <2>2. CASE r # key[q]
      BY <2>0, <2>1, <2>2, StampElsewhere
    <2>3. CASE r = key[q]
      <3>1. /\ op[q] = "moderate" /\ r \in DOMAIN db /\ copy[q] \in RoomRow
        BY <2>1, <2>3 DEF Typed, Planned, RequestPlan, CommunityOps, JoinOps
      <3>2. row.stamp = copy[q].stamp
        BY <3>1 DEF Changed, Moderate, RoomRow
      <3>3. StampOf(db', r) = copy[q].stamp /\ overlapped \subseteq overlapped'
        BY <2>0, <2>1, <2>3, <3>2, StampHere
      <3>4. copy[q] = db[r] \/ r \in overlapped
        BY <2>0, <2>1, <2>3, <3>1 DEF Kept, Held, Row
      <3> QED BY <3>1, <3>3, <3>4 DEF Stamped, StampOf
    <2> QED BY <2>2, <2>3
  <1>3. ASSUME NEW q \in Requests, StoreJoined(q) PROVE Stamped(r)
    <2>0. q \in Writers
      BY DEF Writers
    <2>1. PICK wanted : Write(q, NewRoom(for[q]), wanted)
      BY <1>3 DEF StoreJoined
    <2>2. CASE r # key[q]
      BY <2>0, <2>1, <2>2, StampElsewhere
    <2>3. CASE r = key[q]
      <3>1. StampOf(db', r) = 0
        BY <2>0, <2>1, <2>3, StampHere DEF NewRoom
      <3> QED BY <3>1 DEF Stamped
    <2> QED BY <2>2, <2>3
  <1>4. ASSUME NEW t \in Tasks, Stamp(t) PROVE Stamped(r)
    <2> DEFINE row == [copy[t] EXCEPT !.stamp = queue[key[t]]]
               wanted == [intended[key[t]] EXCEPT !.stamp = queue[key[t]]]
    <2>0. t \in Writers
      BY DEF Writers
    <2>1. at[t] = "write" /\ Write(t, row, wanted)
      BY <1>4 DEF Stamp
    <2>2. CASE r # key[t]
      BY <2>0, <2>1, <2>2, StampElsewhere
    <2>3. CASE r = key[t]
      <3>1. row.stamp = queue[r]
        <4>1. copy[t] \in RoomRow
          BY <2>1 DEF Typed, Planned, TaskPlan
        <4> QED BY <2>3, <4>1 DEF RoomRow
      <3>2. StampOf(db', r) = queue[r]
        BY <2>0, <2>1, <2>3, <3>1, StampHere
      <3>3. Failures[r][queue[r]] = {} /\ learned[r] = LearnFrom(r, learned[r], StateAt[r][queue[r]], {})
        BY <2>1, <2>3 DEF Learning, Learnt, Failing, Knows
      <3> QED BY <3>2, <3>3 DEF Stamped
    <2> QED BY <2>2, <2>3
  <1>5. ASSUME NEW q \in Requests, NEW c \in Communities, CreateCommunity(q, c) PROVE Stamped(r)
    <2>1. db' = Upsert(db, c, NewCommunity) /\ r # c
      BY <1>5 DEF CreateCommunity
    <2>2. StampOf(db', r) = StampOf(db, r)
      BY <2>1 DEF Upsert, StampOf
    <2> QED BY <2>2 DEF Stamped
  <1>6. ASSUME NEW q \in Requests, Request(q) PROVE Stamped(r)
    <2>1. ASSUME NEW o \in Ops, NEW k \in Keys, ReadRow(q, o, k) PROVE db' = db
      BY <2>1 DEF ReadRow, Refuse, Hold, tables
    <2>2. ASSUME NEW x \in Rooms, NEW c \in Communities, Adding(q, x, c) \/ Refuse(q) PROVE db' = db
      BY <2>2 DEF Adding, Refuse, tables
    <2>3. ASSUME NEW x \in Rooms, NEW token \in Requests, Authenticate(q, x, token) PROVE db' = db
      <3>1. \E c \in Communities : Adding(q, x, c) \/ Refuse(q)
        BY <2>3 DEF Authenticate
      <3> QED BY <2>2, <3>1
    <2>4. ASSUME CheckAbsent(q) \/ StartJoining(q) \/ Fail(q) PROVE db' = db
      BY <2>4 DEF CheckAbsent, StartJoining, Fail, Refuse, tables
    <2>5. ASSUME FindRoom(q) PROVE db' = db
      BY <2>5 DEF FindRoom, Hold, tables
    <2> QED BY <1>1, <1>2, <1>3, <1>5, <1>6, <2>1, <2>2, <2>3, <2>4, <2>5 DEF Request, FindCommunity
  <1>7. ASSUME LearnNext PROVE Stamped(r)
    <2>1. ASSUME NEW p \in Procs, NEW x \in Rooms, QueueLearn(p, x) \/ ForgetPush(p, x) PROVE db' = db
      BY <2>1 DEF QueueLearn, ForgetPush, tables
    <2>2. ASSUME NEW t \in Tasks, NEW x \in Rooms, Pop(t, x) \/ PopLeaks(t, x) PROVE db' = db
      BY <2>2 DEF Pop, PopLeaks, Take, tables
    <2>3. ASSUME NEW t \in Tasks, Learn(t) \/ Refetch(t) \/ Commit(t) \/ Abandon(t) PROVE db' = db
      BY <2>3 DEF Learn, Refetch, Commit, Abandon, Hold, tables
    <2>4. CASE Ripen
      BY <1>1, <2>4 DEF Ripen, tables
    <2> QED BY <1>1, <1>4, <1>7, <2>1, <2>2, <2>3, <2>4 DEF LearnNext, Task
  <1> QED BY <1>1, <1>6, <1>7 DEF Next, Replicate, vars, tables

(* LearnState stamps a room after every learner has stored the state that  *)
(* the stamp stands for, and no request gives a room another stamp than it *)
(* has, unless writers of the room's row overlapped.                       *)
THEOREM StampsAreLearned == Spec => StampMeansLearned
  <1>1. Init => Learning
    BY LearningAtInit
  <1>2. Typed /\ Learning /\ [Next]_vars => Learning'
    BY LearningKept
  <1>3. Typed /\ Kept /\ Learning /\ [Next]_vars => [\A r \in Rooms : Stamped(r)]_vars
    BY StampStep
  <1>4. (\A r \in Rooms : Stamped(r)) <=>
           \A r \in Rooms :
              LET n == StampOf(db', r)
              IN  n \notin {0, StampOf(db, r)} =>
                     \/ Failures[r][n] = {} /\ learned[r] = LearnFrom(r, learned[r], StateAt[r][n], {})
                     \/ r \in overlapped'
    BY DEF Stamped
  <1> QED BY <1>1, <1>2, <1>3, <1>4, Invariant, PTL DEF Spec, StampMeansLearned
=============================================================================
