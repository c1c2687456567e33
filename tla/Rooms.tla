--------------------------------- MODULE Rooms ---------------------------------
(***************************************************************************)
(* The requests of CommunityApi and the tasks of StateLearning over the    *)
(* same tables: what whole-row upserts keep of each other's work, whom a   *)
(* joined room belongs to, what the stamp of a room promises, and how the  *)
(* learn queue moves.                                                      *)
(***************************************************************************)
EXTENDS CommunityApi, StateLearning

vars == <<tables, writers, api, learning>>

Init == TablesInit /\ ApiInit /\ LearnInit

Next ==
    \/ \E q \in Requests : Request(q) /\ UNCHANGED learning
    \/ LearnNext /\ UNCHANGED api
    \/ Replicate /\ UNCHANGED <<api, learning>>

Spec == Init /\ [][Next]_vars

(* The scheduler of every process runs the task again and again (each hour *)
(* by default), a run goes on to the next item until none is due or two    *)
(* minutes are over, and time passes.                                      *)
Fairness ==
    /\ WF_vars(Ripen /\ UNCHANGED api)
    /\ \A t \in Tasks : WF_vars(Task(t) /\ UNCHANGED api)

FairSpec == Spec /\ Fairness

(***************************************************************************)
(* Properties                                                              *)
(***************************************************************************)

Table(table) ==
    /\ DOMAIN table \subseteq Keys
    /\ Default \in DOMAIN table
    /\ \A k \in DOMAIN table : table[k] \in IF k \in Rooms THEN RoomRow ELSE CommunityRow

Places == {"idle", "add", "check", "next", "write", "done"}
Stages == {"idle", "learn", "leaked", "fresh", "write", "commit"}

(* The type invariant.                                                     *)
TypeOK ==
    /\ Table(db) /\ Table(replica) /\ Table(intended)
    /\ overlapped \subseteq Keys
    /\ at \in [Writers -> Places \cup Stages]
    /\ \A q \in Requests : at[q] \in Places
    /\ \A t \in Tasks : at[t] \in Stages
    /\ key \in [Writers -> Keys \cup {None}]
    /\ copy \in [Writers -> RoomRow \cup CommunityRow \cup {NoRow}]
    /\ op \in [Requests -> Ops]
    /\ for \in [Requests -> Communities \cup {None}]
    /\ answer \in [Requests -> {"none", "ok", "error"}]
    /\ given \in [Requests -> Communities \cup {None}]
    /\ nth \in [Requests -> 1 .. Len(StartRooms) + 1]
    /\ errors \in [Requests -> 0 .. MaxJoinErrors + 1]
    /\ events \in 0 .. MaxEvents /\ ripe \in 0 .. events
    /\ queue \in [Rooms -> 0 .. events]
    /\ pushCache \in [Procs -> SUBSET Rooms]
    /\ DOMAIN learned = Rooms /\ \A r \in Rooms : DOMAIN learned[r] = Learners
    /\ faults \in 0 .. MaxFaults

(* A row that is not what its writers meant it to be, each changing its    *)
(* own fields, has had writers that overlapped, or one that read it from a *)
(* replica that was behind.  A token rotated, a moderator set or a room    *)
(* learned is never lost otherwise.  psql.go:218, psql.go:514              *)
FieldsKept == \A k \in DOMAIN db : db[k] = intended[k] \/ k \in overlapped

(* A client told that the room was joined for it has the room in its       *)
(* community, unless the room's row was written while the request ran.     *)
(* docs/server_centric_api.md:43, http_api_rooms.go:109                    *)
JoinedMeansMine ==
    \A q \in Requests :
        op[q] \in JoinOps /\ answer[q] = "ok" => given[q] = for[q] \/ key[q] \in overlapped

StampOf(table, r) == IF r \in DOMAIN table THEN table[r].stamp ELSE 0

(* A room gets a new stamp when every learner has stored the state the     *)
(* stamp is of, and so no filter works from the members of one event and   *)
(* the power levels of another while the room counts as learned.           *)
(* learn_state.go:55-74                                                    *)
StampMeansLearned ==
    [][\A r \in Rooms :
          LET n == StampOf(db', r)
          IN  n \notin {0, StampOf(db, r)} =>
                 \/ Failures[r][n] = {} /\ learned[r] = LearnFrom(r, learned[r], StateAt[r][n], {})
                 \/ r \in overlapped']_vars

Leaked(r) == \E t \in Tasks : at[t] = "leaked" /\ key[t] = r
Behind(r) == \E x \in Rooms : queue[x] \in 1 .. queue[r] /\ Failing(x) # {}

(* A queued room is learned, however many items there are, unless its item *)
(* or one ahead of it fails each time, or a transaction that was left open *)
(* holds it.  tasks/state_cache.go:41, psql.go:539                         *)
QueueMoves ==
    \A r \in Rooms : queue[r] # 0 ~> queue[r] = 0 \/ Behind(r) \/ Leaked(r)
=============================================================================
