------------------------------ MODULE CommunityApi ------------------------------
(***************************************************************************)
(* The requests that write rooms and communities: the handlers of          *)
(* api/http_api_communities.go, http_api_rooms.go, http_api_moderator.go   *)
(* and http_server_api_rooms.go, and JoinRoom and JoinRooms of             *)
(* homeserver/outbound_join.go.  A request is read from its first database *)
(* call on; whoever must not call has been refused, and what is malformed  *)
(* has been rejected, before.                                              *)
(***************************************************************************)
EXTENDS Tables, Sequences

CONSTANTS
    Duties,        \* [Requests -> SUBSET Ops], what each request may be
    StartRooms,    \* the rooms of PS_JOIN_ROOM_IDS, in order
    MaxJoinErrors  \* errors JoinRooms puts up with for a room (5 in the code)

CommunityOps == {"rotate", "configure", "permit"}
JoinOps == {"join", "selfjoin"}
Ops == CommunityOps \cup JoinOps \cup {"show", "moderate", "create", "startup"}

ASSUME ApiAssumption ==
    /\ Duties \in [Requests -> SUBSET Ops]
    /\ StartRooms \in Seq(Rooms)
    /\ MaxJoinErrors \in Nat

VARIABLES
    op,      \* what each request is
    for,     \* the community a room is joined for
    answer,  \* the first answer of each request: none, ok, error
    given,   \* the community of the room a join was answered with
    nth,     \* the position in StartRooms of the room JoinRooms is at
    errors   \* the errors it has had with that room

api == <<op, for, answer, given, nth, errors>>

ApiInit ==
    /\ op = [q \in Requests |-> "show"]
    /\ for = [q \in Requests |-> None]
    /\ answer = [q \in Requests |-> "none"]
    /\ given = [q \in Requests |-> None]
    /\ nth = [q \in Requests |-> 1]
    /\ errors = [q \in Requests |-> 0]

Start(q, o) ==
    /\ at[q] = "idle" /\ MoreWork
    /\ o \in Duties[q]
    /\ op' = [op EXCEPT ![q] = o]

(* The first answer is the one the client gets.                            *)
Answer(q, a) == answer' = [answer EXCEPT ![q] = IF @ = "none" THEN a ELSE @]
Finish(q, a) == Goto(q, "done") /\ Answer(q, a)
Refuse(q) == Finish(q, "error") /\ UNCHANGED <<tables, key, copy>>

(***************************************************************************)
(* Rows that are shown, or read to be changed                              *)
(***************************************************************************)

(* GetRoom, GetCommunity: a row that is absent is Not Found, one that is   *)
(* only to be shown is the answer.                                         *)
ReadRow(q, o, k) ==
    /\ Start(q, o)
    /\ o \in CommunityOps => k \in Communities
    /\ o = "moderate" => k \in Rooms
    /\ o \in CommunityOps \cup {"moderate", "show"}
    /\ IF k \notin DOMAIN Source THEN Refuse(q)
       ELSE IF o = "show" THEN Finish(q, "ok") /\ UNCHANGED <<tables, key, copy>>
       ELSE Hold(q, k) /\ UNCHANGED answer
    /\ UNCHANGED <<for, given, nth, errors>>

(* What each request changes in a row.  A patch keeps the community's id   *)
(* and token; what else it may change is the configuration, as the         *)
(* endpoint for it does, and the permission, which this one grants.        *)
Rotate(q, row) == [row EXCEPT !.token = q]
Configure(q, row) == [row EXCEPT !.config = q]
Permit(row) == [row EXCEPT !.selfJoin = TRUE]
Moderate(q, row) == [row EXCEPT !.moderator = q]

Changed(q, row) ==
    CASE op[q] = "rotate" -> Rotate(q, row)
      [] op[q] = "configure" -> Configure(q, row)
      [] op[q] = "permit" -> Permit(row)
      [] op[q] = "moderate" -> Moderate(q, row)

(* Mutant: a new configuration comes with a row of its own.                *)
WriteRowAfresh(q) ==
    /\ at[q] = "write"
    /\ op[q] \in CommunityOps \cup {"moderate"}
    /\ LET row == IF op[q] = "configure" THEN NewCommunity ELSE copy[q]
       IN  Write(q, Changed(q, row), Changed(q, intended[key[q]]))
    /\ Finish(q, "ok")
    /\ UNCHANGED <<op, for, given, nth, errors>>

WriteRow(q) ==
    /\ at[q] = "write"
    /\ op[q] \in CommunityOps \cup {"moderate"}
    /\ Write(q, Changed(q, copy[q]), Changed(q, intended[key[q]]))
    /\ Finish(q, "ok")
    /\ UNCHANGED <<op, for, given, nth, errors>>

(* CreateCommunity, under an id that is new.                               *)
CreateCommunity(q, c) ==
    /\ Start(q, "create")
    /\ c \in Communities \ DOMAIN db
    /\ db' = Upsert(db, c, NewCommunity)
    /\ intended' = Upsert(intended, c, NewCommunity)
    /\ Finish(q, "ok")
    /\ UNCHANGED <<replica, overlapped, key, copy, for, given, nth, errors>>

(***************************************************************************)
(* Rooms that are joined                                                   *)
(***************************************************************************)

Adding(q, r, c) ==
    /\ Goto(q, "add")
    /\ key' = [key EXCEPT ![q] = r]
    /\ for' = [for EXCEPT ![q] = c]
    /\ UNCHANGED <<tables, copy, answer>>

(* httpAddRoomApi: the community must exist.                               *)
FindCommunity(q, r, c) ==
    /\ Start(q, "join")
    /\ IF c \in DOMAIN Source THEN Adding(q, r, c) ELSE Refuse(q) /\ UNCHANGED for
    /\ UNCHANGED <<given, nth, errors>>

(* httpCommunityAuthenticatedRequestHandler and httpJoinRoomCommunityApi:  *)
(* the community is the one that has the token, and must be permitted.     *)
Authenticate(q, r, token) ==
    LET owners == {c \in Communities \cap DOMAIN Source : Source[c].token = token}
    IN
    /\ Start(q, "selfjoin")
    /\ \/ owners = {} /\ Refuse(q) /\ UNCHANGED for
       \/ \E c \in owners : IF Source[c].selfJoin THEN Adding(q, r, c)
                                                  ELSE Refuse(q) /\ UNCHANGED for
    /\ UNCHANGED <<given, nth, errors>>

(* Mutant: the handler leaves the check to JoinRoom.                       *)
CheckNothing(q) ==
    /\ at[q] = "add"
    /\ Goto(q, "check") /\ Seen(key[q]) /\ UNCHANGED <<db, replica, intended, answer>>
    /\ UNCHANGED <<key, copy, op, for, given, nth, errors>>

(* doHttpAddRoom: a room that exists is refused.  When GetRoom fails the   *)
(* handler answers with the error and goes on: there is no return.         *)
CheckAbsent(q) ==
    /\ at[q] = "add"
    /\ \/ /\ key[q] \in DOMAIN Source
          /\ Refuse(q)
       \/ /\ key[q] \notin DOMAIN Source
          /\ Goto(q, "check") /\ Seen(key[q])
          /\ UNCHANGED <<db, replica, intended, key, copy, answer>>
       \/ /\ Goto(q, "check") /\ Answer(q, "error")
          /\ UNCHANGED <<tables, key, copy>>
    /\ UNCHANGED <<op, for, given, nth, errors>>

(* JoinRooms for the next room of the configuration, or for the first.     *)
NextRoom(q) ==
    IF nth'[q] \in DOMAIN StartRooms
    THEN Goto(q, "next") /\ UNCHANGED answer
    ELSE Finish(q, "ok")

Joined(q, c) ==
    /\ given' = [given EXCEPT ![q] = c]
    /\ IF op[q] = "startup"
       THEN /\ nth' = [nth EXCEPT ![q] = @ + 1]
            /\ errors' = [errors EXCEPT ![q] = 0]
            /\ NextRoom(q)
       ELSE Finish(q, "ok") /\ UNCHANGED <<nth, errors>>
    /\ UNCHANGED <<op, for>>

StartJoining(q) ==
    /\ \/ Start(q, "startup")
       \/ at[q] = "next" /\ UNCHANGED op
    /\ nth[q] \in DOMAIN StartRooms
    /\ Goto(q, "check")
    /\ key' = [key EXCEPT ![q] = StartRooms[nth[q]]]
    /\ for' = [for EXCEPT ![q] = Default]
    /\ UNCHANGED <<tables, copy, answer, given, nth, errors>>

(* JoinRoom looks for the room: one that is there is the result, whoever   *)
(* it was joined for.                                                      *)
FindRoom(q) ==
    LET r == key[q] IN
    /\ at[q] = "check"
    /\ IF r \in DOMAIN Source
       THEN /\ Joined(q, Source[r].community)
            /\ UNCHANGED <<tables, key, copy>>
       ELSE /\ Hold(q, r)
            /\ UNCHANGED api

(* JoinRoom after PerformJoin: a new row, whatever there is by now.        *)
StoreJoined(q) ==
    LET r == key[q]
        new == NewRoom(for[q])
    IN
    /\ at[q] = "write"
    /\ op[q] \in JoinOps \cup {"startup"}
    /\ Write(q, new, IF r \in DOMAIN intended THEN intended[r] ELSE new)
    /\ Joined(q, for[q])

(* Mutant: JoinRooms has no limit.                                         *)
FailForever(q) ==
    /\ at[q] \in {"add", "check", "write", "next"}
    /\ IF op[q] = "startup" /\ at[q] # "next"
       THEN /\ Goto(q, "next")
            /\ errors' = [errors EXCEPT ![q] = @ + 1]
            /\ UNCHANGED answer
       ELSE Finish(q, "error") /\ UNCHANGED errors
    /\ Drop(q)
    /\ UNCHANGED <<tables, key, op, for, given, nth>>

(* A database call or the join fails, or the process dies: the request     *)
(* ends, except that JoinRooms tries the room again a number of times.     *)
Fail(q) ==
    /\ at[q] \in {"add", "check", "write", "next"}
    /\ IF op[q] = "startup" /\ at[q] # "next" /\ errors[q] <= MaxJoinErrors
       THEN /\ Goto(q, "next")
            /\ errors' = [errors EXCEPT ![q] = @ + 1]
            /\ UNCHANGED answer
       ELSE Finish(q, "error") /\ UNCHANGED errors
    /\ Drop(q)
    /\ UNCHANGED <<tables, key, op, for, given, nth>>

Request(q) ==
    \/ \E o \in Ops, k \in Keys : ReadRow(q, o, k)
    \/ \E c \in Communities : CreateCommunity(q, c)
    \/ \E r \in Rooms, c \in Communities : FindCommunity(q, r, c)
    \/ \E r \in Rooms, token \in Requests : Authenticate(q, r, token)
    \/ WriteRow(q) \/ CheckAbsent(q) \/ StartJoining(q) \/ FindRoom(q)
    \/ StoreJoined(q) \/ Fail(q)
=============================================================================
