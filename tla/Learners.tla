-------------------------------- MODULE Learners --------------------------------
(***************************************************************************)
(* What is learned from the state of a room: the four learners that        *)
(* NewRoomStateLearner (homeserver/learning/learning.go) makes, what each  *)
(* makes of the state events, and when it refuses.                         *)
(*                                                                         *)
(* A state event is a record of its type, its state key, its sender and    *)
(* its content; Garbled is content that does not decode.  A room has one   *)
(* event for each type and state key.                                      *)
(***************************************************************************)
EXTENDS Naturals

CONSTANTS
    Rooms,
    None,       \* no value, no row
    Garbled,
    Blank,      \* a display name of spaces, an empty entity
    Privileged  \* the rooms whose version gives rights to creators (v12 on)

ASSUME LearnerAssumption == Privileged \subseteq Rooms

Learners == {"members", "rules", "levels", "creators"}

(* RoomMembersLearner.CanLearn: a user's own join.                         *)
OwnMembership(e) == e.type = "m.room.member" /\ e.stateKey = e.sender
CanLearnMember(e) == OwnMembership(e) /\ e.content.membership = "join"

MembersIn(state) ==
    {<<e.sender, e.content.name>> :
        e \in {x \in state : CanLearnMember(x) /\ x.content.name # Blank}}

(* PolicyRulesLearner.CanLearn: a ban of users or rooms.                   *)
PolicyRule(e) == e.type \in {"m.policy.rule.user", "m.policy.rule.room"} /\ e.stateKey # None
CanLearnRule(e) ==
    PolicyRule(e) /\ e.content.recommendation = "m.ban" /\ e.content.entity # Blank

(* The entities that are banned.  The type of the rule is kept as well but *)
(* makes no difference: rules for servers, which are matched with the      *)
(* user's server, are not learned.                                         *)
RulesIn(state) == {e.content.entity : e \in {x \in state : CanLearnRule(x)}}

(* PowerLevelsSource.CanLearn.                                             *)
CanLearnLevels(e) == e.type = "m.room.power_levels" /\ e.stateKey = ""

(* CreatorSource.CanLearn.                                                 *)
CanLearnCreate(r, e) == r \in Privileged /\ e.type = "m.room.create" /\ e.stateKey = ""

(* The events a learner has to decode.                                     *)
Decodes(l, r, e) ==
    CASE l = "members" -> OwnMembership(e)
      [] l = "rules" -> PolicyRule(e)
      [] l = "levels" -> CanLearnLevels(e)
      [] l = "creators" -> CanLearnCreate(r, e)

(* One that does not decode fails the learner, which then stores nothing.  *)
Fails(l, r, state) == \E e \in state : Decodes(l, r, e) /\ e.content = Garbled

(* LearnFrom of the sources of trust: what was known stays when the state  *)
(* has no such event.                                                      *)
LevelsIn(old, state) ==
    IF \E e \in state : CanLearnLevels(e)
    THEN (CHOOSE e \in state : CanLearnLevels(e)).content
    ELSE old

CreatorsIn(r, old, state) ==
    IF \E e \in state : CanLearnCreate(r, e)
    THEN LET create == CHOOSE e \in state : CanLearnCreate(r, e)
         IN  {create.sender} \cup create.content.additional
    ELSE old

Nothing == [members |-> {}, rules |-> {}, levels |-> None, creators |-> {}]

(* RoomStateLearner.LearnFrom: a learner that fails does not stop the      *)
(* next.  What each learner stores is in a transaction, or a row, of its   *)
(* own.                                                                    *)
LearnFrom(r, old, state, bad) ==
    [members  |-> IF "members" \in bad THEN old.members ELSE MembersIn(state),
     rules    |-> IF "rules" \in bad THEN old.rules ELSE RulesIn(state),
     levels   |-> IF "levels" \in bad THEN old.levels ELSE LevelsIn(old.levels, state),
     creators |-> IF "creators" \in bad THEN old.creators
                                        ELSE CreatorsIn(r, old.creators, state)]
=============================================================================
