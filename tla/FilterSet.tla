------------------------------- MODULE FilterSet -------------------------------
(***************************************************************************)
(* One call of Set.CheckEvent (filter/set.go): the groups of a community's *)
(* filter set in order, the filters of a group concurrently                *)
(* (filter/set_group.go), and how ContentInfo values are merged            *)
(* (harms/types.go).  The groups and what a filter may reply come from     *)
(* Filters.  Set.CheckText runs the same loop over the filters that check  *)
(* text; one that does not is skipped, which counts as a Neutral reply.    *)
(***************************************************************************)
EXTENDS Filters

CONSTANTS
    Communities, \* the configurations
    Inputs       \* the events and texts that are checked

(* The harms a template names and a stored classification are of Harms,    *)
(* and what is classified as prohibited names some.                        *)
ASSUME FilterAssumption ==
    /\ \A c \in Communities, x \in Inputs : \A t \in c.templates :
          \A w \in x.words \cup x.envelope : t.harms[w] \subseteq Harms
    /\ \A x \in Inputs : ~IsText(x) => \A i \in x.media \ {None} :
          World.classified[i] \in {None, Neutral} \cup {Prohibited(h) : h \in (SUBSET Harms) \ {{}}}

Blank == 0
Classes == {"Neutral", "Allowed", "Prohibited"}
Rank(c) == CASE c = "Neutral" -> 0 [] c = "Allowed" -> 1 [] c = "Prohibited" -> 2
Severest(C) == CHOOSE c \in C : \A d \in C : Rank(d) <= Rank(c)

(* A filter returns a ContentInfo or an error; nil without an error is     *)
(* turned into an error.                                                   *)
Reply ==
    {[class |-> c, harms |-> h] : c \in Classes, h \in SUBSET Harms}
      \cup {Failure, Panic}

VARIABLES
    community,   \* the configuration of the set
    input,       \* what is checked
    stage,       \* next (between groups), running, done, failed, crashed
    group,       \* index of the group that is next or running
    waiting,     \* filters of the running group that have not replied
    rets,        \* replies of the running group, in the order they came
    class,       \* contentClass, the severest class so far
    harmIds,     \* the slice of harms so far
    verdict,     \* what the call returns
    replied      \* history: the reply of every filter that ran

vars == <<community, input, stage, group, waiting, rets, class, harmIds, verdict, replied>>
given == <<community, input>>

(* Mutants: the middle filters run for every class, or for allowed events; *)
(* the postfilter runs for events that are not prohibited.                 *)
CheckedAlways(g) ==
    CASE g \in {1, 3} -> Classes [] g = 2 -> {"Neutral"} [] g = 4 -> {"Prohibited"}
CheckedAllowed(g) ==
    CASE g = 1 -> Classes [] g \in {2, 3} -> {"Neutral", "Allowed"} [] g = 4 -> {"Prohibited"}
CheckedWrongWay(g) ==
    CASE g = 1 -> Classes [] g \in {2, 3} -> {"Neutral"} [] g = 4 -> {"Neutral", "Allowed"}

(* Which classes each group is run for.                                    *)
Checked(g) ==
    CASE g = 1 -> Classes           \* prefilters
      [] g = 2 -> {"Neutral"}       \* hellban prefilter
      [] g = 3 -> {"Neutral"}       \* filters
      [] g = 4 -> {"Prohibited"}    \* hellban postfilter

(* The elements of a set of harms in ascending order.                      *)
Sorted(S) == CHOOSE s \in [1 .. Cardinality(S) -> S] : \A i, j \in DOMAIN s : i < j => s[i] < s[j]

(* deduplicateHarms sorts the slice it is given in place and moves its     *)
(* distinct elements to the front; slices.Compact blanks the rest.         *)
Distinct(s) == Sorted(ToSet(s))
InPlace(s) ==
    [i \in 1 .. Len(s) |-> IF i <= Len(Distinct(s)) THEN Distinct(s)[i] ELSE Blank]

NewContentInfo(c, s) ==
    LET named == IF s = <<>> /\ c = "Prohibited" THEN <<OtherGeneral>> ELSE s
    IN  [class |-> IF named # <<>> THEN "Prohibited" ELSE c,
         harms |-> ToSet(named)]

NoVerdict == [class |-> "none", harms |-> {}]

Init ==
    /\ community \in Communities
    /\ input \in Inputs
    /\ stage = "next"
    /\ group = 1
    /\ waiting = {}
    /\ rets = <<>>
    /\ class = "Neutral"
    /\ harmIds = <<>>
    /\ verdict = NoVerdict
    /\ replied = [f \in {} |-> Failure]

UserSender == ~IsText(input) => input.sender \in DOMAIN Users

(* The sender is not a user: no filter is asked.                           *)
RejectSender ==
    /\ stage = "next" /\ group = 1
    /\ ~UserSender
    /\ verdict' = NewContentInfo("Prohibited", <<SpamGeneral, NonCompliance>>)
    /\ stage' = "done"
    /\ UNCHANGED <<given, group, waiting, rets, class, harmIds, replied>>

(* The media URLs of the content cannot be unmarshalled.                   *)
Malformed ==
    /\ stage = "next" /\ group = 1
    /\ UserSender /\ ~IsText(input) /\ ~input.mediaDecodes
    /\ stage' = "failed"
    /\ UNCHANGED <<given, group, waiting, rets, class, harmIds, verdict, replied>>

(* The call of checkEvent hands harmIds itself to NewContentInfo.  A group *)
(* that is not run for the class so far answers Neutral without harms.     *)
EnterGroup ==
    /\ stage = "next" /\ group <= 4
    /\ UserSender /\ (~IsText(input) => input.mediaDecodes)
    /\ harmIds' = InPlace(harmIds)
    /\ IF NewContentInfo(class, harmIds).class \in Checked(group)
       THEN /\ waiting' = Groups(community)[group]
            /\ stage' = "running"
            /\ UNCHANGED group
       ELSE /\ group' = group + 1
            /\ UNCHANGED <<waiting, stage>>
    /\ UNCHANGED <<given, rets, class, verdict, replied>>

(* A filter's goroutine sends its reply on the channel.                    *)
FilterReplies(f) ==
    /\ stage = "running" /\ f \in waiting
    /\ waiting' = waiting \ {f}
    /\ \E r \in Replies(f, community, input) :
        /\ stage' = IF r = Panic THEN "crashed" ELSE stage
        /\ rets' = Append(rets, r)
        /\ replied' = [g \in DOMAIN replied \cup {f} |->
                          IF g = f THEN r ELSE replied[g]]
    /\ UNCHANGED <<given, group, class, harmIds, verdict>>

(* The harms of the replies, one after the other.                          *)
Collected == FlattenSeq([i \in DOMAIN rets |-> Sorted(rets[i].harms)])

(* Mutant: the replies that are errors are dropped.                        *)
MergeDroppingErrors ==
    LET classes == {r.class : r \in ToSet(rets)} \ {"error"}
        info == NewContentInfo(Severest({"Neutral"} \cup classes), Collected)
    IN
    /\ stage = "running"
    /\ waiting = {}
    /\ rets' = <<>>
    /\ stage' = "next"
    /\ group' = group + 1
    /\ class' = Severest({class, info.class})
    /\ harmIds' = harmIds \o Sorted(info.harms)
    /\ UNCHANGED <<given, waiting, verdict, replied>>

(* runFilters has every reply: an error of any filter is the group's and   *)
(* the call's error, otherwise the group's result joins what there is.     *)
Merge ==
    LET classes == {r.class : r \in ToSet(rets)}
        info == NewContentInfo(Severest({"Neutral"} \cup classes), Collected)
    IN
    /\ stage = "running"
    /\ waiting = {}
    /\ rets' = <<>>
    /\ IF "error" \in classes
       THEN /\ stage' = "failed"
            /\ UNCHANGED <<group, class, harmIds>>
       ELSE /\ stage' = "next"
            /\ group' = group + 1
            /\ class' = Severest({class, info.class})
            /\ harmIds' = harmIds \o Sorted(info.harms)
    /\ UNCHANGED <<given, waiting, verdict, replied>>

Finish ==
    /\ stage = "next" /\ group = 5
    /\ verdict' = NewContentInfo(class, harmIds)
    /\ stage' = "done"
    /\ UNCHANGED <<given, group, waiting, rets, class, harmIds, replied>>

Next ==
    \/ RejectSender \/ Malformed \/ EnterGroup \/ Merge \/ Finish
    \/ \E f \in waiting : FilterReplies(f)

Spec == Init /\ [][Next]_vars

(***************************************************************************)
(* Properties                                                              *)
(***************************************************************************)

(* Types; in particular the slice of harms never holds a blank, although   *)
(* NewContentInfo sorts and compacts it under CheckEvent's feet: with the  *)
(* groups as they are laid out, no harm is repeated before the last group. *)
TypeOK ==
    /\ community \in Communities /\ input \in Inputs
    /\ stage \in {"next", "running", "done", "failed", "crashed"}
    /\ group \in 1 .. 5
    /\ waiting \subseteq (IF group <= 4 THEN Groups(community)[group] ELSE {})
    /\ rets \in Seq(Reply)
    /\ class \in Classes
    /\ harmIds \in Seq(Harms)
    /\ verdict \in Reply \cup {NoVerdict}
    /\ \A f \in DOMAIN replied : replied[f] \in Reply

Ran == DOMAIN replied
Said(c) == {f \in Ran : replied[f].class = c}
GroupOf(f) == CHOOSE g \in 1 .. 4 : f \in Groups(community)[g]

(* The verdict is the severest of everything the filters said, with all    *)
(* the harms they named and no other, in whatever order they replied       *)
(* ("most severe outcome of all filters combined", set_group.go:28), and   *)
(* an error of any filter that was asked fails the call: it never turns    *)
(* into a verdict in which that filter has no say.                         *)
VerdictIsMostSevere ==
    /\ stage \in {"next", "done"} => Said("error") \cup Said("panic") = {}
    /\ (stage = "done" /\ UserSender) =>
        /\ verdict.class = Severest({"Neutral"} \cup {replied[f].class : f \in Ran})
        /\ verdict.harms = UNION {replied[f].harms : f \in Ran}

(* The hellban prefilter and the middle filters are asked only while every *)
(* filter before them is neutral: what a prefilter allows is exempt from   *)
(* the timeout (README.md:167), and a user in a timeout does not count     *)
(* towards a rate limit (README.md:184).                                   *)
ExemptFromFilters ==
    \A f \in Ran : GroupOf(f) \in {2, 3} =>
        \A e \in Ran : GroupOf(e) < GroupOf(f) => replied[e].class = "Neutral"

(* A timeout is started for every event that is found to be spam, and only *)
(* for such an event.                                                      *)
SpamIsSilenced ==
    /\ \A f \in Ran : GroupOf(f) = 4 =>
          \E e \in Said("Prohibited") : GroupOf(e) < 4
    /\ (stage = "done" /\ UserSender /\ verdict.class = "Prohibited") =>
          Groups(community)[4] \subseteq Ran

(* Media needs somebody's trust: where the power levels are not consulted, *)
(* a sender no source vouches for never gets listed media through, whatever*)
(* tables cannot be read; where they are, an unreadable row lets everybody *)
(* through who is not denied by the community, and only those              *)
(* (filter_untrusted_media.go: "deny wins").                               *)
Vouched(user) ==
    \/ \E g \in community.allowedUsers : user \in g
    \/ community.muninn /\ Users[user].server \in World.muninn
MediaNeedsTrust ==
    \A f \in Ran \cap {"untrusted"} :
        (/\ ~IsText(input) /\ replied[f].class = "Neutral"
         /\ \/ input.type \in community.untrustedTypes
            \/ input.type = Message /\ input.msgtype \in community.untrustedTypes) =>
            /\ ~\E g \in community.deniedUsers : input.sender \in g
            /\ Vouched(input.sender) \/ community.powerLevels
=============================================================================
