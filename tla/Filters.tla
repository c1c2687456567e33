-------------------------------- MODULE Filters --------------------------------
(***************************************************************************)
(* What each filter of a community's filter set may reply to an input      *)
(* (filter/filter_*.go, trust/, content/hma.go).                           *)
(*                                                                         *)
(* c is the community's configuration, x the input: an event, or a text    *)
(* that is checked by itself.  Both are records of what the filters look   *)
(* at: sizes instead of strings, the set of keywords a content contains    *)
(* instead of the content.  A glob is the set of what it matches.  A reply *)
(* is chosen from a set where it depends on a table that cannot be read,   *)
(* on a service, or on a cache that other modules describe.                *)
(*                                                                         *)
(* Harms are numbers in the order slices.Sort puts their names.            *)
(***************************************************************************)
EXTENDS Naturals, Sequences, FiniteSets, SequencesExt

CONSTANTS
    Users,       \* [user -> [server, length, words]]: what a user ID looks like
    Local,       \* the user of this policy server
    World,       \* what was learned of the rooms: members, names, bans, trust
    None         \* no state key, no stored value

ChildSafety == 1
OtherGeneral == 2
SpamGeneral == 3
SpamFlooding == 4
PolicyservMedia == 5
NonCompliance == 6
Harms == 1 .. 6

Failure == [class |-> "error", harms |-> {}]
Panic == [class |-> "panic", harms |-> {}]
Neutral == [class |-> "Neutral", harms |-> {}]
Allowed == [class |-> "Allowed", harms |-> {}]
Prohibited(h) == [class |-> "Prohibited", harms |-> h]
ProhibitedIf(p, h) == {IF p THEN Prohibited(h) ELSE Neutral}

Message == "m.room.message"

(* Filters that look at the content of messages and cannot do without it;  *)
(* a text is all content.                                                  *)
IsText(x) == x.kind = "text"
OnMessage(x, replies) ==
    IF IsText(x) \/ (x.type = Message /\ x.decodes) THEN replies
    ELSE IF x.type = Message THEN {Failure} ELSE {Neutral}

(***************************************************************************)
(* Prefilters                                                              *)
(***************************************************************************)
ProtectLocalUser(x) ==
    ProhibitedIf(x.type = "m.room.member" /\ x.stateKey = Local /\ x.sender # Local,
                 {OtherGeneral})

EventType(c, x) ==
    {IF x.type \in (IF x.stateKey = None THEN c.eventTypes ELSE c.stateEventTypes)
     THEN Allowed ELSE Neutral}

Sender(c, x) == {IF x.sender \in c.senders THEN Allowed ELSE Neutral}

(* The signatures are a map, looked at in any order: one made with the     *)
(* known key is found first, or one that is not base64.                    *)
UnsafeSigningKey(x) ==
    LET found == {IF s = "unsafe" THEN Prohibited({OtherGeneral}) ELSE Failure :
                    s \in x.signatures \ {"safe"}}
    IN  IF found = {} THEN {Neutral} ELSE found

(***************************************************************************)
(* Filters of text                                                         *)
(***************************************************************************)
Keyword(c, x) ==
    ProhibitedIf(c.keywords \cap (x.words \cup IF c.useFullEvent THEN x.envelope ELSE {}) # {},
                 {SpamGeneral})

(* A template names harms of the words it finds; one that fails fails all. *)
IdentifyHarms(t, words) == UNION {t.harms[w] : w \in words}
KeywordTemplate(c, x) ==
    LET words == IF c.useFullEvent THEN x.words \cup x.envelope ELSE x.words
        named == UNION {IdentifyHarms(t, words) : t \in c.templates}
        replies ==
            IF \E t \in c.templates : t.fails \cap words # {}
            THEN {Failure} ELSE ProhibitedIf(named # {}, named)
    IN  IF c.useFullEvent /\ ~IsText(x) /\ x.type = Message
        THEN replies ELSE OnMessage(x, replies)

(* The share of bytes that are not blank, in percent; 0/0 reaches no limit.*)
Density(c, x) ==
    OnMessage(x, ProhibitedIf(
        /\ x.body >= c.minTriggerLength /\ x.body > 0
        /\ 100 * (x.body - x.blanks) >= c.maxDensity * x.body, {SpamFlooding}))

Length(c, x) ==
    ProhibitedIf((IsText(x) \/ x.type = Message) /\ x.size > c.maxLength, {SpamFlooding})

TrimLength(c, x) ==
    OnMessage(x, ProhibitedIf(x.ends >= c.maxDifference, {SpamFlooding}))

ManyAts(c, x) == ProhibitedIf(x.ats >= c.maxAts, {SpamFlooding})

IsUrlAllowed(c, url) ==
    /\ ~\E g \in c.deniedUrls : url \in g
    /\ c.allowedUrls = {} \/ \E g \in c.allowedUrls : url \in g
Link(c, x) == ProhibitedIf(\E url \in x.urls : ~IsUrlAllowed(c, url), {SpamGeneral})

(***************************************************************************)
(* Filters of the sender and of who is addressed                           *)
(***************************************************************************)
StickyEvents(x) == ProhibitedIf(x.sticky, {OtherGeneral})

UserIdContainsWords(c, x) ==
    ProhibitedIf(Users[x.sender].words > c.maxWords, {SpamFlooding})

UserIdLength(c, x) ==
    ProhibitedIf(Users[x.sender].length > c.maxUserIdLength, {SpamFlooding})

(* Members in m.mentions, then members and distinct display names that the *)
(* body holds, counted until the limit is reached.                         *)
CountMentionsToLimit(x, minName, limit) ==
    LET members == World.members[x.room]
        names == {n \in World.names[x.room] :
                    World.nameLength[n] > 0 /\ World.nameLength[n] >= minName}
        first == Cardinality(members \cap x.mentioned)
        all == first + Cardinality(members \cap x.spoken) + Cardinality(names \cap x.spoken)
    IN  IF first >= limit THEN first ELSE IF all < limit THEN all ELSE limit

Mentions(c, x) ==
    IF x.type # Message THEN {Neutral}
    ELSE IF ~x.decodes THEN {Failure}
    ELSE {Failure} \cup ProhibitedIf(
            CountMentionsToLimit(x, c.minName, c.maxMentions) >= c.maxMentions,
            {SpamFlooding})

(* The policy list's rules, as they were learned; IsUserBannedInList.      *)
IsUserBanned(user) ==
    \E rule \in World.rules :
        (IF rule.type = "m.policy.rule.server" THEN Users[user].server ELSE user)
            \in rule.glob
Mjolnir(x) ==
    IF x.type # Message THEN {Neutral}
    ELSE {Failure} \cup ProhibitedIf(IsUserBanned(x.sender), {OtherGeneral})

(* The count is a matter of pubsub and time: module Counter.               *)
Frequency(c, x) ==
    IF x.type \in c.rateTypes
    THEN {Neutral, Prohibited({SpamFlooding}), Failure} ELSE {Neutral}
MentionsFrequency(x) == {Neutral, Prohibited({SpamFlooding}), Failure}

(* Each text a message or reaction is rendered to is sent to the service,  *)
(* in the rooms that may use it.                                           *)
Renders(x) ==
    \/ x.type = Message /\ x.msgtype \in {"m.text", "m.notice", "m.emote"}
    \/ x.type = "m.reaction"
OpenAIOmni(c, x) ==
    IF x.room \notin c.openAIRooms THEN {Neutral}
    ELSE IF x.type \in {Message, "m.reaction"} /\ ~x.decodes THEN {Failure}
    ELSE IF ~Renders(x) THEN {Neutral}
    ELSE {Neutral, Prohibited({SpamGeneral}), Prohibited({SpamGeneral, ChildSafety}),
          IF c.failSecure THEN Prohibited({OtherGeneral}) ELSE Neutral}

(***************************************************************************)
(* Filters of media                                                        *)
(***************************************************************************)
Media(types, x) ==
    IF x.type \in types THEN {Prohibited({SpamGeneral, PolicyservMedia})}
    ELSE IF x.type # Message THEN {Neutral}
    ELSE IF ~x.decodes THEN {Failure}
    ELSE ProhibitedIf(x.msgtype \in types, {SpamGeneral, PolicyservMedia})

(* Every image of the formatted body must be an emoji with one height that *)
(* is a number, and not too large (heights that are no numbers are None).  *)
InlineEmojiSize(c, x) ==
    OnMessage(x, ProhibitedIf(\E i \in x.images :
        \/ ~i.emoticon \/ Len(i.heights) # 1
        \/ \E h \in ToSet(i.heights) : h = None \/ h > c.maxHeight,
        {SpamGeneral, NonCompliance}))

(* Trust sources: "True", "False" or "Default", or an error.  A power      *)
(* levels row that cannot be read is taken for an empty one, in which      *)
(* everybody has the level that is needed.                                 *)
SelfDirected(c, user) ==
    {IF \E g \in c.deniedUsers : user \in g THEN "False"
     ELSE IF \E g \in c.allowedUsers : user \in g THEN "True" ELSE "Default"}
MuninnHall(user) ==
    {IF Users[user].server \in World.muninn THEN "True" ELSE "Default", "error"}
Creator(user, room) ==
    {IF user \in World.creators[room] THEN "True" ELSE "Default", "error"}
IsUserAboveDefault(user, room) ==
    /\ room \in DOMAIN World.levels
    /\ World.levels[room].users[user] >= World.levels[room].stateDefault
PowerLevels(user, room) ==
    {IF IsUserAboveDefault(user, room) THEN "True" ELSE "Default", "True"}

(* Muninn Hall and the power levels are asked if the community says so.    *)
Sources(c, x) ==
    <<SelfDirected(c, x.sender)>>
      \o (IF c.muninn THEN <<MuninnHall(x.sender)>> ELSE <<>>)
      \o (IF c.powerLevels
          THEN <<Creator(x.sender, x.room), PowerLevels(x.sender, x.room)>> ELSE <<>>)

(* Mutant: a denial is only one more opinion.                              *)
JudgeByAnyTrust(said) ==
    IF \E i \in DOMAIN said : said[i] = "error" THEN "error"
    ELSE IF \E i \in DOMAIN said : said[i] = "True" THEN "True" ELSE "Default"

(* The sources in order, up to one that denies or fails.                   *)
Judge(said) ==
    LET stops == {i \in DOMAIN said : said[i] \in {"error", "False"}}
        first == CHOOSE i \in stops : \A j \in stops : i <= j
    IN  IF stops # {} THEN said[first]
        ELSE IF \E i \in DOMAIN said : said[i] = "True" THEN "True" ELSE "Default"

UntrustedMedia(c, x) ==
    LET sources == Sources(c, x)
        opinions == {said \in [DOMAIN sources -> {"True", "False", "Default", "error"}] :
                       \A i \in DOMAIN said : said[i] \in sources[i]}
    IN  UNION {CASE Judge(said) = "error" -> {Failure}
                 [] Judge(said) = "True" -> {Neutral}
                 [] OTHER -> Media(c.untrustedTypes, x) : said \in opinions}

(* The scanner: the banks that match, of those that are enabled.  The      *)
(* status of a lookup is not looked at: an error object is a bank nobody   *)
(* enabled.                                                                *)
Scan(c, item) ==
    {Failure, Neutral} \cup
        ProhibitedIf(World.banks[item] \cap c.banks # {},
                     {SpamGeneral, ChildSafety, PolicyservMedia})

(* An item's stored classification, or, if there is none or it cannot be   *)
(* read, its scan; failures count as spam.                                 *)
Classify(c, item) ==
    (IF World.classified[item] = None THEN {} ELSE {World.classified[item]})
      \cup {IF r = Failure THEN Prohibited({OtherGeneral}) ELSE r : r \in Scan(c, item)}

(* All items are scanned at once; after 30 seconds the wait is over.  A    *)
(* URL that is none of a medium leaves a nil among the items (None), whose *)
(* scan panics.                                                            *)
MediaScanning(c, x) ==
    LET infos == {info \in [x.media -> UNION {Classify(c, i) : i \in x.media}] :
                    \A i \in x.media : info[i] \in Classify(c, i)}
        Harmful(info) == UNION {info[i].harms : i \in x.media}
    IN  IF x.media = {} THEN {Neutral}
        ELSE IF None \in x.media THEN {Panic}
        ELSE {Prohibited({OtherGeneral})}
               \cup UNION {ProhibitedIf(Harmful(info) # {}, Harmful(info)) : info \in infos}

(***************************************************************************)
(* The groups of a community's set, and a filter's replies                 *)
(***************************************************************************)
Prefilters(c) ==
    {"protect"}
      \cup (IF c.eventTypes \cup c.stateEventTypes # {} THEN {"eventType"} ELSE {})
      \cup (IF c.senders # {} THEN {"sender"} ELSE {})
      \cup (IF c.unsafeKey THEN {"unsafeKey"} ELSE {})

MiddleFilters(c) ==
    {f \in {"keyword", "template", "density", "length", "ats", "media", "untrusted",
            "emoji", "mentions", "mjolnir", "trim", "openai", "sticky", "link",
            "mentionRate", "rate", "words", "idLength", "scan"} :
        CASE f = "keyword" -> c.keywords # {}
          [] f = "template" -> c.templates # {}
          [] f = "density" -> c.maxDensity > 0
          [] f = "length" -> c.maxLength > 0
          [] f = "ats" -> c.maxAts > 0
          [] f = "media" -> c.mediaTypes # {}
          [] f = "untrusted" -> c.untrustedTypes # {}
          [] f = "emoji" -> c.maxHeight > 0
          [] f = "mentions" -> c.maxMentions > 0
          [] f = "mjolnir" -> c.mjolnir
          [] f = "trim" -> c.maxDifference > 0
          [] f = "openai" -> c.openAIKey
          [] f = "sticky" -> ~c.allowSticky
          [] f = "link" -> c.allowedUrls \cup c.deniedUrls # {}
          [] f = "mentionRate" -> c.mentionRate
          [] f = "rate" -> c.rateTypes # {}
          [] f = "words" -> c.maxWords > 0
          [] f = "idLength" -> c.maxUserIdLength > 0
          [] f = "scan" -> c.banks # {}}

Groups(c) ==
    <<Prefilters(c), IF c.hellban THEN {"hellban"} ELSE {},
      MiddleFilters(c), IF c.hellban THEN {"silence"} ELSE {}>>

TextFilters == {"keyword", "template", "density", "length", "ats", "trim", "link"}

Replies(f, c, x) ==
    IF IsText(x) /\ f \notin TextFilters THEN {Neutral}
    ELSE CASE f = "protect" -> ProtectLocalUser(x)
           [] f = "eventType" -> EventType(c, x)
           [] f = "sender" -> Sender(c, x)
           [] f = "unsafeKey" -> UnsafeSigningKey(x)
           [] f = "hellban" -> {Neutral, Prohibited({SpamFlooding})}
           [] f = "silence" -> {Prohibited({SpamFlooding}), Failure}
           [] f = "keyword" -> Keyword(c, x)
           [] f = "template" -> KeywordTemplate(c, x)
           [] f = "density" -> Density(c, x)
           [] f = "length" -> Length(c, x)
           [] f = "ats" -> ManyAts(c, x)
           [] f = "media" -> Media(c.mediaTypes, x)
           [] f = "untrusted" -> UntrustedMedia(c, x)
           [] f = "emoji" -> InlineEmojiSize(c, x)
           [] f = "mentions" -> Mentions(c, x)
           [] f = "mjolnir" -> Mjolnir(x)
           [] f = "trim" -> TrimLength(c, x)
           [] f = "openai" -> OpenAIOmni(c, x)
           [] f = "sticky" -> StickyEvents(x)
           [] f = "link" -> Link(c, x)
           [] f = "mentionRate" -> MentionsFrequency(x)
           [] f = "rate" -> Frequency(c, x)
           [] f = "words" -> UserIdContainsWords(c, x)
           [] f = "idLength" -> UserIdLength(c, x)
           [] f = "scan" -> MediaScanning(c, x)
=============================================================================
