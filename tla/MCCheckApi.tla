------------------------------ MODULE MCCheckApi ------------------------------
(* An instance of CheckApi for TLC: six configurations that between them  *)
(* enable every filter, eleven inputs, three servers.                      *)
EXTENDS CheckApi, TLC

CONSTANTS alice, mallory, local, stranger, room, hall, evil, spam, scam,
          good, bad, pic, gore, none, s1, s2, s3

MCUsers ==
    alice :> [server |-> hall, length |-> 9, words |-> 1] @@
    mallory :> [server |-> evil, length |-> 40, words |-> 5] @@
    local :> [server |-> hall, length |-> 9, words |-> 1]

MCWorld ==
    [members |-> room :> {alice, mallory, local},
     names |-> room :> {bad, good},
     nameLength |-> bad :> 8 @@ good :> 1,
     rules |-> {[type |-> "m.policy.rule.server", glob |-> {evil}]},
     muninn |-> {evil},
     creators |-> room :> {local},
     levels |-> room :> [users |-> alice :> 0 @@ mallory :> 0 @@ local :> 100,
                         stateDefault |-> 50],
     banks |-> pic :> {} @@ gore :> {"banned"},
     classified |-> pic :> Neutral @@ gore :> none]

Off ==
    [keywords |-> {}, templates |-> {}, useFullEvent |-> FALSE,
     eventTypes |-> {}, stateEventTypes |-> {}, senders |-> {}, unsafeKey |-> FALSE,
     minTriggerLength |-> 0, maxDensity |-> 0, maxLength |-> 0, maxDifference |-> 0,
     maxAts |-> 0, allowedUrls |-> {}, deniedUrls |-> {}, allowSticky |-> TRUE,
     maxWords |-> 0, maxUserIdLength |-> 0, minName |-> 0, maxMentions |-> 0,
     mjolnir |-> FALSE, rateTypes |-> {}, mentionRate |-> FALSE, openAIKey |-> FALSE,
     openAIRooms |-> {}, failSecure |-> FALSE, mediaTypes |-> {}, maxHeight |-> 0,
     untrustedTypes |-> {}, allowedUsers |-> {}, deniedUsers |-> {}, muninn |-> FALSE,
     powerLevels |-> FALSE, banks |-> {}, hellban |-> FALSE]

ScamTemplate == [harms |-> spam :> {SpamGeneral, ChildSafety} @@ scam :> {}, fails |-> {scam}]

MCCommunities ==
    {[Off EXCEPT !.keywords = {spam}, !.templates = {ScamTemplate}, !.useFullEvent = TRUE,
                 !.minTriggerLength = 10, !.maxDensity = 95, !.hellban = TRUE],
     [Off EXCEPT !.maxAts = 3, !.maxDifference = 5, !.deniedUrls = {{bad}},
                 !.allowedUrls = {{good, bad}}, !.allowSticky = FALSE, !.senders = {alice},
                 !.eventTypes = {"m.reaction"}, !.stateEventTypes = {"m.room.member"},
                 !.unsafeKey = TRUE],
     [Off EXCEPT !.mediaTypes = {"m.sticker"}, !.untrustedTypes = {"m.image"},
                 !.allowedUsers = {{mallory}}, !.deniedUsers = {{mallory}},
                 !.muninn = TRUE, !.banks = {"banned"}, !.maxHeight = 32],
     [Off EXCEPT !.untrustedTypes = {"m.image"}, !.powerLevels = TRUE, !.mjolnir = TRUE,
                 !.minName = 2, !.maxMentions = 3, !.hellban = TRUE],
     [Off EXCEPT !.maxWords = 3, !.rateTypes = {Message}, !.mentionRate = TRUE],
     [Off EXCEPT !.maxUserIdLength = 30, !.maxLength = 100, !.openAIKey = TRUE, !.openAIRooms = {room},
                 !.failSecure = TRUE]}

Text == [kind |-> "text", words |-> {}, envelope |-> {}, size |-> 20, body |-> 20,
         blanks |-> 4, ends |-> 0, ats |-> 0, urls |-> {good}]
SpamText == [Text EXCEPT !.words = {spam}, !.blanks = 0, !.size = 200, !.ends = 6,
                         !.ats = 4, !.urls = {bad}]
Event == [kind |-> "event", words |-> {}, envelope |-> {}, size |-> 60, body |-> 20,
          blanks |-> 4, ends |-> 0, ats |-> 0, urls |-> {good}, type |-> Message,
          stateKey |-> none, sender |-> alice, room |-> room, decodes |-> TRUE,
          mediaDecodes |-> TRUE, msgtype |-> "m.text", mentioned |-> {}, spoken |-> {},
          media |-> {}, images |-> {}, sticky |-> FALSE, signatures |-> {"safe"}]
MCInputs ==
    {Text, SpamText, Event,
     [Event EXCEPT !.sender = mallory, !.words = {spam}, !.blanks = 0, !.size = 200,
                   !.ends = 6, !.ats = 4, !.urls = {bad, good}, !.mentioned = {alice, local},
                   !.spoken = {alice, bad, good}, !.sticky = TRUE, !.envelope = {scam},
                   !.images = {[emoticon |-> TRUE, heights |-> <<none>>]}],
     [Event EXCEPT !.sender = mallory, !.msgtype = "m.image", !.media = {pic, gore}],
     [Event EXCEPT !.msgtype = "m.image", !.media = {pic, none}],
     [Event EXCEPT !.type = "m.room.member", !.stateKey = local, !.sender = mallory],
     [Event EXCEPT !.decodes = FALSE, !.signatures = {"safe", "unsafe", "garbled"}],
     [Event EXCEPT !.mediaDecodes = FALSE],
     [Event EXCEPT !.sender = stranger],
     [Event EXCEPT !.type = "m.reaction", !.sender = mallory]}

Symmetry == Permutations(Servers)
=============================================================================
