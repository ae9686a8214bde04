------------------------------- MODULE MCEdges -------------------------------
(* Components that meet only through calls: the messengers in both        *)
(* directions, cron and the university tables.  They share no state, so    *)
(* that a behaviour runs one of them and the others rest.                  *)
EXTENDS ChatInbox, ChatMembers, ChannelSend, CronTriggers, University, TLC

VARIABLE part

Sent(i, m, k, c, own, text, files, album) ==
    [id |-> i, messenger |-> m, kind |-> k, chat |-> c,
     own |-> own, text |-> text, files |-> files, album |-> album]

(* An album with a button, plain messages of two messengers, VK with a     *)
(* message of the bot itself, and Mattermost.                              *)
MCTraffics ==
    {{Sent("p1", "telegram", "message", "t", FALSE, FALSE, {"f1"}, "A"),
      Sent("p2", "telegram", "message", "t", FALSE, FALSE, {"f2"}, "A"),
      Sent("b", "telegram", "button", "t", FALSE, TRUE, {}, "")},
     {Sent("t1", "telegram", "message", "t", FALSE, TRUE, {}, ""),
      Sent("d1", "discord", "message", "d", FALSE, TRUE, {"f1", "f2"}, ""),
      Sent("d2", "discord", "button", "d", FALSE, TRUE, {}, "")},
     {Sent("v1", "vk", "message", "v", FALSE, FALSE, {"f1"}, ""),
      Sent("v2", "vk", "button", "v", FALSE, TRUE, {}, ""),
      Sent("v3", "vk", "message", "v", TRUE, TRUE, {}, "")},
     {Sent("m1", "mattermost", "message", "m", FALSE, TRUE, {"f1"}, ""),
      Sent("m2", "mattermost", "action", "m", FALSE, TRUE, {}, "")}}

Content(buttons, photos, docs) == [buttons |-> buttons, photos |-> photos, docs |-> docs]

MCPrompts == {Content(TRUE, FALSE, FALSE), Content(FALSE, FALSE, FALSE), Content(TRUE, TRUE, FALSE)}

MCReplies == {Content(FALSE, FALSE, FALSE), Content(FALSE, TRUE, TRUE), Content(TRUE, TRUE, FALSE)}

-----------------------------------------------------------------------------

memberOnly == <<present, inGuild, events, tracked, task, excused, changes, stops>>
inboxOnly == <<traffic, job, albums, knownChats, marks, delivered, handed,
               accepted, lapsed, lost, restarts>>

\* What the resting components have in Init is one of their initial states.
MCInit ==
    /\ part \in {"inbox", "members", "menu", "reply", "cron", "university"}
    /\ InboxInit /\ MembersInit /\ SendInit /\ CronInit /\ UniversityInit
    /\ part # "inbox" => traffic = CHOOSE t \in Traffics : TRUE
    /\ part \notin {"menu", "reply"} => messenger = "none"
    /\ part # "university" => uni = Seed({})

MCNext ==
    \/ part = "inbox" /\ InboxNext
       /\ UNCHANGED <<part, memberOnly, sendVars, cronVars, universityVars>>
    \/ part = "members" /\ MembersNext
       /\ UNCHANGED <<part, inboxOnly, sendVars, cronVars, universityVars>>
    \/ part = "menu" /\ MenuNext
       /\ UNCHANGED <<part, inboxOnly, memberOnly, registryVars, cronVars,
                      universityVars>>
    \/ part = "reply" /\ ReplyNext
       /\ UNCHANGED <<part, inboxOnly, memberOnly, registryVars, cronVars,
                      universityVars>>
    \/ part = "cron" /\ CronNext
       /\ UNCHANGED <<part, inboxOnly, memberOnly, registryVars, sendVars,
                      universityVars>>
    \/ part = "university" /\ UniversityNext
       /\ UNCHANGED <<part, inboxOnly, memberOnly, registryVars, sendVars,
                      cronVars>>

\* The goroutines and replicas of the components are the same two model values.
Symmetry == Permutations(Handlers)
=============================================================================
