---------------------------- MODULE ChatMembers ----------------------------
(***************************************************************************)
(* How the registered chats follow the groups and servers the bot belongs  *)
(* to: the membership event of Telegram and the guild and channel events   *)
(* of Discord (internal/channel/telegram/bot.go, discord/bot.go), and the  *)
(* channel tracker (discord/tracker.go), which remembers the channels of a *)
(* guild for a deletion that comes without them.                           *)
(*                                                                         *)
(* Both libraries run the handler of every event in a goroutine: two       *)
(* events of one chat may be handled at once or in the wrong order.  There *)
(* is one guild; its channels are text channels, as other types return at  *)
(* once.  A restarted process is told about the guild again.               *)
(***************************************************************************)
EXTENDS ChatRegistry, Sequences

CONSTANTS
    Groups,        \* Telegram chats
    Channels,      \* text channels of the Discord guild
    MaxEvents,     \* changes of membership
    MaxStops       \* restarts of the process

ASSUME MembersAssumption == Groups \cap Channels = {}

VARIABLES
    present,       \* the chats the bot is in, on the platforms
    inGuild,       \* whether the bot is a member of the guild
    events,        \* events not yet taken by a handler, in order
    tracked,       \* the channel tracker: guildChannels and channelGuild
    task,          \* what each handler is doing
    excused,       \* chats whose events failed, overlapped or were missed
    changes,
    stops

memberVars == <<present, inGuild, events, tracked, task, excused, changes, stops, registryVars>>

NoTask == [kind |-> "none", todo |-> {}, all |-> {}, scope |-> {}]

MembersInit ==
    /\ RegistryInit
    /\ present = {}
    /\ inGuild = FALSE
    /\ events = <<>>
    /\ tracked = {}
    /\ task = [h \in Handlers |-> NoTask]
    /\ excused = {}
    /\ changes = 0
    /\ stops = 0

Event(kind, chats) == [kind |-> kind, chats |-> chats]

-----------------------------------------------------------------------------
(* The platforms (external): a change, and the event that tells of it. *)

Change(now, member, event) ==
    /\ changes < MaxEvents
    /\ changes' = changes + 1
    /\ present' = now
    /\ inGuild' = member
    /\ events' = Append(events, event)
    /\ UNCHANGED <<tracked, task, excused, stops, registryVars>>

GroupChanges == \E c \in Groups :
    \/ c \notin present /\ Change(present \cup {c}, inGuild, Event("added", {c}))
    \/ c \in present /\ Change(present \ {c}, inGuild, Event("removed", {c}))

GuildChanges ==
    \/ /\ ~inGuild
       /\ \E cs \in SUBSET Channels : Change(present \cup cs, TRUE, Event("guildCreate", cs))
    \/ /\ inGuild
       /\ Change(present \ Channels, FALSE, Event("guildDelete", present \cap Channels))

ChannelChanges == \E c \in Channels :
    /\ inGuild
    /\ \/ c \notin present /\ Change(present \cup {c}, TRUE, Event("channelCreate", {c}))
       \/ c \in present /\ Change(present \ {c}, TRUE, Event("channelDelete", {c}))
       \/ c \in present /\ Change(present, TRUE, Event("channelUpdate", {c}))

-----------------------------------------------------------------------------
(* The tracker: each operation is one critical section. *)

\* Variant for the mutants: only the guild event fills the tracker.
UpsertNothing(c) == tracked

Upsert(c) == tracked \cup {c}

ReplaceGuild(cs) == (tracked \ Channels) \cup cs

Remove(c) == tracked \ {c}

RemoveGuild == tracked \ Channels

-----------------------------------------------------------------------------
(* A handler takes event i; the others stay pending. *)

Busy(h) == task[h].kind # "none"

Others(i) == [k \in 1..(Len(events) - 1) |-> IF k < i THEN events[k] ELSE events[k + 1]]

\* The chats an event is about: ReplaceGuild and RemoveGuild concern them all.
Scope(e) == IF e.kind \in {"guildCreate", "guildDelete"} THEN Channels ELSE e.chats

\* Chats that another handler is changing, or that an earlier event is about.
Contended(i) ==
    (UNION {task[g].scope : g \in Handlers}) \cup (UNION {Scope(events[k]) : k \in 1..(i - 1)})

Take(h, i, kind, chats) ==
    /\ task' = [task EXCEPT ![h] = IF chats = {} /\ kind = "leave" THEN NoTask
                                   ELSE [kind |-> kind, todo |-> chats, all |-> chats, scope |-> Scope(events[i])]]
    /\ events' = Others(i)
    /\ excused' = excused \cup (Scope(events[i]) \cap Contended(i))
    /\ UNCHANGED <<present, inGuild, changes, stops, registryVars>>

\* Telegram: added or removed.
HandleMyChatMember(h, i) ==
    /\ \/ events[i].kind = "added" /\ Take(h, i, "join", events[i].chats)
       \/ events[i].kind = "removed" /\ Take(h, i, "leave", events[i].chats)
    /\ UNCHANGED tracked

\* Discord: every text channel is joined, and then the tracker replaced.
GuildCreate(h, i) ==
    /\ events[i].kind = "guildCreate"
    /\ Take(h, i, "joinGuild", events[i].chats)
    /\ UNCHANGED tracked

\* Discord: the channels come from the library's cache, or from the tracker.
GuildDelete(h, i) ==
    /\ events[i].kind = "guildDelete"
    /\ \/ events[i].chats # {} /\ Take(h, i, "leave", events[i].chats)
       \/ Take(h, i, "leave", tracked \cap Channels)
    /\ tracked' = RemoveGuild

SyncGuildTextChannel(h, i) ==
    /\ events[i].kind \in {"channelCreate", "channelUpdate"}
    /\ tracked' = UNION {Upsert(c) : c \in events[i].chats}
    /\ Take(h, i, "join", events[i].chats)

RemoveGuildTextChannel(h, i) ==
    /\ events[i].kind = "channelDelete"
    /\ tracked' = UNION {Remove(c) : c \in events[i].chats}
    /\ Take(h, i, "leave", events[i].chats)

TakeEvent(h) ==
    /\ ~Busy(h)
    /\ \E i \in DOMAIN events :
          \/ HandleMyChatMember(h, i)
          \/ GuildCreate(h, i)
          \/ GuildDelete(h, i)
          \/ SyncGuildTextChannel(h, i)
          \/ RemoveGuildTextChannel(h, i)

\* The loop over the chats: one call of the join handler after the other.
CallJoinHandler(h) ==
    /\ Busy(h)
    /\ registry[h] = NoCall
    /\ \E c \in task[h].todo :
          /\ registry' = [registry EXCEPT ![h] = IF task[h].kind = "leave" THEN OnChatLeave(c) ELSE OnChatJoin(c)]
          /\ task' = [task EXCEPT ![h].todo = @ \ {c}]
    /\ UNCHANGED <<present, inGuild, events, tracked, excused, changes, stops, chatRows, faults>>

\* A failed call is logged, and the loop goes on.
JoinHandlerReturns(h) ==
    /\ Busy(h)
    /\ Returned(h)
    /\ excused' = IF registry[h].op = "failed" THEN excused \cup {registry[h].chat} ELSE excused
    /\ registry' = [registry EXCEPT ![h] = NoCall]
    /\ UNCHANGED <<present, inGuild, events, tracked, task, changes, stops, chatRows, faults>>

EndOfEvent(h) ==
    /\ Busy(h)
    /\ task[h].todo = {}
    /\ registry[h] = NoCall
    /\ tracked' = IF task[h].kind = "joinGuild" THEN ReplaceGuild(task[h].all) ELSE tracked
    /\ task' = [task EXCEPT ![h] = NoTask]
    /\ UNCHANGED <<present, inGuild, events, excused, changes, stops, registryVars>>

\* The process starts again with an empty tracker; what was pending is lost,
\* and the gateway announces the guild.
ProcessRestarts ==
    /\ stops < MaxStops
    /\ stops' = stops + 1
    /\ excused' = excused \cup (UNION {task[h].scope : h \in Handlers})
                          \cup (UNION {Scope(events[i]) : i \in DOMAIN events})
    /\ task' = [h \in Handlers |-> NoTask]
    /\ registry' = [h \in Handlers |-> NoCall]
    /\ tracked' = {}
    /\ events' = IF inGuild THEN <<Event("guildCreate", present \cap Channels)>> ELSE <<>>
    /\ UNCHANGED <<present, inGuild, changes, chatRows, faults>>

MembersNext ==
    \/ GroupChanges
    \/ GuildChanges
    \/ ChannelChanges
    \/ \E h \in Handlers :
          \/ TakeEvent(h)
          \/ CallJoinHandler(h)
          \/ RegistryStep(h) /\ UNCHANGED <<present, inGuild, events, tracked, task, excused, changes, stops>>
          \/ JoinHandlerReturns(h)
          \/ EndOfEvent(h)
    \/ ProcessRestarts

MembersSpec == MembersInit /\ [][MembersNext]_memberVars

-----------------------------------------------------------------------------

\* Once every event is handled, a chat is registered exactly once if the bot
\* is in it and not at all if it left, unless one of its events failed, met
\* another one of the same chat, or was missed while the process was down.
\* A guild that is left without its channels in the library's cache takes
\* them from the tracker, also those created after the bot joined.
ChatsFollowPlatform ==
    events = <<>> /\ (\A h \in Handlers : ~Busy(h)) =>
        \A c \in (Groups \cup Channels) \ excused :
            Cardinality(FindChat(c)) = IF c \in present THEN 1 ELSE 0

=============================================================================
