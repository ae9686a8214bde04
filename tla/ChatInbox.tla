----------------------------- MODULE ChatInbox -----------------------------
(***************************************************************************)
(* The way of an incoming message from a messenger to the channel manager: *)
(* the handlers of the Telegram, Discord, VK and Mattermost bots           *)
(* (internal/channel/<messenger>/bot.go), the album buffer of Telegram     *)
(* (album.go) and the deduplication middleware (dedup/middleware.go).      *)
(*                                                                         *)
(* Every delivery runs in a goroutine of its own (a handler h), except     *)
(* that Mattermost posts are read by one loop.  A platform may deliver a   *)
(* message again.  A handler makes sure that the chat is registered (VK,   *)
(* Mattermost), stores the files, builds an update and hands it through    *)
(* the middleware to the manager; Telegram photos of one album wait in the *)
(* buffer until its timer fires, and travel as one update that carries the *)
(* id of the first photo.                                                  *)
(*                                                                         *)
(* A message is a record                                                   *)
(*   [id, messenger, kind, chat, own, text, files, album]                  *)
(* kind: "message", "button" (an inline button), "action" (Mattermost);    *)
(* own: sent by the bot itself or by no user; text: it has text; files:    *)
(* what is attached; album: the Telegram media group, or "".               *)
(* Content, captions, labels and user names are left out.                  *)
(***************************************************************************)
EXTENDS ChatRegistry, Sequences

CONSTANTS
    Traffics,       \* sets of messages; a behaviour delivers those of one set
    MaxDeliveries,  \* times a platform delivers one message
    MaxRestarts     \* restarts of the process

VARIABLES
    traffic,        \* the messages of this behaviour
    job,            \* what each handler is doing
    albums,         \* albumBuffer.albums: the entries that wait, in order
    knownChats,     \* knownChats of the VK and Mattermost bots
    marks,          \* the dedup keys in Redis
    delivered,      \* how often each message was delivered
    handed,         \* how often each message or file reached the manager
    accepted,       \* messages of which a handler built an update
    lapsed,         \* update ids whose mark expired or was never written
    lost,           \* messages that were in memory when the process stopped
    restarts

inboxVars == <<traffic, job, albums, knownChats, marks, delivered, handed,
               accepted, lapsed, lost, restarts, registryVars>>

Messages == UNION Traffics

AlbumIds == {m.album : m \in Messages} \ {""}

\* What the manager receives of a message: its files, or the message itself.
Contents(m) == m.files \cup {m.id}

Parts == UNION {Contents(m) : m \in Messages}

\* Every message and every file of a behaviour has an id of its own.
ASSUME InboxAssumption ==
    \A t \in Traffics : \A m, n \in t : m # n => Contents(m) \cap Contents(n) = {}

\* An update on its way: its id, the parts it carries, the messages it is from.
Resting == [pc |-> "idle", id |-> "", parts |-> {}, from |-> {}]

InboxInit ==
    /\ RegistryInit
    /\ traffic \in Traffics
    /\ job = [h \in Handlers |-> Resting]
    /\ albums = [a \in AlbumIds |-> <<>>]
    /\ knownChats = {}
    /\ marks = {}
    /\ delivered = [m \in Messages |-> 0]
    /\ handed = [p \in Parts |-> 0]
    /\ accepted = {}
    /\ lapsed = {}
    /\ lost = {}
    /\ restarts = 0

Free(h) == job[h].pc = "idle"

Message(h) == CHOOSE m \in job[h].from : TRUE

GoTo(h, pc) == job' = [job EXCEPT ![h].pc = pc]

-----------------------------------------------------------------------------
(* A platform delivers a message: the first step of each bot's handler. *)

\* A handler takes the message and goes to pc; own messages are ignored.
Taken(h, m, pc) ==
    /\ Free(h)
    /\ delivered[m] < MaxDeliveries
    /\ delivered' = [delivered EXCEPT ![m] = @ + 1]
    /\ job' = IF m.own THEN job
              ELSE [job EXCEPT ![h] = [pc |-> pc, id |-> m.id, parts |-> {}, from |-> {m}]]
    /\ UNCHANGED <<traffic, albums, knownChats, marks, handed, accepted, lapsed, lost, restarts, registryVars>>

Is(m, messenger, kind) == m.messenger = messenger /\ m.kind = kind

\* Telegram: text and commands.
HandleTextMessage(h, m) ==
    Is(m, "telegram", "message") /\ m.files = {} /\ Taken(h, m, "input")

\* Telegram: photo, document, audio, video, voice.
HandleFileMessage(h, m) ==
    Is(m, "telegram", "message") /\ m.files # {} /\ Taken(h, m, "store")

\* Telegram: OnCallback, acknowledged before it is handled.
OnCallback(h, m) == Is(m, "telegram", "button") /\ Taken(h, m, "input")

\* Discord: MessageCreate and InteractionCreate.
MessageCreate(h, m) == Is(m, "discord", "message") /\ Taken(h, m, "store")

InteractionCreate(h, m) == Is(m, "discord", "button") /\ Taken(h, m, "input")

\* VK: a silent button, and a new message.
HandleMessageEvent(h, m) == Is(m, "vk", "button") /\ Taken(h, m, "register")

HandleMessageNew(h, m) == Is(m, "vk", "message") /\ Taken(h, m, "register")

\* Mattermost: the websocket loop handles one post after the other.
HandlePostedEvent(h, m) ==
    /\ Is(m, "mattermost", "message")
    /\ \A g \in Handlers : \A n \in job[g].from : ~Is(n, "mattermost", "message")
    /\ Taken(h, m, "register")

\* Mattermost: a button's HTTP request, answered before a goroutine handles it.
HandleAction(h, m) == Is(m, "mattermost", "action") /\ Taken(h, m, "register")

Deliver(h) == \E m \in traffic :
    \/ HandleTextMessage(h, m) \/ HandleFileMessage(h, m) \/ OnCallback(h, m)
    \/ MessageCreate(h, m) \/ InteractionCreate(h, m)
    \/ HandleMessageEvent(h, m) \/ HandleMessageNew(h, m)
    \/ HandlePostedEvent(h, m) \/ HandleAction(h, m)

-----------------------------------------------------------------------------
(* ensureChatRegistered: the chat is marked known before it is registered, *)
(* and unmarked when the registration fails.                               *)

Collected == <<traffic, albums, delivered, handed, accepted, lapsed, lost, restarts>>

\* VK: whatever the metadata request answers, the chat is registered.
EnsureVkChat(h) ==
    /\ Message(h).messenger = "vk"
    /\ registry' = [registry EXCEPT ![h] = OnChatJoin(Message(h).chat)]
    /\ knownChats' = knownChats \cup {Message(h).chat}
    /\ GoTo(h, "registering")
    /\ UNCHANGED faults

\* Mattermost: when the channel cannot be read, the chat is forgotten again.
EnsureMattermostChat(h) ==
    /\ Message(h).messenger = "mattermost"
    /\ \/ /\ registry' = [registry EXCEPT ![h] = OnChatJoin(Message(h).chat)]
          /\ knownChats' = knownChats \cup {Message(h).chat}
          /\ GoTo(h, "registering")
          /\ UNCHANGED faults
       \/ /\ Fault
          /\ GoTo(h, "collect")
          /\ UNCHANGED <<registry, knownChats>>

EnsureChatRegistered(h) ==
    /\ job[h].pc = "register"
    /\ \/ /\ Message(h).chat \in knownChats
          /\ GoTo(h, "collect")
          /\ UNCHANGED <<knownChats, registry, faults>>
       \/ /\ Message(h).chat \notin knownChats
          /\ EnsureVkChat(h) \/ EnsureMattermostChat(h)
    /\ UNCHANGED <<marks, chatRows, Collected>>

\* Variant for the mutants: a chat that could not be registered stays known.
ForgetsNothing(h) == knownChats

ForgetChat(h) == knownChats \ {Message(h).chat}

ChatRegistered(h) ==
    /\ job[h].pc = "registering"
    /\ Returned(h)
    /\ knownChats' = IF registry[h].op = "failed" THEN ForgetChat(h) ELSE knownChats
    /\ registry' = [registry EXCEPT ![h] = NoCall]
    /\ GoTo(h, "collect")
    /\ UNCHANGED <<marks, chatRows, faults, Collected>>

-----------------------------------------------------------------------------
(* The input of the update. *)

Quiet == <<traffic, knownChats, marks, delivered, handed, lapsed, lost, restarts, registryVars>>

\* The update a handler goes on with, or its early return.
Build(h, parts) ==
    /\ job' = IF parts = {} THEN [job EXCEPT ![h] = Resting]
              ELSE [job EXCEPT ![h].pc = "mark", ![h].parts = parts]
    /\ accepted' = IF parts = {} THEN accepted ELSE accepted \cup job[h].from

TextInput(m) == IF m.text THEN {m.id} ELSE {}

\* Texts and buttons of Telegram and Discord.
InputGiven(h) ==
    /\ job[h].pc = "input"
    /\ Build(h, {Message(h).id})
    /\ UNCHANGED <<albums, Quiet>>

\* VK and Mattermost: a button's value comes first, then files, then text.
CollectInput(h) ==
    /\ job[h].pc = "collect"
    /\ \/ /\ Message(h).kind \in {"button", "action"}
          /\ Build(h, {Message(h).id})
       \/ /\ Message(h).kind = "message"
          /\ GoTo(h, "store")
          /\ UNCHANGED accepted
    /\ UNCHANGED <<albums, Quiet>>

\* A file that is too large, or cannot be downloaded or stored, is skipped.
Kept(m) == SUBSET m.files

\* albumBuffer.add: the first photo starts the timer, another one restarts it.
Add(h, f) ==
    /\ albums' = [albums EXCEPT ![Message(h).album] = Append(@, [id |-> job[h].id, file |-> f, from |-> Message(h)])]
    /\ job' = [job EXCEPT ![h] = Resting]
    /\ accepted' = accepted \cup job[h].from

\* Telegram: storeTelegramFile; no file means no update.
StoreTelegramFile(h) ==
    /\ Message(h).messenger = "telegram"
    /\ \E kept \in Kept(Message(h)) :
          IF Message(h).album # "" /\ kept # {}
          THEN Add(h, CHOOSE f \in kept : TRUE)
          ELSE Build(h, kept) /\ UNCHANGED albums

\* Discord: downloadAndStore for each attachment; without one, the text.
DownloadAndStore(h) ==
    /\ Message(h).messenger = "discord"
    /\ \E kept \in Kept(Message(h)) :
          Build(h, IF kept # {} THEN kept ELSE TextInput(Message(h)))
    /\ UNCHANGED albums

\* Mattermost: collectFiles, then the text of the post.
CollectPostFiles(h) ==
    /\ Message(h).messenger = "mattermost"
    /\ \E kept \in Kept(Message(h)) :
          Build(h, IF kept # {} THEN kept ELSE TextInput(Message(h)))
    /\ UNCHANGED albums

\* VK: collectFiles, then the start button or the text.
CollectAttachments(h) ==
    /\ Message(h).messenger = "vk"
    /\ \E kept \in Kept(Message(h)) :
          Build(h, IF kept # {} THEN kept ELSE TextInput(Message(h)))
    /\ UNCHANGED albums

StoreFiles(h) ==
    /\ job[h].pc = "store"
    /\ StoreTelegramFile(h) \/ DownloadAndStore(h) \/ CollectPostFiles(h) \/ CollectAttachments(h)
    /\ UNCHANGED Quiet

\* collectAlbumFiles: the files and messages of the buffered entries.
CollectAlbumFiles(entries) ==
    [files |-> {entries[i].file : i \in DOMAIN entries}, from |-> {entries[i].from : i \in DOMAIN entries}]

\* Variant for the mutants: an album's update carries the id of the album.
AlbumIdOf(a) == a

AlbumUpdateId(a) == albums[a][1].id

\* The timer fires: the album leaves the buffer, and one update is dispatched.
FlushAlbum(h, a) ==
    /\ Free(h)
    /\ albums[a] # <<>>
    /\ LET album == CollectAlbumFiles(albums[a]) IN
       job' = [job EXCEPT ![h] = [pc |-> "mark", id |-> AlbumUpdateId(a), parts |-> album.files, from |-> album.from]]
    /\ albums' = [albums EXCEPT ![a] = <<>>]
    /\ UNCHANGED <<accepted, Quiet>>

-----------------------------------------------------------------------------
(* The middleware and the manager. *)

\* SetNX: the first one marks and goes on, a duplicate returns, and a Redis
\* that fails lets the update pass.
Middleware(h) ==
    /\ job[h].pc = "mark"
    /\ \/ /\ job[h].id \notin marks
          /\ marks' = marks \cup {job[h].id}
          /\ GoTo(h, "manager")
          /\ UNCHANGED <<lapsed, faults>>
       \/ /\ job[h].id \in marks
          /\ job' = [job EXCEPT ![h] = Resting]
          /\ UNCHANGED <<marks, lapsed, faults>>
       \/ /\ Fault
          /\ GoTo(h, "manager")
          /\ lapsed' = lapsed \cup {job[h].id}
          /\ UNCHANGED marks
    /\ UNCHANGED <<traffic, albums, knownChats, delivered, handed, accepted, lost, restarts, chatRows, registry>>

\* manager.OnUpdate; its error is only logged.
OnUpdate(h) ==
    /\ job[h].pc = "manager"
    /\ handed' = [p \in Parts |-> IF p \in job[h].parts THEN handed[p] + 1 ELSE handed[p]]
    /\ job' = [job EXCEPT ![h] = Resting]
    /\ UNCHANGED <<traffic, albums, knownChats, marks, delivered, accepted, lapsed, lost, restarts, registryVars>>

\* The mark of an update lives five minutes.
MarkExpires ==
    /\ Fault
    /\ \E id \in marks :
          /\ marks' = marks \ {id}
          /\ lapsed' = lapsed \cup {id}
    /\ UNCHANGED <<traffic, job, albums, knownChats, delivered, handed, accepted, lost, restarts, chatRows, registry>>

\* The process stops and starts again: Redis and the database remain.
Restart ==
    /\ restarts < MaxRestarts
    /\ restarts' = restarts + 1
    /\ lost' = lost \cup (UNION {job[h].from : h \in Handlers})
                    \cup (UNION {CollectAlbumFiles(albums[a]).from : a \in AlbumIds})
    /\ job' = [h \in Handlers |-> Resting]
    /\ albums' = [a \in AlbumIds |-> <<>>]
    /\ registry' = [h \in Handlers |-> NoCall]
    /\ knownChats' = {}
    /\ UNCHANGED <<traffic, marks, delivered, handed, accepted, lapsed, chatRows, faults>>

InboxNext ==
    \/ \E h \in Handlers :
          \/ Deliver(h)
          \/ EnsureChatRegistered(h)
          \/ ChatRegistered(h)
          \/ RegistryStep(h) /\ UNCHANGED <<job, knownChats, marks, Collected>>
          \/ InputGiven(h)
          \/ CollectInput(h)
          \/ StoreFiles(h)
          \/ \E a \in AlbumIds : FlushAlbum(h, a)
          \/ Middleware(h)
          \/ OnUpdate(h)
    \/ MarkExpires
    \/ Restart

InboxSpec == InboxInit /\ [][InboxNext]_inboxVars

-----------------------------------------------------------------------------
(* Properties. *)

AtRest == (\A h \in Handlers : Free(h)) /\ (\A a \in AlbumIds : albums[a] = <<>>)

\* The platform delivered a photo of this message's album more than once: the
\* buffer then builds other updates out of the same photos.
Regrouped(m) == m.album # "" /\ \E n \in traffic : n.album = m.album /\ delivered[n] > 1

\* Redelivered, concurrent and late messages reach the manager exactly once.
\* Nothing of a message is handed over twice unless its mark lapsed, and once
\* the handlers rest every message an update was built of has been handed over
\* unless the process stopped over it: a photo that misses the flush of its
\* album is neither dropped as a duplicate nor sent twice.
UpdatesReachManager ==
    \A m \in traffic : ~Regrouped(m) =>
        /\ m.id \notin lapsed => \A p \in Contents(m) : handed[p] <= 1
        /\ AtRest /\ m \in accepted \ lost => \E p \in Contents(m) : handed[p] >= 1

\* A chat a bot takes for known has a row, or is being registered: after a
\* failed registration the next message tries again.
KnownChatsRegistered ==
    \A c \in knownChats :
        FindChat(c) # {} \/ \E h \in Handlers : registry[h].chat = c

=============================================================================
