---------------------------- MODULE ChannelSend ----------------------------
(***************************************************************************)
(* What the bot writes into a chat: the adapter registry with its retries  *)
(* (internal/channel/registry.go, send.go), the adapters of the four       *)
(* messengers (<messenger>/adapter.go, menu.go) and the dialog menus of    *)
(* the channel manager (manager.go, showDialogMessage), which keep one     *)
(* menu with live buttons in a chat.                                       *)
(*                                                                         *)
(* One chat of one messenger.  A message is [buttons, photos, docs]; it    *)
(* always has text.  Telegram sends it in parts, the others as one post.   *)
(* A request may fail for good or transiently, and the message may have    *)
(* been shown all the same.  Rendering, captions and ids are data.         *)
(***************************************************************************)
EXTENDS Naturals, Sequences, FiniteSets

CONSTANTS
    Messengers,    \* those of "telegram", "discord", "vk", "mattermost" checked
    Prompters,     \* goroutines that show a dialog menu
    Senders,       \* goroutines that send a reply or a notification
    Prompts,       \* messages a dialog shows
    Replies,       \* messages that are sent
    MaxPrompts,    \* menus shown
    MaxTroubles    \* requests that fail

ASSUME ChannelSendAssumption ==
    /\ Messengers \subseteq {"none", "telegram", "discord", "vk", "mattermost"}
    /\ {MaxPrompts, MaxTroubles} \subseteq Nat

VARIABLES
    messenger,     \* the messenger of the chat; "none": no adapter registered
    lastBotMsgID,  \* the tracked menu, 0 when there is none
    live,          \* messages in the chat whose buttons work
    posted,        \* messages in the chat that are not deleted
    prompt,        \* what each prompter is doing
    sending,       \* what each sender is doing
    untracked,     \* menus left behind by a failed request or by a race
    ids,           \* message ids used
    troubles

sendVars == <<messenger, lastBotMsgID, live, posted, prompt, sending, untracked, ids, troubles>>

NoMessage == [buttons |-> FALSE, photos |-> FALSE, docs |-> FALSE]

NoPrompt == [pc |-> "idle", msg |-> NoMessage, old |-> 0, new |-> 0]

NoSend == [pc |-> "idle", msg |-> NoMessage, attempt |-> 0, at |-> 0, shown |-> <<>>,
           silent |-> FALSE, toUser |-> FALSE, transient |-> 0, result |-> "none"]

SendInit ==
    /\ messenger \in Messengers
    /\ lastBotMsgID = 0
    /\ live = {}
    /\ posted = {}
    /\ prompt = [p \in Prompters |-> NoPrompt]
    /\ sending = [s \in Senders |-> NoSend]
    /\ untracked = {}
    /\ ids = 0
    /\ troubles = 0

Trouble == troubles < MaxTroubles /\ troubles' = troubles + 1

-----------------------------------------------------------------------------
(* The adapters. *)

\* Telegram: text unless it is the caption of the photos, then the photos,
\* then the other files, each a request of its own.
TelegramParts(msg) ==
    (IF msg.photos /\ ~msg.buttons THEN <<>> ELSE <<"text">>)
    \o (IF msg.photos THEN <<"photos">> ELSE <<>>)
    \o (IF msg.docs THEN <<"doc">> ELSE <<>>)

\* Discord: text, buttons, embeds and files in one request.
DiscordParts(msg) == <<"post">>

\* VK: the files are uploaded first, then one message.
VkParts(msg) == (IF msg.photos \/ msg.docs THEN <<"upload">> ELSE <<>>) \o <<"post">>

\* Mattermost: the same, with a post.
MattermostParts(msg) == (IF msg.photos \/ msg.docs THEN <<"upload">> ELSE <<>>) \o <<"post">>

PartsOf(msg) ==
    CASE messenger = "telegram" -> TelegramParts(msg)
      [] messenger = "discord" -> DiscordParts(msg)
      [] messenger = "vk" -> VkParts(msg)
      [] messenger = "mattermost" -> MattermostParts(msg)
      [] OTHER -> <<>>

\* Editing a menu: Telegram, Discord and VK refuse a message with media.
EditsMedia == messenger = "mattermost"

\* Discord and VK always replace the buttons, as Telegram does.
EditReplacesButtons(msg) == msg.buttons

\* Mattermost writes the buttons only when there are some: old ones remain.
MattermostEditButtons(msg, old) == msg.buttons \/ old \in live

ButtonsAfterEdit(msg, old) ==
    IF messenger = "mattermost" THEN MattermostEditButtons(msg, old) ELSE EditReplacesButtons(msg)

Shows(id, buttons) == live' = IF buttons THEN live \cup {id} ELSE live \ {id}

-----------------------------------------------------------------------------
(* showDialogMessage: edit the tracked menu, or retire it and send another. *)

OnlyPrompt == <<messenger, sending>>

Act(p, pc) == prompt' = [prompt EXCEPT ![p].pc = pc]

Shown(p) == prompt' = [prompt EXCEPT ![p] = NoPrompt]

Showing(p) == prompt[p].pc # "idle"

\* What a prompt may leave behind when another one is under way.
Held(p) == {prompt[p].old, prompt[p].new}

\* The message to show, and whether the tracked menu may be edited into it.
ShowDialogMessage(p) ==
    /\ ~Showing(p)
    /\ ids < MaxPrompts
    /\ ids' = ids + 1
    /\ \E msg \in Prompts, reuse \in BOOLEAN :
          prompt' = [prompt EXCEPT ![p] =
              [pc |-> IF reuse /\ lastBotMsgID # 0 THEN "edit" ELSE "retire",
               msg |-> msg, old |-> lastBotMsgID, new |-> ids']]
    /\ untracked' = IF \E q \in Prompters : Showing(q)
                    THEN untracked \cup {ids', lastBotMsgID} \cup UNION {Held(q) : q \in Prompters}
                    ELSE untracked
    /\ UNCHANGED <<lastBotMsgID, live, posted, troubles, OnlyPrompt>>

\* EditMessageInChat; a failure falls back to a new message.
EditMessageInChat(p) ==
    /\ prompt[p].pc = "edit"
    /\ LET msg == prompt[p].msg
           old == prompt[p].old
           able == old \in posted /\ (EditsMedia \/ ~(msg.photos \/ msg.docs))
       IN \/ /\ able
             /\ Shows(old, ButtonsAfterEdit(msg, old))
             /\ Shown(p)
             /\ UNCHANGED troubles
          \/ /\ ~able
             /\ Act(p, "retire")
             /\ UNCHANGED <<live, troubles>>
          \/ /\ Trouble
             /\ Act(p, "retire")
             /\ UNCHANGED live
    /\ UNCHANGED <<lastBotMsgID, posted, untracked, ids, OnlyPrompt>>

\* LoadAndDelete of the tracked menu.
RetireDialogMessage(p) ==
    /\ prompt[p].pc = "retire"
    /\ prompt' = [prompt EXCEPT ![p].old = lastBotMsgID,
                                ![p].pc = IF lastBotMsgID = 0 THEN "send" ELSE "delete"]
    /\ lastBotMsgID' = 0
    /\ UNCHANGED <<live, posted, untracked, ids, troubles, OnlyPrompt>>

\* Variant for the mutants: a menu that cannot be deleted keeps its buttons.
NoClear == "send"

AfterFailedDelete == "clear"

DeleteMessageInChat(p) ==
    /\ prompt[p].pc = "delete"
    /\ \/ /\ live' = live \ {prompt[p].old}
          /\ posted' = posted \ {prompt[p].old}
          /\ Act(p, "send")
          /\ UNCHANGED troubles
       \/ /\ Trouble
          /\ Act(p, AfterFailedDelete)
          /\ UNCHANGED <<live, posted>>
    /\ UNCHANGED <<lastBotMsgID, untracked, ids, OnlyPrompt>>

\* The deletion failed: an edit with an empty message takes the buttons away.
ClearButtons(p) ==
    /\ prompt[p].pc = "clear"
    /\ \/ live' = live \ {prompt[p].old} /\ UNCHANGED <<untracked, troubles>>
       \/ Trouble /\ untracked' = untracked \cup {prompt[p].old} /\ UNCHANGED live
    /\ Act(p, "send")
    /\ UNCHANGED <<lastBotMsgID, posted, ids, OnlyPrompt>>

\* SendToChatGetID, without retries.  When a later part fails, or an answer is
\* lost, the menu is in the chat and its id is not known.
SendToChatGetID(p) ==
    /\ prompt[p].pc = "send"
    /\ LET id == prompt[p].new
       IN \/ /\ PartsOf(prompt[p].msg) # <<>>
             /\ Shows(id, prompt[p].msg.buttons)
             /\ posted' = posted \cup {id}
             /\ Act(p, "store")
             /\ UNCHANGED <<untracked, troubles>>
          \/ /\ PartsOf(prompt[p].msg) # <<>>
             /\ Trouble
             /\ Shows(id, prompt[p].msg.buttons)
             /\ posted' = posted \cup {id}
             /\ untracked' = untracked \cup {id}
             /\ Shown(p)
          \/ /\ \/ messenger = "none" /\ UNCHANGED troubles
                \/ messenger # "none" /\ Trouble
             /\ Shown(p)
             /\ UNCHANGED <<live, posted, untracked>>
    /\ UNCHANGED <<lastBotMsgID, ids, OnlyPrompt>>

StoreMessageID(p) ==
    /\ prompt[p].pc = "store"
    /\ lastBotMsgID' = prompt[p].new
    /\ Shown(p)
    /\ UNCHANGED <<live, posted, untracked, ids, troubles, OnlyPrompt>>

-----------------------------------------------------------------------------
(* SendToChat, SendToUser and their variants: withRetry around the adapter. *)

OnlySend == <<messenger, lastBotMsgID, live, posted, prompt, untracked, ids>>

Attempts == 3

\* Telegram and Discord can send without a notification.
SilentSender == messenger \in {"telegram", "discord"}

Begun(msg, silent, toUser) ==
    IF messenger = "none" THEN [NoSend EXCEPT !.pc = "done", !.result = "no_adapter"]
    ELSE [NoSend EXCEPT !.pc = "send", !.msg = msg, !.attempt = 1, !.at = 1, !.silent = silent,
                        !.toUser = toUser, !.shown = [i \in DOMAIN PartsOf(msg) |-> 0]]

SendToChat(s) == \E msg \in Replies : sending' = [sending EXCEPT ![s] = Begun(msg, FALSE, FALSE)]

SendToUser(s) == \E msg \in Replies : sending' = [sending EXCEPT ![s] = Begun(msg, FALSE, TRUE)]

SendToChatWithOpts(s) == \E msg \in Replies :
    sending' = [sending EXCEPT ![s] = Begun(msg, SilentSender, FALSE)]

SendToUserWithOpts(s) == \E msg \in Replies :
    sending' = [sending EXCEPT ![s] = Begun(msg, SilentSender, TRUE)]

BeginSend(s) ==
    /\ sending[s].pc = "idle"
    /\ SendToChat(s) \/ SendToUser(s) \/ SendToChatWithOpts(s) \/ SendToUserWithOpts(s)
    /\ UNCHANGED <<troubles, OnlySend>>

\* A part is shown; after the last one the send has succeeded.
PartSent(s) ==
    /\ sending[s].pc = "send"
    /\ LET job == sending[s]
           seen == [job EXCEPT !.shown[job.at] = @ + 1]
       IN sending' = [sending EXCEPT ![s] =
              IF job.at = Len(PartsOf(job.msg))
              THEN [seen EXCEPT !.pc = "done", !.result = "ok"]
              ELSE [seen EXCEPT !.at = @ + 1]]
    /\ UNCHANGED <<troubles, OnlySend>>

\* isTransient, and attempts left: everything is sent again after a pause.
Again(job) == [job EXCEPT !.pc = "wait", !.transient = @ + 1]

GiveUp(job) == [job EXCEPT !.pc = "done", !.result = "error"]

\* Variant for the mutants: a permanent error is retried as well.
RetriesAnything(job, transient) == IF job.attempt < Attempts THEN [job EXCEPT !.pc = "wait"] ELSE GiveUp(job)

AfterError(job, transient) ==
    IF transient /\ job.attempt < Attempts THEN Again(job) ELSE GiveUp(job)

\* A request fails; the part may be in the chat although the answer was lost.
PartFails(s) ==
    /\ sending[s].pc = "send"
    /\ Trouble
    /\ \E transient \in BOOLEAN, seen \in 0..1 :
          sending' = [sending EXCEPT ![s] =
              AfterError([sending[s] EXCEPT !.shown[sending[s].at] = @ + seen], transient)]
    /\ UNCHANGED OnlySend

\* Discord and Mattermost open a direct channel before the first request.
OpenDirectChannelFails(s) ==
    /\ sending[s].pc = "send"
    /\ sending[s].toUser
    /\ sending[s].at = 1
    /\ messenger \in {"discord", "mattermost"}
    /\ Trouble
    /\ \E transient \in BOOLEAN : sending' = [sending EXCEPT ![s] = AfterError(sending[s], transient)]
    /\ UNCHANGED OnlySend

\* The pause before the next attempt, which a cancelled context ends.
WithRetry(s) ==
    /\ sending[s].pc = "wait"
    /\ \/ sending' = [sending EXCEPT ![s].pc = "send", ![s].attempt = @ + 1, ![s].at = 1]
       \/ sending' = [sending EXCEPT ![s] = GiveUp(@)]
    /\ UNCHANGED <<troubles, OnlySend>>

MenuNext == \E p \in Prompters :
    \/ ShowDialogMessage(p)
    \/ EditMessageInChat(p)
    \/ RetireDialogMessage(p)
    \/ DeleteMessageInChat(p)
    \/ ClearButtons(p)
    \/ SendToChatGetID(p)
    \/ StoreMessageID(p)

ReplyNext == \E s \in Senders :
    \/ BeginSend(s)
    \/ PartSent(s)
    \/ PartFails(s)
    \/ OpenDirectChannelFails(s)
    \/ WithRetry(s)

SendSpec == SendInit /\ [][MenuNext \/ ReplyNext]_sendVars

-----------------------------------------------------------------------------
(* Properties. *)

\* When no prompt is under way, the only menu whose buttons work is the
\* tracked one, except for menus left behind by a lost answer, by two refused
\* requests, or by two prompts at once: a dialog never leaves two menus.
OneLiveMenu ==
    (\A p \in Prompters : ~Showing(p)) => live \ untracked \subseteq {lastBotMsgID}

\* A part of a reply is shown again only after a transient error of an earlier
\* attempt, and a send that reports success has shown every part.
RepeatsAreRetries == \A s \in Senders :
    /\ \A i \in DOMAIN sending[s].shown : sending[s].shown[i] <= 1 + sending[s].transient
    /\ sending[s].result = "ok" => \A i \in DOMAIN sending[s].shown : sending[s].shown[i] >= 1
    /\ sending[s].result = "no_adapter" => sending[s].shown = <<>>

=============================================================================
