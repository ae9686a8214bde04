------------------------------- MODULE Dialog -------------------------------
(***************************************************************************)
(* The command dialog of one user: the channel manager                     *)
(* (internal/channel/manager.go, state_adapter.go), the state manager      *)
(* (internal/state/manager.go), the DSL handler with back navigation       *)
(* (dsl_handler.go, navigation.go, dsl.go), the Redis entry                *)
(* (state/storage/redis.go) and core.plugins / core.resume.                *)
(*                                                                         *)
(* The bots hand each update to a goroutine of its own, so several updates *)
(* of one user are in progress at once: a worker is one of them, and its   *)
(* steps are its Redis calls.                                              *)
(***************************************************************************)
EXTENDS CommandSteps, Integers

CONSTANTS
    Menu,         \* core.plugins: asks for a plugin, then for its command
    Start,        \* core.start: immediate
    PluginOf,     \* PluginOf[c]: plugin ID of a command that is not core's
    Reloadable,   \* plugins that are disabled and enabled meanwhile
    Paginated,    \* Paginated[c]: parameters of c with a PaginationConfig
    PageNext, PagePrev,
    Chats,
    Workers,
    MaxToken,     \* bound on navigation tokens
    MaxPage,      \* bound on pages
    MaxFaults,    \* bound on failed Redis calls
    ExpiresMidUpdate,  \* may the TTL run out between a load and its save?
    NoDialog, NoChat

Core == {Menu, Start, Resume}

(* model.DialogState; a missing one is a nil pointer, and no dialog.       *)
Snapshots == [params : ParamMaps, pages : [Params -> Nat]]
DialogStates == [cmd : Commands, chat : Chats, params : ParamMaps, pages : [Params -> Nat],
                 hist : Seq(Snapshots), token : Nat, id : Nat]
(* What is left of one without tokens and pages (View below).              *)
Views == [cmd : Commands, chat : Chats, params : ParamMaps, past : Seq(ParamMaps)]

ASSUME DialogAssumption ==
    /\ Core \subseteq Commands /\ AllowBack \cap Core = {}
    /\ PluginOf \in [Commands \ Core -> Values]
    /\ Reloadable \subseteq Values
    /\ Paginated \in [Commands -> SUBSET Params]
    /\ NoChat \notin Chats /\ NoDialog \notin DialogStates \cup Views
    /\ MaxToken \in Nat /\ MaxPage \in Nat /\ MaxFaults \in Nat
    /\ ExpiresMidUpdate \in BOOLEAN

(* core.plugins asks for the plugin and for its command, whatever the      *)
(* answers are.                                                            *)
ASSUME MenuAssumption ==
    \E x, y \in Params : x # y /\ \A p \in ParamMaps : ActiveSteps[Menu][p] = <<x, y>>

Tokens == 1..MaxToken
Inputs ==
    [kind : {"command"}, cmd : Commands]
      \cup [kind : {"answer"}, value : Values]
      \cup [kind : {"back"}, token : Tokens]

VARIABLES
    store,       \* the Redis entry of the user
    registered,  \* commands known to state.Manager
    issued,      \* number of navigation tokens made so far
    task,        \* task[w]: the update in progress
    faults,
    \* history, read by the properties and for what the user can press
    shown,       \* prompts sent with a Back button: token and step
    performed,   \* dialogs (by id) whose command was handed to its plugin
    repeated     \* those handed over more than once

vars == <<store, registered, issued, task, faults, shown, performed, repeated>>

-----------------------------------------------------------------------------
FirstPages == [x \in Params |-> 0]

IsCommandImmediate(c) == c \in registered /\ IsComplete(c, NoAnswers)
IsPreservesDialog(c) == c \in registered /\ c = Resume

(* model.DialogState, from CreateNewState and the fields StartCommand      *)
(* adds.  hist: the params and pages before each answer; id, the token it  *)
(* was created with, is for the properties only.                           *)
NewState(c, chat, t) ==
    [cmd |-> c, chat |-> chat, params |-> NoAnswers, pages |-> FirstPages,
     hist |-> <<>>, token |-> t, id |-> t]

(* What a prompt with a Back button shows.                                 *)
Prompt(d) == [token |-> d.token, cmd |-> d.cmd, params |-> d.params, depth |-> Len(d.hist)]

Continue(d) == [out |-> "save", ds |-> d]
Cancelled(d) == [out |-> "cancel", ds |-> d]

(* Mutant: at the first step the command counts as complete.               *)
NavigateBackCompletes(d, token, t) ==
    LET n == Len(d.hist) IN
    IF d.cmd \notin AllowBack \/ token # d.token THEN Continue(d)
    ELSE IF n = 0 THEN [out |-> "complete", ds |-> d]
    ELSE Continue([d EXCEPT !.params = d.hist[n].params, !.pages = d.hist[n].pages,
                            !.hist = SubSeq(d.hist, 1, n - 1), !.token = t])

(* Mutant: the restored snapshot stays in the history.                     *)
NavigateBackKeepsHistory(d, token, t) ==
    LET n == Len(d.hist) IN
    IF d.cmd \notin AllowBack \/ token # d.token THEN Continue(d)
    ELSE IF n = 0 THEN Cancelled(d)
    ELSE Continue([d EXCEPT !.params = d.hist[n].params, !.pages = d.hist[n].pages, !.token = t])

(* navigateBack: an old button re-renders the step, at the first step the  *)
(* command is cancelled, otherwise the last snapshot is restored.          *)
NavigateBack(d, token, t) ==
    LET n == Len(d.hist) IN
    IF d.cmd \notin AllowBack \/ token # d.token THEN Continue(d)
    ELSE IF n = 0 THEN Cancelled(d)
    ELSE Continue([d EXCEPT !.params = d.hist[n].params, !.pages = d.hist[n].pages,
                            !.hist = SubSeq(d.hist, 1, n - 1), !.token = t])

TurnPage(d, x, button) ==
    LET n == d.pages[x] IN
    [d EXCEPT !.pages[x] = IF button = PageNext THEN n + 1 ELSE IF n > 0 THEN n - 1 ELSE 0]

(* Mutant: the Back button of the answered step stays valid.               *)
RecordKeepsToken(d, x, v, t) ==
    [d EXCEPT !.params[x] = v,
              !.hist = IF d.cmd \in AllowBack
                       THEN Append(@, [params |-> d.params, pages |-> d.pages]) ELSE @]

(* Mutant: the snapshot is taken after the answer was stored.              *)
RecordSnapshotsLate(d, x, v, t) ==
    LET e == [d EXCEPT !.params[x] = v] IN
    IF d.cmd \in AllowBack
    THEN [e EXCEPT !.hist = Append(@, [params |-> e.params, pages |-> e.pages]), !.token = t]
    ELSE e

(* An accepted answer: the snapshot and the new token come first.          *)
Record(d, x, v, t) ==
    LET e == IF d.cmd \in AllowBack
             THEN [d EXCEPT !.hist = Append(@, [params |-> d.params, pages |-> d.pages]), !.token = t]
             ELSE d
    IN  [e EXCEPT !.params[x] = v]

(* Mutant: completeness is judged by the steps active before the answer.   *)
ProcessInputOldSteps(d, i, t) ==
    LET x == CurrentStep(d.cmd, d.params)
        answered == Record(d, x, i.value, t)
        before == ActiveSteps[d.cmd][d.params]
    IN  IF i.kind = "back" THEN NavigateBack(d, i.token, t)
        ELSE IF x = NoParam THEN [out |-> "complete", ds |-> d]
        ELSE IF x \in Paginated[d.cmd] /\ i.value \in {PageNext, PagePrev}
             THEN Continue(TurnPage(d, x, i.value))
        ELSE IF i.value \notin Accepts[d.cmd][x] THEN Continue(d)
        ELSE [out |-> IF x = before[Len(before)] THEN "complete" ELSE "save", ds |-> answered]

(* DslStateHandler.ProcessInput; t is the token newNavigationToken makes.  *)
ProcessInput(d, i, t) ==
    LET x == CurrentStep(d.cmd, d.params)
        answered == Record(d, x, i.value, t)
    IN  IF i.kind = "back" THEN NavigateBack(d, i.token, t)
        ELSE IF x = NoParam THEN [out |-> "complete", ds |-> d]
        ELSE IF x \in Paginated[d.cmd] /\ i.value \in {PageNext, PagePrev}
             THEN Continue(TurnPage(d, x, i.value))
        ELSE IF i.value \notin Accepts[d.cmd][x] THEN Continue(d)
        ELSE [out |-> IF IsComplete(d.cmd, answered.params) THEN "complete" ELSE "save",
              ds |-> answered]

-----------------------------------------------------------------------------
(* pc names the next Redis call (or the dispatch) of the update.  auto:    *)
(* ProcessInput was called by tryReturnToPluginMenu; back: the update is a *)
(* press of a Back button.                                                 *)
Steps == {"idle", "clear", "start", "load", "save", "complete", "cancel", "menu",
          "dispatch", "peek", "relocate", "resave"}
NoInput == [kind |-> "none"]
Update(pc, chat, i, c) ==
    [pc |-> pc, chat |-> chat, in |-> i, cmd |-> c, ds |-> NoDialog, auto |-> FALSE,
     back |-> i.kind = "back"]
Idle == Update("idle", NoChat, NoInput, Menu)

Init ==
    /\ store = NoDialog
    /\ registered = Commands
    /\ issued = 0
    /\ task = [w \in Workers |-> Idle]
    /\ faults = 0
    /\ shown = {} /\ performed = {} /\ repeated = {}

Goto(w, pc) == task' = [task EXCEPT ![w].pc = pc]
Finish(w) == task' = [task EXCEPT ![w] = Idle]

(* Save, after which the prompt of d is sent; it has a Back button with    *)
(* d's token if the command allows it.                                     *)
Show(d) == shown' = IF d.cmd \in AllowBack THEN shown \cup {Prompt(d)} ELSE shown
Save(d) == store' = d
Delete == store' = NoDialog
Fresh == issued + 1
(* ProcessInput makes at most one token.                                   *)
CountToken(d) == issued' = IF d.token = Fresh THEN Fresh ELSE issued

(* OnUpdate, for a command that resolves and is authorized.  A command     *)
(* that does not changes nothing.                                          *)
OnCommand(w, chat, c) ==
    /\ task[w].pc = "idle"
    /\ task' = [task EXCEPT ![w] = Update(IF IsPreservesDialog(c) THEN "start" ELSE "clear",
                                          chat, [kind |-> "command", cmd |-> c], c)]
    /\ UNCHANGED <<store, registered, issued, faults, shown, performed, repeated>>

(* OnUpdate, for any other input: a text, an option button, or a Back      *)
(* button of a prompt that was sent once.                                  *)
OnInput(w, chat, i) ==
    /\ task[w].pc = "idle"
    /\ i.kind = "back" => \E p \in shown : p.token = i.token
    /\ task' = [task EXCEPT ![w] = Update("load", chat, i, Menu)]
    /\ UNCHANGED <<store, registered, issued, faults, shown, performed, repeated>>

(* handleCommand: CancelCommand.                                           *)
Clear(w) ==
    /\ task[w].pc = "clear"
    /\ Delete
    /\ Goto(w, "start")
    /\ UNCHANGED <<registered, issued, faults, shown, performed, repeated>>

(* StateManagerAdapter.StartCommand of an immediate command.               *)
StartImmediate(w) ==
    LET c == task[w].cmd IN
    /\ task[w].pc = "start" /\ IsCommandImmediate(c)
    /\ store' = IF IsPreservesDialog(c) THEN store ELSE NoDialog
    /\ Goto(w, "dispatch")
    /\ UNCHANGED <<registered, issued, faults, shown, performed, repeated>>

(* StateManagerAdapter.StartCommand of a command with steps.               *)
StartDialog(w) ==
    LET c == task[w].cmd
        d == NewState(c, task[w].chat, Fresh)
    IN
    /\ task[w].pc = "start" /\ c \in registered /\ ~IsCommandImmediate(c)
    /\ issued < MaxToken
    /\ issued' = Fresh
    /\ Save(d) /\ Show(d)
    /\ Finish(w)
    /\ UNCHANGED <<registered, faults, performed, repeated>>

(* ErrCommandNotFound                                                      *)
StartUnknown(w) ==
    /\ task[w].pc = "start" /\ task[w].cmd \notin registered
    /\ Finish(w)
    /\ UNCHANGED <<store, registered, issued, faults, shown, performed, repeated>>

(* Manager.ProcessInput without a dialog, with one of another chat, or     *)
(* with one whose command is gone.                                         *)
LoadNothing(w) ==
    /\ task[w].pc = "load"
    /\ \/ store = NoDialog
       \/ store # NoDialog /\ store.chat # task[w].chat
       \/ store # NoDialog /\ store.chat = task[w].chat /\ store.cmd \notin registered
    /\ Finish(w)
    /\ UNCHANGED <<store, registered, issued, faults, shown, performed, repeated>>

(* Manager.ProcessInput up to the first write.                             *)
Load(w) ==
    /\ task[w].pc = "load" /\ store # NoDialog
    /\ store.chat = task[w].chat /\ store.cmd \in registered
    /\ issued < MaxToken
    /\ LET r == ProcessInput(store, task[w].in, Fresh) IN
       /\ \A x \in Params : r.ds.pages[x] <= MaxPage
       /\ CountToken(r.ds)
       /\ task' = [task EXCEPT ![w].pc = r.out, ![w].in = NoInput, ![w].cmd = r.ds.cmd,
                               ![w].ds = IF r.out = "cancel" THEN NoDialog ELSE r.ds]
    /\ UNCHANGED <<store, registered, faults, shown, performed, repeated>>

(* ... the dialog goes on                                                  *)
SaveNext(w) ==
    /\ task[w].pc = "save"
    /\ Save(task[w].ds) /\ Show(task[w].ds)
    /\ Finish(w)
    /\ UNCHANGED <<registered, issued, faults, performed, repeated>>

(* Mutant: the dialog of a completed command stays in Redis.               *)
CompleteKeepsDialog(w) ==
    /\ task[w].pc = "complete"
    /\ IF task[w].auto THEN Finish(w) ELSE Goto(w, "dispatch")
    /\ UNCHANGED <<store, registered, issued, faults, shown, performed, repeated>>

(* ... it is complete.  tryReturnToPluginMenu does not look at IsComplete. *)
CompleteDelete(w) ==
    /\ task[w].pc = "complete"
    /\ Delete
    /\ IF task[w].auto THEN Finish(w) ELSE Goto(w, "dispatch")
    /\ UNCHANGED <<registered, issued, faults, shown, performed, repeated>>

(* ... it is cancelled: CancelCommand, StartCommand of core.plugins and    *)
(* ProcessInput again, with the plugin ID as the answer.                   *)
CancelDelete(w) ==
    /\ task[w].pc = "cancel"
    /\ Delete
    /\ Goto(w, "menu")
    /\ UNCHANGED <<registered, issued, faults, shown, performed, repeated>>

(* StartCommand of core.plugins, by a cancelled dialog or by               *)
(* tryReturnToPluginMenu; the prompt is not sent, the plugin's ID is its   *)
(* first answer.                                                           *)
OpenMenu(w) ==
    /\ task[w].pc = "menu"
    /\ issued < MaxToken
    /\ issued' = Fresh
    /\ Save(NewState(Menu, task[w].chat, Fresh))
    /\ task' = [task EXCEPT ![w].pc = "load",
                            ![w].in = [kind |-> "answer", value |-> PluginOf[task[w].cmd]]]
    /\ UNCHANGED <<registered, faults, shown, performed, repeated>>

(* dispatchCompletedCommand.  Whether the plugin fails or not,             *)
(* tryReturnToPluginMenu follows; core.resume has a handler that works on  *)
(* the dialog.                                                             *)
Dispatch(w) ==
    LET c == task[w].cmd
        d == task[w].ds
    IN
    /\ task[w].pc = "dispatch"
    /\ performed' = IF d = NoDialog THEN performed ELSE performed \cup {d.id}
    /\ repeated' = IF d = NoDialog THEN repeated ELSE repeated \cup ({d.id} \cap performed)
    /\ IF c = Resume THEN Goto(w, "peek")
       ELSE IF c \in {Menu, Start} THEN Finish(w)
       ELSE task' = [task EXCEPT ![w].pc = "menu", ![w].ds = NoDialog, ![w].auto = TRUE]
    /\ UNCHANGED <<store, registered, issued, faults, shown>>

(* handleResume: GetCurrentStepMessage, whose prompt is sent at the end    *)
(* and is counted as shown from here on.                                   *)
Peek(w) ==
    /\ task[w].pc = "peek"
    /\ IF store = NoDialog \/ store.cmd \notin registered
       THEN Finish(w) /\ UNCHANGED shown
       ELSE Goto(w, "relocate") /\ Show(store)
    /\ UNCHANGED <<store, registered, issued, faults, performed, repeated>>

(* RelocateDialog                                                          *)
Relocate(w) ==
    /\ task[w].pc = "relocate"
    /\ IF store = NoDialog THEN Finish(w)
       ELSE task' = [task EXCEPT ![w].pc = "resave", ![w].ds = [store EXCEPT !.chat = task[w].chat]]
    /\ UNCHANGED <<store, registered, issued, faults, shown, performed, repeated>>

Resave(w) ==
    /\ task[w].pc = "resave"
    /\ Save(task[w].ds)
    /\ Finish(w)
    /\ UNCHANGED <<registered, issued, faults, shown, performed, repeated>>

(* The CancelCommand of an immediate command.                              *)
Dropping(w) ==
    task[w].pc = "start" /\ IsCommandImmediate(task[w].cmd) /\ ~IsPreservesDialog(task[w].cmd)

(* What the Redis call of w writes, with the tokens made by then.          *)
Written(w) ==
    LET pc == task[w].pc
        new == [ds |-> NewState(IF pc = "menu" THEN Menu ELSE task[w].cmd, task[w].chat, Fresh),
                issued |-> Fresh]
    IN  CASE pc \in {"clear", "complete", "cancel"} \/ Dropping(w) ->
               [ds |-> NoDialog, issued |-> issued]
          [] pc \in {"save", "resave"} -> [ds |-> task[w].ds, issued |-> issued]
          [] pc \in {"start", "menu"} /\ ~Dropping(w) -> new
          [] OTHER -> [ds |-> store, issued |-> issued]

(* A Redis call fails, with or without effect: the update ends with an     *)
(* error, except that handleCommand and StartCommand of an immediate       *)
(* command ignore the error of CancelCommand.                              *)
RedisError(w) ==
    /\ task[w].pc \in Steps \ {"idle", "dispatch"}
    /\ task[w].pc = "start" => task[w].cmd \in registered \ {Resume}
    /\ faults < MaxFaults
    /\ faults' = faults + 1
    /\ \/ UNCHANGED <<store, issued>>
       \/ /\ Written(w).issued <= MaxToken
          /\ issued' = Written(w).issued
          /\ store' = Written(w).ds
    /\ IF task[w].pc = "clear" THEN Goto(w, "start")
       ELSE IF Dropping(w) THEN Goto(w, "dispatch")
       ELSE Finish(w)
    /\ UNCHANGED <<registered, shown, performed, repeated>>

(* The TTL of 30 minutes runs out.                                         *)
Expire ==
    /\ store # NoDialog
    /\ ExpiresMidUpdate \/ \A w \in Workers : task[w].pc = "idle"
    /\ Delete
    /\ UNCHANGED <<registered, issued, task, faults, shown, performed, repeated>>

CommandsOf(p) == {c \in Commands \ Core : PluginOf[c] = p}

(* UnregisterAllCommands and RegisterCommand, when a plugin is disabled,   *)
(* reloaded or enabled.                                                    *)
Unregister(p) ==
    /\ CommandsOf(p) \cap registered # {}
    /\ registered' = registered \ CommandsOf(p)
    /\ UNCHANGED <<store, issued, task, faults, shown, performed, repeated>>

Register(p) ==
    /\ CommandsOf(p) \ registered # {}
    /\ registered' = registered \cup CommandsOf(p)
    /\ UNCHANGED <<store, issued, task, faults, shown, performed, repeated>>

-----------------------------------------------------------------------------
Handle(w) ==
    \/ Clear(w) \/ StartImmediate(w) \/ StartDialog(w) \/ StartUnknown(w)
    \/ LoadNothing(w) \/ Load(w) \/ SaveNext(w) \/ CompleteDelete(w)
    \/ CancelDelete(w) \/ OpenMenu(w)
    \/ Dispatch(w) \/ Peek(w) \/ Relocate(w) \/ Resave(w)

Next ==
    \/ \E w \in Workers, chat \in Chats :
          \/ \E c \in Commands : OnCommand(w, chat, c)
          \/ \E i \in Inputs : i.kind # "command" /\ OnInput(w, chat, i)
    \/ \E w \in Workers : Handle(w) \/ RedisError(w)
    \/ Expire
    \/ \E p \in Reloadable : Unregister(p) \/ Register(p)

Spec == Init /\ [][Next]_vars

-----------------------------------------------------------------------------
(* A Back button whose token the stored dialog accepts was sent with       *)
(* exactly the step the dialog is at: whatever the interleaving of         *)
(* updates, a button of another step, or of another dialog, is an old one. *)
TokenIdentifiesStep ==
    store # NoDialog /\ store.cmd \in AllowBack =>
        \A p \in shown : p.token = store.token => p = Prompt(store)

(* d's history is the path of its answers: it starts without any, and each *)
(* snapshot differs from what follows by one accepted answer to the step   *)
(* that was current.                                                       *)
IsPath(d) ==
    LET n == Len(d.hist)
        At(i) == IF i = n + 1 THEN d.params ELSE d.hist[i].params
        x(i) == CurrentStep(d.cmd, At(i))
    IN  /\ At(1) = NoAnswers
        /\ \A i \in 1..n : /\ x(i) # NoParam
                           /\ \E v \in Accepts[d.cmd][x(i)] :
                                 At(i + 1) = [At(i) EXCEPT ![x(i)] = v]

(* Back always leads to the step before the current one, with the answers  *)
(* given then, down to the first step.                                     *)
BackRetracesAnswers ==
    store # NoDialog /\ store.cmd \in AllowBack => IsPath(store)

(* A command is handed to its plugin only when no active step lacks an     *)
(* answer, those included that its last answer made active.                *)
DispatchedIsComplete ==
    \A w \in Workers : task[w].pc = "dispatch" =>
        IsComplete(task[w].cmd, IF task[w].ds = NoDialog THEN NoAnswers ELSE task[w].ds.params)

(* Pressing Back never runs a plugin's command: BACK_NAVIGATION.md, "At    *)
(* the first step the manager cancels without dispatching the plugin       *)
(* handler".                                                               *)
BackNeverDispatches ==
    \A w \in Workers : task[w].pc = "dispatch" => ~task[w].back

(* One dialog runs its command at most once: ProcessInput deletes it before *)
(* the command is dispatched, and a failed Delete dispatches nothing.      *)
DispatchAtMostOnce == repeated = {}

(* The dialog without tokens and pages, and the commands about to run.     *)
View(d) ==
    IF d = NoDialog THEN NoDialog
    ELSE [cmd |-> d.cmd, chat |-> d.chat, params |-> d.params,
          past |-> [i \in 1..Len(d.hist) |-> d.hist[i].params]]
Owed == { [cmd |-> task[w].cmd,
           params |-> IF task[w].ds = NoDialog THEN NoAnswers ELSE task[w].ds.params] :
              w \in {v \in Workers : task[v].pc = "dispatch"} }

Abstract == INSTANCE Conversation WITH dialog <- View(store), owed <- Owed

(* Updates handled one after the other implement the conversation, through *)
(* failed Redis calls, expiry, pages, old buttons, moves between chats and *)
(* plugins that come and go.                                               *)
ImplementsConversation == Abstract!Spec
=============================================================================
