---------------------------- MODULE Conversation ----------------------------
(***************************************************************************)
(* What a user may expect of a command dialog: at most one command is      *)
(* being filled in, answers go to its current step, Back takes the last    *)
(* answer away, and the command runs once, when its last step is answered. *)
(***************************************************************************)
EXTENDS CommandSteps

CONSTANTS Chats, NoDialog

VARIABLES
    dialog,  \* the command being filled in: its answers and the earlier ones
    owed     \* commands filled in and not run yet

vars == <<dialog, owed>>

Init == dialog = NoDialog /\ owed = {}

Open(c, chat) ==
    /\ ~IsComplete(c, NoAnswers)
    /\ dialog' = [cmd |-> c, chat |-> chat, params |-> NoAnswers, past |-> <<>>]
    /\ UNCHANGED owed

(* Replaced by another command, cancelled or expired.                      *)
Close ==
    /\ dialog' = NoDialog
    /\ UNCHANGED owed

With(v) == [dialog.params EXCEPT ![CurrentStep(dialog.cmd, dialog.params)] = v]

Answer(v) ==
    /\ dialog # NoDialog
    /\ v \in Accepts[dialog.cmd][CurrentStep(dialog.cmd, dialog.params)]
    /\ IF IsComplete(dialog.cmd, With(v))
       THEN /\ dialog' = NoDialog
            /\ owed' = owed \cup {[cmd |-> dialog.cmd, params |-> With(v)]}
       ELSE /\ dialog' = [cmd |-> dialog.cmd, chat |-> dialog.chat, params |-> With(v),
                          past |-> IF dialog.cmd \in AllowBack
                                   THEN Append(dialog.past, dialog.params) ELSE <<>>]
            /\ UNCHANGED owed

Undo ==
    /\ dialog # NoDialog
    /\ dialog.past # <<>>
    /\ LET n == Len(dialog.past) IN
       dialog' = [cmd |-> dialog.cmd, chat |-> dialog.chat, params |-> dialog.past[n],
                  past |-> SubSeq(dialog.past, 1, n - 1)]
    /\ UNCHANGED owed

Move(chat) ==
    /\ dialog # NoDialog
    /\ dialog' = [dialog EXCEPT !.chat = chat]
    /\ UNCHANGED owed

(* A command without steps; only core.resume leaves the dialog as it is.   *)
Ask(c) ==
    /\ IsComplete(c, NoAnswers)
    /\ owed' = owed \cup {[cmd |-> c, params |-> NoAnswers]}
    /\ dialog' = IF c = Resume THEN dialog ELSE NoDialog

(* ... and so does one whose removal of the dialog failed: the error is    *)
(* ignored and the command runs all the same.                              *)
AskBesides(c) ==
    /\ IsComplete(c, NoAnswers)
    /\ owed' = owed \cup {[cmd |-> c, params |-> NoAnswers]}
    /\ UNCHANGED dialog

Run(o) ==
    /\ o \in owed
    /\ owed' = owed \ {o}
    /\ UNCHANGED dialog

Next ==
    \/ \E c \in Commands : Ask(c) \/ AskBesides(c) \/ \E chat \in Chats : Open(c, chat)
    \/ \E v \in Values : Answer(v)
    \/ \E chat \in Chats : Move(chat)
    \/ \E o \in owed : Run(o)
    \/ Undo \/ Close

Spec == Init /\ [][Next]_vars
=============================================================================
