---------------------------- MODULE CommandSteps ----------------------------
(***************************************************************************)
(* Command definitions of internal/state/dsl.go as the dialog uses them.   *)
(***************************************************************************)
EXTENDS Naturals, Sequences

CONSTANTS
    Commands,     \* command definitions, core's included
    Params,       \* parameter names
    Values,       \* texts of answers, plugin IDs and page buttons included
    ActiveSteps,  \* ActiveSteps[c][p]: ResolveActiveSteps for parameters p
    Accepts,      \* Accepts[c][x]: values the validation of step x lets pass
    AllowBack,    \* commands with AllowBack
    Resume,       \* core.resume: immediate, the only one with PreservesDialog
    Unset, NoParam

ParamMaps == [Params -> Values \cup {Unset}]

ASSUME CommandAssumption ==
    /\ AllowBack \subseteq Commands /\ Resume \in Commands
    /\ ActiveSteps \in [Commands -> [ParamMaps -> Seq(Params)]]
    /\ Accepts \in [Commands -> [Params -> SUBSET Values]]
    /\ Unset \notin Values /\ NoParam \notin Params

(* CurrentStep: the first active step without an answer.                   *)
CurrentStep(c, p) ==
    LET s == ActiveSteps[c][p]
        open == {i \in DOMAIN s : p[s[i]] = Unset}
    IN  IF open = {} THEN NoParam
        ELSE s[CHOOSE i \in open : \A j \in open : i <= j]

IsComplete(c, p) == CurrentStep(c, p) = NoParam

NoAnswers == [x \in Params |-> Unset]
=============================================================================
