----------------------------- MODULE CommandDSL -----------------------------
(***************************************************************************)
(* The command tree of internal/state/dsl.go and the list of steps active  *)
(* for given parameters.  A predicate is the set of <<parameter, value>>   *)
(* pairs that must all hold.                                               *)
(***************************************************************************)
EXTENDS Sequences, Naturals

Holds(pred, p) == \A q \in pred : p[q[1]] = q[2]

StepNode(x, cond) == [node |-> "step", param |-> x, cond |-> cond]
(* Cases: sequence of [value, nodes]; Default: sequence of nodes.          *)
BranchNode(x, cases, default) ==
    [node |-> "branch", param |-> x, cases |-> cases, default |-> default]
(* Cases: sequence of [cond, nodes].                                       *)
ConditionalBranchNode(cases, default) ==
    [node |-> "conditional", cases |-> cases, default |-> default]

First(s, Test(_)) ==
    LET hits == {i \in DOMAIN s : Test(s[i])} IN
    IF hits = {} THEN 0 ELSE CHOOSE i \in hits : \A j \in hits : i <= j

(* flattenNodes: the first case that matches, or else the default.  A      *)
(* conditional case without nodes falls through to the default.            *)
RECURSIVE FlattenNodes(_, _)
FlattenNodes(nodes, p) ==
    IF nodes = <<>> THEN <<>>
    ELSE LET n == Head(nodes)
             Matches(c) == IF n.node = "branch" THEN p[n.param] = c.value ELSE Holds(c.cond, p)
             k == First(n.cases, Matches)
             chosen == IF k = 0 \/ (n.node = "conditional" /\ n.cases[k].nodes = <<>>)
                       THEN n.default ELSE n.cases[k].nodes
             this == IF n.node # "step" THEN FlattenNodes(chosen, p)
                     ELSE IF Holds(n.cond, p) THEN <<n.param>> ELSE <<>>
         IN  this \o FlattenNodes(Tail(nodes), p)
=============================================================================
