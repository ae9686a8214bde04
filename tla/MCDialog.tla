------------------------------ MODULE MCDialog ------------------------------
(* Model-checking instance of Dialog.  book: a choice that opens or skips  *)
(* a paginated step and, depending on its answer, a third one, with Back;  *)
(* note: one text that is not validated.                                   *)
EXTENDS Dialog, CommandDSL, TLC

CONSTANTS book, note, pa, pb, pd, yes, no, next, prev, shop

MCCommands == {book, note} \cup Core
MCPluginOf == [c \in {book, note} |-> shop]
MCParams == {pa, pb, pd}

Nodes == [c \in MCCommands |->
    CASE c = book -> << StepNode(pa, {}),
                        BranchNode(pa, <<[value |-> yes, nodes |-> <<StepNode(pb, {})>>]>>, <<>>),
                        ConditionalBranchNode(
                            <<[cond |-> {<<pb, yes>>}, nodes |-> <<StepNode(pd, {<<pa, yes>>})>>]>>,
                            <<>>) >>
      [] c = note -> << StepNode(pa, {}) >>
      [] c = Menu -> << StepNode(pa, {}), StepNode(pb, {}) >>
      [] OTHER -> <<>>]

MCActiveSteps == [c \in MCCommands |-> [p \in [MCParams -> Values \cup {Unset}] |->
                     FlattenNodes(Nodes[c], p)]]
MCAccepts == [c \in MCCommands |-> [x \in MCParams |->
                 IF c = book THEN {yes, no} ELSE Values]]
MCPaginated == [c \in MCCommands |->
                   IF c = book THEN {pb} ELSE IF c = Menu THEN {pa, pb} ELSE {}]

Symmetry == Permutations(Workers)
=============================================================================
