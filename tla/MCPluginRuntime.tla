--------------------------- MODULE MCPluginRuntime ---------------------------
(* The loader of one plugin with its calls and administrators, the SQL and *)
(* KV calls of its executions, the files it reads and the in-memory bus it *)
(* publishes to.  They share no state: a behaviour runs one of them.       *)
EXTENDS PluginLoader, HostCalls, FileStore, MemoryBus, TLC

CONSTANTS b1, b2, bx, c1, c2, x1, x2

VARIABLE part

(* Two versions of the plugin, the second with dependencies, and a binary  *)
(* of another plugin.  The second version does not accept c2.              *)
MCMeta ==
    (b1 :> [own |-> TRUE, version |-> 1, deps |-> FALSE,
            reconfigure |-> TRUE, accepts |-> {c1, c2} \cap Configs]) @@
    (b2 :> [own |-> TRUE, version |-> 2, deps |-> TRUE,
            reconfigure |-> FALSE, accepts |-> {c1} \cap Configs]) @@
    (bx :> [own |-> FALSE, version |-> 1, deps |-> FALSE,
            reconfigure |-> FALSE, accepts |-> {c1, c2} \cap Configs])

(* An execution with three SQL calls and one with a single one.            *)
MCCalls == (x1 :> 3) @@ (x2 :> 1)

-----------------------------------------------------------------------------

\* What the resting parts have in Init is one of their initial states.
MCInit ==
    /\ part \in {"loader", "sql", "kv", "files", "bus"}
    /\ Init /\ SqlInit /\ KvInit /\ FileInit /\ BusInit
    /\ part # "loader" => inst = <<>>
    /\ part # "sql" => ~nested

MCNext ==
    \/ part = "loader" /\ Next /\ UNCHANGED <<part, sqlVars, kvVars, fileVars, busVars>>
    \/ part = "sql" /\ SqlStep /\ UNCHANGED <<part, vars, kvVars, fileVars, busVars>>
    \/ part = "kv" /\ KvNext /\ UNCHANGED <<part, vars, sqlVars, fileVars, busVars>>
    \/ part = "files" /\ FileNext /\ UNCHANGED <<part, vars, sqlVars, kvVars, busVars>>
    \/ part = "bus" /\ BusNext /\ UNCHANGED <<part, vars, sqlVars, kvVars, fileVars>>

\* Administrators, file requests and two of the events are the same model values.
Symmetry == Permutations(Admins)
=============================================================================
