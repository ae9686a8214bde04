---------------------------- MODULE ChatRegistry ----------------------------
(***************************************************************************)
(* The chats the bot has been added to (internal/chat/pg_registry.go) and  *)
(* the join handler that every messenger calls (cmd/bot/placeholders.go).  *)
(*                                                                         *)
(* chat_references has no unique key over channel and chat, and finding a  *)
(* chat and inserting it are two statements: two handlers may each find    *)
(* nothing and insert a row.  A handler h that is inside the registry has  *)
(* its call in registry[h]; the caller goes on once the call is "done" or  *)
(* "failed".  Titles, kinds and locales are data and are left out.         *)
(***************************************************************************)
EXTENDS Naturals, FiniteSets

CONSTANTS
    Handlers,     \* goroutines that handle an event of a messenger
    MaxFaults     \* failures of the database, Redis, a platform per behaviour

VARIABLES
    chatRows,     \* chat_references: a set of <<chat, id>>
    registry,     \* the registry call each handler is in
    faults        \* failures so far

registryVars == <<chatRows, registry, faults>>

NoCall == [op |-> "none", chat |-> "", row |-> <<>>]

RegistryInit ==
    /\ chatRows = {}
    /\ registry = [h \in Handlers |-> NoCall]
    /\ faults = 0

-----------------------------------------------------------------------------

Fault == faults < MaxFaults /\ faults' = faults + 1

Step(h, op) == registry' = [registry EXCEPT ![h].op = op]

Returned(h) == registry[h].op \in {"done", "failed"}

\* The rows of a chat; the query takes any of them.
FindChat(c) == {r \in chatRows : r[1] = c}

FreshRow(c) == <<c, CHOOSE n \in 1..(Cardinality(FindChat(c)) + 1) : <<c, n>> \notin chatRows>>

\* The join handler: OnChatJoin finds or creates, OnChatLeave unregisters.
OnChatJoin(c) == [op |-> "find", chat |-> c, row |-> <<>>]

OnChatLeave(c) == [op |-> "lookup", chat |-> c, row |-> <<>>]

\* A call that meets a failing database returns its error and writes nothing.
DatabaseError(h) ==
    /\ registry[h].op \in {"find", "insert", "lookup", "delete"}
    /\ Fault
    /\ Step(h, "failed")
    /\ UNCHANGED chatRows

\* The first statement: an existing chat ends the call, a missing one is
\* inserted by a second statement.
FindOrCreateChat(h) ==
    /\ registry[h].op = "find"
    /\ Step(h, IF FindChat(registry[h].chat) = {} THEN "insert" ELSE "done")
    /\ UNCHANGED <<chatRows, faults>>

RegisterChat(h) ==
    /\ registry[h].op = "insert"
    /\ chatRows' = chatRows \cup {FreshRow(registry[h].chat)}
    /\ Step(h, "done")
    /\ UNCHANGED faults

\* Only the one row the lookup returned is deleted afterwards.
UnregisterChatByPlatformID(h) ==
    /\ registry[h].op = "lookup"
    /\ \/ FindChat(registry[h].chat) = {} /\ Step(h, "done")
       \/ \E r \in FindChat(registry[h].chat) :
              registry' = [registry EXCEPT ![h].op = "delete", ![h].row = r]
    /\ UNCHANGED <<chatRows, faults>>

\* One transaction over bindings, metadata and the row.
UnregisterChat(h) ==
    /\ registry[h].op = "delete"
    /\ chatRows' = chatRows \ {registry[h].row}
    /\ Step(h, "done")
    /\ UNCHANGED faults

RegistryStep(h) ==
    \/ DatabaseError(h)
    \/ FindOrCreateChat(h)
    \/ RegisterChat(h)
    \/ UnregisterChatByPlatformID(h)
    \/ UnregisterChat(h)

=============================================================================
