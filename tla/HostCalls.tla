----------------------------- MODULE HostCalls -----------------------------
(***************************************************************************)
(* The state that host functions keep for a plugin between its calls       *)
(* (internal/wasm/hostapi): SQL handles with the connections behind them,  *)
(* and the key-value store.                                                *)
(*                                                                         *)
(* An execution calls one host function at a time; executions of a plugin  *)
(* run next to each other.  When the context of an execution ends, by      *)
(* return or by timeout, CleanupExecution runs in a goroutine of its own,  *)
(* so a timeout lets it race the call under way.  Loading and unloading    *)
(* the plugin register and unregister its databases at any moment.  One    *)
(* plugin with one database; a `generation' is one pluginSQLState.         *)
(* Handles belong to the trace of an execution.  Executions that another   *)
(* plugin's execution calls one after the other (call_plugin) inherit its  *)
(* trace: they are `nested', and the cleanup of one may meet the next.     *)
(* Statements (sql_exec) change nothing here.                              *)
(***************************************************************************)
EXTENDS Naturals, FiniteSets

CONSTANTS
    Executions,      \* executions of the plugin
    MaxHandles,      \* SQLMaxHandlesPerExecution
    SqlPoolSize,        \* connections of a pool
    MaxCalls,        \* MaxCalls[x]: SQL calls of an execution
    MaxGenerations,  \* registrations of the database
    KvKeys, KvSizes, \* keys, and sizes of an entry with its key
    KvMaxKeys,       \* KVMaxKeysPerPlugin
    KvMaxTotal,      \* KVMaxTotalPerPlugin
    MaxDrops         \* deletions of the plugin's values

ASSUME SqlAssumption == MaxGenerations \in Nat

ASSUME KvAssumption ==
    /\ IsFiniteSet(KvKeys)
    /\ KvSizes \subseteq Nat
    /\ KvMaxKeys \in Nat /\ KvMaxTotal \in Nat

Generations == 1..MaxGenerations

VARIABLES
    nested,          \* whether the executions share the trace of a caller
    gen,             \* the registered generation, 0 for none
    registrations,   \* registrations so far
    pools,           \* pools[g]: none, open or closed
    tables,          \* tables[g][t]: the open handles of trace t
    lent,            \* connections taken from a pool and not given back
    sqlCalls,        \* sqlCalls[x]: the SQL call under way
    callsMade,       \* SQL calls of each execution
    contexts,        \* contexts[x]: running, ended or cleaned
    closing,         \* UnregisterPlugin under way
    strays           \* connections and pools that were let go of

sqlVars == <<nested, gen, registrations, pools, tables, lent, sqlCalls, callsMade, contexts, closing, strays>>

NoSqlCall == [pc |-> "idle", ps |-> 0, kind |-> "none", conn |-> 0, of |-> 0, live |-> FALSE]

NotClosing == [pc |-> "none", ps |-> 0]

SqlInit ==
    /\ nested \in BOOLEAN
    /\ gen = 0
    /\ registrations = 0
    /\ pools = [g \in Generations |-> "none"]
    /\ tables = [g \in Generations |-> [x \in Executions |-> {}]]
    /\ lent = {}
    /\ sqlCalls = [x \in Executions |-> NoSqlCall]
    /\ callsMade = [x \in Executions |-> 0]
    /\ contexts = [x \in Executions |-> "running"]
    /\ closing = NotClosing
    /\ strays = {}

\* UnregisterPlugin holds the mutex of the state until its pools are closed.
Unlocked(g) == ~(closing.pc = "close" /\ closing.ps = g)

\* ContextWithTraceID keeps the trace id of the calling execution.
Trace(x) == IF nested THEN CHOOSE y \in Executions : TRUE ELSE x

Connection(x, n, g) == [exec |-> x, n |-> n, of |-> g]

Pool(g) == [exec |-> "pool", n |-> 0, of |-> g]

RegisterDSN ==
    /\ gen = 0
    /\ registrations < MaxGenerations
    /\ registrations' = registrations + 1
    /\ gen' = registrations + 1
    /\ UNCHANGED <<nested, pools, tables, lent, sqlCalls, callsMade, contexts, closing, strays>>

-----------------------------------------------------------------------------
(* sql_open, sql_begin and sql_query, which make a handle *)

Goes(x, next) == sqlCalls' = [sqlCalls EXCEPT ![x] = next]

\* Nested executions follow one another.
Follows(x, y) == sqlCalls[y].pc = "idle" /\ (contexts[y] = "running" => callsMade[y] = 0)

\* sqlPreamble has let the call of a live execution pass.
CanCall(x) ==
    /\ contexts[x] = "running"
    /\ sqlCalls[x].pc = "idle"
    /\ callsMade[x] < MaxCalls[x]
    /\ nested => \A y \in Executions \ {x} : Follows(x, y)

\* getOrCreatePool finds the state of the plugin,
SqlOpen(x) ==
    /\ CanCall(x)
    /\ gen # 0
    /\ callsMade' = [callsMade EXCEPT ![x] = @ + 1]
    /\ Goes(x, [NoSqlCall EXCEPT !.pc = "pool", !.ps = gen, !.kind = "conn", !.of = gen])
    /\ UNCHANGED <<nested, gen, registrations, pools, tables, lent, contexts, closing, strays>>

\* takes its pool or makes one, which may fail,
GetOrCreatePool(x) ==
    LET g == sqlCalls[x].ps IN
    /\ sqlCalls[x].pc = "pool"
    /\ Unlocked(g)
    /\ \/ /\ pools' = [pools EXCEPT ![g] = IF @ = "none" THEN "open" ELSE @]
          /\ strays' = IF pools[g] = "none" /\ g # gen /\ closing.ps # g THEN strays \cup {Pool(g)} ELSE strays
          /\ Goes(x, [sqlCalls[x] EXCEPT !.pc = "acquire"])
       \/ /\ pools[g] = "none"
          /\ Goes(x, NoSqlCall)
          /\ UNCHANGED <<pools, strays>>
    /\ UNCHANGED <<nested, gen, registrations, tables, lent, callsMade, contexts, closing>>

\* and a connection is acquired, or none is free in time or the pool is closed.
AcquireConn(x) ==
    LET g == sqlCalls[x].ps IN
    /\ sqlCalls[x].pc = "acquire"
    /\ \/ /\ pools[g] = "open"
          /\ Cardinality({c \in lent : c.of = g}) < SqlPoolSize
          /\ lent' = lent \cup {Connection(x, callsMade[x], g)}
          /\ Goes(x, [sqlCalls[x] EXCEPT !.pc = "alloc", !.conn = callsMade[x]])
       \/ /\ Goes(x, NoSqlCall)
          /\ UNCHANGED lent
    /\ UNCHANGED <<nested, gen, registrations, pools, tables, callsMade, contexts, closing, strays>>

\* Variant for the mutants: the connection of a refused handle is kept.
KeepOnFailure(x) == lent

\* A handle that cannot be had: the connection goes back (a transaction or a
\* result leaves the connection with its own handle).
ReleaseOnFailure(x) ==
    IF sqlCalls[x].kind = "conn" THEN lent \ {Connection(x, sqlCalls[x].conn, sqlCalls[x].of)} ELSE lent

\* sql_begin and sql_query find the handle of a connection (a query also takes
\* a transaction), use it, and then ask for a handle of their own.
SqlBeginOrQuery(x) ==
    /\ CanCall(x)
    /\ gen # 0
    /\ \E h \in tables[gen][Trace(x)] : \E kind \in {"tx", "rows"} :
         /\ h.kind = "conn" \/ (h.kind = "tx" /\ kind = "rows")
         /\ Goes(x, [NoSqlCall EXCEPT !.pc = "alloc", !.kind = kind, !.conn = h.conn, !.of = h.of])
    /\ callsMade' = [callsMade EXCEPT ![x] = @ + 1]
    /\ UNCHANGED <<nested, gen, registrations, pools, tables, lent, contexts, closing, strays>>

\* Alloc finds the state of the plugin, perhaps a younger one or none,
AllocFindsState(x) ==
    /\ sqlCalls[x].pc = "alloc"
    /\ \/ /\ gen # 0
          /\ Goes(x, [sqlCalls[x] EXCEPT !.pc = "table", !.ps = gen])
          /\ UNCHANGED lent
       \/ /\ gen = 0
          /\ lent' = ReleaseOnFailure(x)
          /\ Goes(x, NoSqlCall)
    /\ UNCHANGED <<nested, gen, registrations, pools, tables, callsMade, contexts, closing, strays>>

\* getExecHandles takes the execution's table or makes one,
GetExecHandles(x) ==
    /\ sqlCalls[x].pc = "table"
    /\ Unlocked(sqlCalls[x].ps)
    /\ Goes(x, [sqlCalls[x] EXCEPT !.pc = "insert", !.live = TRUE])
    /\ UNCHANGED <<nested, gen, registrations, pools, tables, lent, callsMade, contexts, closing, strays>>

\* A table that no cleanup will look at again: it was removed, its execution
\* has been cleaned up, or its state is no longer registered.
Abandoned(x) ==
    LET g == sqlCalls[x].ps IN
    ~sqlCalls[x].live \/ (g = gen /\ contexts[x] = "cleaned") \/ (g # gen /\ closing.ps # g)

\* and the handle goes into the table unless that is full.
AllocInserts(x) ==
    LET call == sqlCalls[x]
        g == call.ps
        full == call.live /\ Cardinality(tables[g][Trace(x)]) >= MaxHandles IN
    /\ call.pc = "insert"
    /\ tables' = IF full \/ ~call.live THEN tables
                 ELSE [tables EXCEPT ![g][Trace(x)] = @ \cup
                          {[by |-> x, id |-> callsMade[x], kind |-> call.kind, conn |-> call.conn, of |-> call.of]}]
    /\ lent' = IF full THEN ReleaseOnFailure(x) ELSE lent
    /\ strays' = IF ~full /\ call.kind = "conn" /\ Abandoned(x)
                 THEN strays \cup {Connection(x, call.conn, call.of)} ELSE strays
    /\ Goes(x, NoSqlCall)
    /\ UNCHANGED <<nested, gen, registrations, pools, callsMade, contexts, closing>>

-----------------------------------------------------------------------------
(* The calls that remove a handle *)

Without(x, h) == [tables EXCEPT ![gen][Trace(x)] = @ \ {h}]

\* sql_close gives back a connection; of a transaction or a result it only
\* drops the handle.
SqlClose(x, h) ==
    /\ lent' = IF h.kind = "conn" THEN lent \ {Connection(h.by, h.conn, h.of)} ELSE lent
    /\ tables' = Without(x, h)
    /\ UNCHANGED strays

\* sql_end and sql_rows_close remove whatever handle they are given: that of a
\* connection is lost.
SqlEndOrRowsClose(x, h) ==
    /\ tables' = Without(x, h)
    /\ strays' = IF h.kind = "conn" THEN strays \cup {Connection(h.by, h.conn, h.of)} ELSE strays
    /\ UNCHANGED lent

\* sql_next removes a result that is exhausted, and keeps one that failed.
SqlNext(x, h) ==
    /\ h.kind = "rows"
    /\ tables' = Without(x, h)
    /\ UNCHANGED <<lent, strays>>

RemoveHandle(x) ==
    /\ CanCall(x)
    /\ gen # 0
    /\ \E h \in tables[gen][Trace(x)] : SqlClose(x, h) \/ SqlEndOrRowsClose(x, h) \/ SqlNext(x, h)
    /\ callsMade' = [callsMade EXCEPT ![x] = @ + 1]
    /\ UNCHANGED <<nested, gen, registrations, pools, sqlCalls, contexts, closing>>

-----------------------------------------------------------------------------
(* The end of an execution, and of the registration *)

\* The execution returns, or runs into its timeout during a call.
ContextEnds(x) ==
    /\ contexts[x] = "running"
    /\ contexts' = [contexts EXCEPT ![x] = "ended"]
    /\ UNCHANGED <<nested, gen, registrations, pools, tables, lent, sqlCalls, callsMade, closing, strays>>

\* cleanupExecutionLocked: results, transactions, then connections.
HeldBy(g, t) == {Connection(h.by, h.conn, h.of) : h \in {u \in tables[g][t] : u.kind = "conn"}}

Cleared(g, traces) == [tables EXCEPT ![g] = [t \in Executions |-> IF t \in traces THEN {} ELSE @[t]]]

\* A call that has the removed table in hand keeps it.
TableGone(g, traces) ==
    [x \in Executions |-> IF Trace(x) \in traces /\ sqlCalls[x].pc = "insert" /\ sqlCalls[x].ps = g
                          THEN [sqlCalls[x] EXCEPT !.live = FALSE] ELSE sqlCalls[x]]

CleanupExecution(x) ==
    /\ contexts[x] = "ended"
    /\ contexts' = [contexts EXCEPT ![x] = "cleaned"]
    /\ IF gen = 0 THEN UNCHANGED <<tables, lent, sqlCalls>>
       ELSE /\ lent' = lent \ HeldBy(gen, Trace(x))
            /\ tables' = Cleared(gen, {Trace(x)})
            /\ sqlCalls' = TableGone(gen, {Trace(x)})
    /\ UNCHANGED <<nested, gen, registrations, pools, callsMade, closing, strays>>

\* UnregisterPlugin forgets the state,
UnregisterPlugin ==
    /\ gen # 0
    /\ closing.pc = "none"
    /\ closing' = [pc |-> "lock", ps |-> gen]
    /\ gen' = 0
    /\ UNCHANGED <<nested, registrations, pools, tables, lent, sqlCalls, callsMade, contexts, strays>>

\* cleans up all executions under the mutex, closes the pools to newcomers,
UnregisterCleansUp ==
    LET g == closing.ps IN
    /\ closing.pc = "lock"
    /\ closing' = [closing EXCEPT !.pc = "close"]
    /\ lent' = lent \ UNION {HeldBy(g, t) : t \in Executions}
    /\ tables' = Cleared(g, Executions)
    /\ sqlCalls' = TableGone(g, Executions)
    /\ pools' = [pools EXCEPT ![g] = IF @ = "open" THEN "closed" ELSE @]
    /\ UNCHANGED <<nested, gen, registrations, callsMade, contexts, strays>>

\* and waits, still under it, until every connection is back.
UnregisterEnds ==
    /\ closing.pc = "close"
    /\ \A c \in lent : c.of # closing.ps
    /\ pools' = [pools EXCEPT ![closing.ps] = "none"]
    /\ closing' = NotClosing
    /\ UNCHANGED <<nested, gen, registrations, tables, lent, sqlCalls, callsMade, contexts, strays>>

SqlStep ==
    \/ RegisterDSN \/ UnregisterPlugin \/ UnregisterCleansUp \/ UnregisterEnds
    \/ \E x \in Executions :
         \/ SqlOpen(x) \/ GetOrCreatePool(x) \/ AcquireConn(x) \/ SqlBeginOrQuery(x)
         \/ AllocFindsState(x) \/ GetExecHandles(x) \/ AllocInserts(x)
         \/ RemoveHandle(x)
         \/ ContextEnds(x) \/ CleanupExecution(x)

SqlSpec == SqlInit /\ [][SqlStep]_sqlVars

\* A connection in the hands of the call under way of its execution.
InCall(c) ==
    LET call == sqlCalls[c.exec] IN
    call.pc \in {"alloc", "table", "insert"} /\ call.kind = "conn" /\ call.conn = c.n /\ call.of = c.of

\* A connection that a cleanup still to come gives back.
InTable(c) ==
    \E g \in Generations :
        /\ c \in HeldBy(g, Trace(c.exec))
        /\ \/ g = gen /\ contexts[c.exec] # "cleaned"
           \/ g = closing.ps

\* Every connection out of its pool is in the hands of a call, or behind a
\* handle that the end of its execution or of the registration gives back: the
\* pool can always be closed, and no execution keeps a connection.  Let go of
\* are a connection whose handle was passed to sql_end or sql_rows_close, and
\* one that got its handle after the cleanup of its execution; and a pool made
\* for a registration that had ended.
ConnectionsGivenBack ==
    /\ \A c \in lent : InCall(c) \/ InTable(c) \/ c \in strays
    /\ \A g \in Generations : pools[g] = "open" => g \in {gen, closing.ps} \/ Pool(g) \in strays

-----------------------------------------------------------------------------
(* kv_get, kv_set, kv_delete and kv_list *)

VARIABLES
    kvEntries,       \* kvEntries[k]: size and age of the entry of key k
    kvTotal,         \* totalSize
    kvDrops          \* deletions of the plugin's values so far

kvVars == <<kvEntries, kvTotal, kvDrops>>

NoEntry == [size |-> 0, age |-> "none"]

KvInit ==
    /\ kvEntries = [k \in KvKeys |-> NoEntry]
    /\ kvTotal = 0
    /\ kvDrops = 0

Entries == {k \in KvKeys : kvEntries[k].age # "none"}

Expired == {k \in KvKeys : kvEntries[k].age = "expired"}

\* The bytes of entries, numbered within each, and how many there are.
Bytes(keys) == UNION {{k} \X (1..kvEntries[k].size) : k \in keys}

SizeOf(keys) == Cardinality(Bytes(keys))

Dropping(keys) == [k \in KvKeys |-> IF k \in keys THEN NoEntry ELSE kvEntries[k]]

KvExpires(k) ==
    /\ kvEntries[k].age = "ttl"
    /\ kvEntries' = [kvEntries EXCEPT ![k].age = "expired"]
    /\ UNCHANGED <<kvTotal, kvDrops>>

\* Variant for the mutants: an expired entry that is read is not subtracted.
KvGetKeepsTotal(k) ==
    /\ k \in Expired
    /\ kvEntries' = Dropping({k})
    /\ UNCHANGED <<kvTotal, kvDrops>>

\* Get drops an expired entry; nothing changes otherwise, nor in List.
KvGet(k) ==
    /\ k \in Expired
    /\ kvEntries' = Dropping({k})
    /\ kvTotal' = kvTotal - kvEntries[k].size
    /\ UNCHANGED kvDrops

\* Set evicts what has expired, also when the value is then refused: at the
\* limit of keys, or of the total size.
KvSet(k, size, age) ==
    LET kept == Dropping(Expired)
        total == kvTotal - SizeOf(Expired)
        newTotal == total - kept[k].size + size
        refused == \/ kept[k].size = 0 /\ Cardinality(Entries \ Expired) >= KvMaxKeys
                   \/ newTotal > KvMaxTotal IN
    /\ kvEntries' = IF refused THEN kept ELSE [kept EXCEPT ![k] = [size |-> size, age |-> age]]
    /\ kvTotal' = IF refused THEN total ELSE newTotal
    /\ UNCHANGED kvDrops

KvDelete(k) ==
    /\ k \in Entries
    /\ kvEntries' = Dropping({k})
    /\ kvTotal' = kvTotal - kvEntries[k].size
    /\ UNCHANGED kvDrops

\* DropPlugin, when the plugin is deleted: the next call makes a new store (a
\* call that has the old one in hand writes where nobody looks).
DropPlugin ==
    /\ kvDrops < MaxDrops
    /\ kvDrops' = kvDrops + 1
    /\ kvEntries' = [k \in KvKeys |-> NoEntry]
    /\ kvTotal' = 0

KvNext ==
    \/ \E k \in KvKeys :
         \/ KvExpires(k) \/ KvGet(k) \/ KvDelete(k)
         \/ \E size \in KvSizes, age \in {"kept", "ttl"} : KvSet(k, size, age)
    \/ DropPlugin

KvSpec == KvInit /\ [][KvNext]_kvVars

\* The size that is held against the limit is the size of what is stored,
\* after any mix of overwriting, expiry, refusal and deletion, and the limits
\* hold: a plugin neither loses room nor gets more than its share.
KvQuotaExact ==
    /\ kvTotal = SizeOf(Entries)
    /\ kvTotal <= KvMaxTotal
    /\ Cardinality(Entries) <= KvMaxKeys

=============================================================================
