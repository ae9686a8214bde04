----------------------------- MODULE PluginLoader -----------------------------
(***************************************************************************)
(* The WASM loader of one process, for one plugin id: load, reload, unload *)
(* and reconfigure by administrators who do not wait for each other, while *)
(* calls run in the module pools.                                          *)
(*                                                                         *)
(* Every successful preparation makes an instance: a compiled module with  *)
(* its pool, and, once inserted, the loader's loadedPlugin record.  Calls  *)
(* reach an instance in two ways: RPC and visibility checks acquire it     *)
(* from the loader and are counted, events and commands go to the instance *)
(* that the plugin manager holds and are not counted.                      *)
(*                                                                         *)
(* Not covered: what a binary that declares another id does to the plugin  *)
(* of that id while it is prepared.                                        *)
(***************************************************************************)
EXTENDS Naturals, Sequences, FiniteSets

CONSTANTS
    Binaries,      \* WASM modules an administrator may upload
    Configs,       \* configurations, each with its own database
    Meta,          \* what the meta action of a binary reports
    Admins,        \* requests to the lifecycle service, and the pubsub handler
    Calls,         \* calls of the plugin that may be in progress at once
    PoolSize,      \* slots of a module pool
    StrictMigrate, \* strictMigrate of the loader
    MaxInstances,  \* bound: instances ever prepared
    MaxOps,        \* bound: operations ever started
    None           \* no permissions, no configuration, no registry entry

ASSUME PluginLoaderAssumption ==
    /\ PoolSize \in Nat \ {0} /\ MaxInstances \in Nat /\ MaxOps \in Nat
    /\ IsFiniteSet(Calls)
    /\ None \notin Binaries /\ None \notin Configs
    /\ StrictMigrate \in BOOLEAN
    /\ Meta \in [Binaries -> [own : BOOLEAN, version : Nat,
                              deps : BOOLEAN, reconfigure : BOOLEAN,
                              accepts : SUBSET Configs]]

VARIABLES
    inst,     \* the instances, in the order they were prepared
    loaded,   \* the instance in the loader's map, or 0
    mgr,      \* the instance in the plugin manager, or 0
    perms,    \* the binary whose permissions the host API grants, or None
    dsn,      \* the configuration whose databases are registered, or None
    routes,   \* binaries whose triggers are registered, with repetitions
    reg,      \* plugin registry: version -> binary, Blank (no hash) or None
    op,       \* what each administrator's operation does next
    call,     \* what each call does next
    panicked, \* a channel was closed twice: the process is gone
    ops,      \* history: operations started
    overlap,  \* history: two operations were in progress at once
    hurt      \* history: a reload failed while activating the new binary

store == <<perms, dsn>>
where == <<loaded, mgr, routes, reg>>
history == <<ops, overlap, hurt>>
vars == <<inst, store, where, op, call, panicked, history>>

Blank == "no hash"
Versions == {Meta[b].version : b \in Binaries}
IdleOp == [pc |-> "idle", kind |-> "none", bin |-> None, cfg |-> None, old |-> 0, new |-> 0]
IdleCall == [pc |-> "idle", in |-> 0, counted |-> FALSE]
NewInstance(b, c) ==
    [bin |-> b, cfg |-> c, draining |-> FALSE, active |-> 0, drained |-> FALSE,
     pool |-> "open", free |-> PoolSize, taken |-> 0, forced |-> FALSE, givenBack |-> FALSE]

Quiet == \A a \in Admins : op[a].pc = "idle"
GoTo(a, pc) == op' = [op EXCEPT ![a].pc = pc]

(* Nothing is loaded, or AutoloadPlugins has loaded a binary at the start  *)
(* of the process.                                                         *)
Init ==
    /\ \/ /\ inst = <<>> /\ routes = <<>> /\ perms = None /\ dsn = None
          /\ reg = [v \in Versions |-> None]
       \/ \E b \in Binaries, c \in Configs \cup {None} :
             /\ Meta[b].own /\ (c = None \/ c \in Meta[b].accepts)
             /\ inst = <<NewInstance(b, c)>> /\ routes = <<b>> /\ perms = b /\ dsn = c
             /\ reg = [v \in Versions |-> IF v = Meta[b].version THEN b ELSE None]
    /\ loaded = Len(inst) /\ mgr = Len(inst)
    /\ op = [a \in Admins |-> IdleOp]
    /\ call = [c \in Calls |-> IdleCall]
    /\ panicked = FALSE /\ ops = 0 /\ overlap = FALSE /\ hurt = FALSE

-----------------------------------------------------------------------------
(* Starting an operation.                                                  *)

Start(a, o) ==
    /\ op[a].pc = "idle" /\ ops < MaxOps
    /\ op' = [op EXCEPT ![a] = o]
    /\ ops' = ops + 1
    /\ overlap' = (overlap \/ ~Quiet)
    /\ UNCHANGED <<hurt, panicked, call, store>>

(* LoadPluginFromBytes, which the service calls for a plugin that is not   *)
(* loaded.                                                                 *)
BeginLoad(a, b, c) ==
    /\ loaded = 0 /\ Meta[b].own /\ Len(inst) < MaxInstances
    /\ Start(a, [IdleOp EXCEPT !.pc = "prepare", !.kind = "load", !.bin = b, !.cfg = c])
    /\ UNCHANGED <<inst, where>>

(* beginReload: the old version stops taking counted calls at once.        *)
BeginReload(a, b, c) ==
    /\ loaded # 0 /\ Len(inst) < MaxInstances
    /\ Start(a, [IdleOp EXCEPT !.pc = "prepare", !.kind = "reload", !.bin = b, !.old = loaded,
                               !.cfg = IF c = None THEN inst[loaded].cfg ELSE c])
    /\ inst' = [inst EXCEPT ![loaded].draining = TRUE]
    /\ UNCHANGED where

(* UnloadPlugin: the plugin leaves the map before anything else.           *)
BeginUnload(a) ==
    /\ loaded # 0
    /\ Start(a, [IdleOp EXCEPT !.pc = "revoke", !.kind = "unload", !.old = loaded])
    /\ loaded' = 0
    /\ UNCHANGED <<inst, mgr, routes, reg>>

(* ReconfigurePlugin, up to the call of the plugin.                        *)
BeginReconfigure(a, c) ==
    /\ loaded # 0
    /\ Meta[inst[loaded].bin].reconfigure /\ c \in Meta[inst[loaded].bin].accepts
    /\ op[a].pc = "idle" /\ ops < MaxOps
    /\ op' = [op EXCEPT ![a] = [IdleOp EXCEPT !.pc = "reconfigure", !.kind = "reconfigure",
                                              !.cfg = c, !.old = loaded]]
    /\ ops' = ops + 1 /\ overlap' = (overlap \/ ~Quiet)
    /\ dsn' = c
    /\ UNCHANGED <<hurt, panicked, call, perms, inst, where>>

-----------------------------------------------------------------------------
(* Preparing a binary.                                                     *)

(* A reload that failed to prepare gives the old version back to calls. It *)
(* does not restore what closeActivatedPlugin took from it.                *)
Undrain(i) ==
    [inst EXCEPT ![i].draining = FALSE, ![i].givenBack = TRUE]
GiveUp(a) ==
    /\ op' = [op EXCEPT ![a] = IdleOp]
    /\ inst' = IF op[a].kind = "reload" THEN Undrain(op[a].old) ELSE inst

(* PluginRegistry.Register replaces the entry of the version.              *)
Register(b, hash) == [reg EXCEPT ![Meta[b].version] = hash]

(* checkDependencies registers the new version without a hash before it    *)
(* resolves the dependencies, then compares the binary with a known hash.  *)
RegisterTemp(b) == IF Meta[b].deps THEN Register(b, Blank) ELSE reg
HashAccepts(b, entries) == entries[Meta[b].version] \in {None, Blank, b}

(* compile, meta, dependencies and the integrity check against a hash that *)
(* is known for the version.                                               *)
Prepare(a) ==
    LET b == op[a].bin
    IN  /\ op[a].pc = "prepare"
        /\ reg' = RegisterTemp(b)
        /\ HashAccepts(b, reg')
        /\ GoTo(a, "activate")
        /\ UNCHANGED <<inst, loaded, mgr, routes, store, call, panicked, history>>

PrepareError(a) ==
    /\ op[a].pc = "prepare"
    /\ reg' = RegisterTemp(op[a].bin)
    /\ GiveUp(a)
    /\ UNCHANGED <<loaded, mgr, routes, store, call, panicked, history>>

(* activatePlugin: permissions first, then the configuration is validated, *)
(* and databases and HTTP policies are registered.                         *)
Activate(a) ==
    LET b == op[a].bin
        c == op[a].cfg
    IN  /\ op[a].pc = "activate"
        /\ c = None \/ c \in Meta[b].accepts
        /\ perms' = IF Meta[b].own THEN b ELSE perms
        /\ dsn' = IF Meta[b].own /\ c # None THEN c ELSE dsn
        /\ GoTo(a, "configure")
        /\ UNCHANGED <<inst, where, call, panicked, history>>

(* closeActivatedPlugin after a configuration that is not valid, a missing *)
(* database, a failed migration or the plugin's own error.                 *)
ActivateError(a) ==
    /\ op[a].pc \in {"activate", "configure"}
    /\ IF Meta[op[a].bin].own
       THEN /\ perms' = None /\ dsn' = None
            /\ hurt' = (hurt \/ op[a].kind = "reload")
       ELSE UNCHANGED <<store, hurt>>
    /\ GiveUp(a)
    /\ UNCHANGED <<where, call, panicked, ops, overlap>>

(* runPluginMigrations, CallConfigure and EnablePool.                      *)
Configure(a) ==
    /\ op[a].pc = "configure"
    /\ inst' = Append(inst, NewInstance(op[a].bin, op[a].cfg))
    /\ op' = [op EXCEPT ![a].pc = IF op[a].kind = "load" THEN "insert" ELSE "migrate",
                        ![a].new = Len(inst) + 1]
    /\ UNCHANGED <<store, where, call, panicked, history>>

(* maybeRunReloadMigration.                                                *)
Migrate(a) ==
    /\ op[a].pc = "migrate" /\ Meta[op[a].bin].own
    /\ GoTo(a, "insert")
    /\ UNCHANGED <<inst, store, where, call, panicked, history>>

(* restoreLoadedPluginState.                                               *)
Restore(i) ==
    /\ perms' = inst[i].bin
    /\ dsn' = inst[i].cfg

AbortReloadUnrestored(a) ==
    /\ op[a].pc = "migrate"
    /\ \/ ~Meta[op[a].bin].own
       \/ StrictMigrate /\ Meta[op[a].bin].version # Meta[inst[op[a].old].bin].version
    /\ inst' = [Undrain(op[a].old) EXCEPT ![op[a].new].pool = "gone", ![op[a].new].free = 0,
                                          ![op[a].new].taken = PoolSize]
    /\ op' = [op EXCEPT ![a] = IdleOp]
    /\ UNCHANGED <<store, where, call, panicked, history>>

(* abortReload: another id, or a failed migration to another version.      *)
AbortReload(a) ==
    /\ op[a].pc = "migrate"
    /\ \/ ~Meta[op[a].bin].own
       \/ StrictMigrate /\ Meta[op[a].bin].version # Meta[inst[op[a].old].bin].version
    /\ inst' = [Undrain(op[a].old) EXCEPT ![op[a].new].pool = "gone", ![op[a].new].free = 0,
                                          ![op[a].new].taken = PoolSize]
    /\ Restore(op[a].old)
    /\ op' = [op EXCEPT ![a] = IdleOp]
    /\ UNCHANGED <<where, call, panicked, history>>

-----------------------------------------------------------------------------
(* Putting the prepared instance in place: registerLoadedPlugin.           *)

Insert(a) ==
    /\ op[a].pc = "insert"
    /\ loaded' = op[a].new
    /\ GoTo(a, IF op[a].kind = "load" THEN "register" ELSE "unregister")
    /\ UNCHANGED <<inst, mgr, routes, reg, store, call, panicked, history>>

UnregisterTriggers(a) ==
    /\ op[a].pc = "unregister"
    /\ routes' = <<>>
    /\ reg' = IF op[a].kind = "unload" THEN [v \in Versions |-> None] ELSE reg
    /\ GoTo(a, IF op[a].kind = "unload" THEN "drain" ELSE "register")
    /\ UNCHANGED <<inst, loaded, mgr, store, call, panicked, history>>

RegisterTriggers(a) ==
    /\ op[a].pc = "register"
    /\ routes' = Append(routes, op[a].bin)
    /\ reg' = Register(op[a].bin, op[a].bin)
    /\ GoTo(a, IF op[a].kind = "load" THEN "sync" ELSE "drain")
    /\ UNCHANGED <<inst, loaded, mgr, store, call, panicked, history>>

(* UnloadPlugin takes permissions and databases before it drains.          *)
Revoke(a) ==
    /\ op[a].pc = "revoke"
    /\ perms' = None /\ dsn' = None
    /\ GoTo(a, "unregister")
    /\ UNCHANGED <<inst, where, call, panicked, history>>

-----------------------------------------------------------------------------
(* Draining and closing the old instance.                                  *)

DrainAtOnce(a) ==
    LET i == op[a].old
    IN  /\ op[a].pc = "drain"
        /\ inst' = [inst EXCEPT ![i].draining = TRUE]
        /\ GoTo(a, IF ~inst[i].drained THEN "signal" ELSE "wait")
        /\ UNCHANGED <<store, where, call, panicked, history>>

(* drainPlugin reads the counter and then looks whether the channel is     *)
(* closed; another goroutine may do the same.                              *)
Drain(a) ==
    LET i == op[a].old
    IN  /\ op[a].pc = "drain"
        /\ inst' = [inst EXCEPT ![i].draining = TRUE]
        /\ GoTo(a, IF inst[i].active = 0 /\ ~inst[i].drained THEN "signal" ELSE "wait")
        /\ UNCHANGED <<store, where, call, panicked, history>>

CloseDrained(i) ==
    /\ panicked' = inst[i].drained
    /\ inst' = [inst EXCEPT ![i].drained = TRUE]

DrainSignal(a) ==
    /\ op[a].pc = "signal"
    /\ CloseDrained(op[a].old)
    /\ GoTo(a, "wait")
    /\ UNCHANGED <<store, where, call, history>>

Drained(a) ==
    /\ op[a].pc = "wait" /\ inst[op[a].old].drained
    /\ GoTo(a, "close")
    /\ UNCHANGED <<inst, store, where, call, panicked, history>>

DrainTimeout(a) ==
    /\ op[a].pc = "wait" /\ ~inst[op[a].old].drained
    /\ inst' = [inst EXCEPT ![op[a].old].forced = TRUE]
    /\ GoTo(a, "close")
    /\ UNCHANGED <<store, where, call, panicked, history>>

(* ModulePool.Close sets the flag and then takes the slots one by one, so  *)
(* that a call that waited for a slot may still get one.  A second Close   *)
(* waits for the first.                                                    *)
ClosePool(a) ==
    /\ op[a].pc = "close"
    /\ inst' = [inst EXCEPT ![op[a].old].pool = IF @ = "open" THEN "closing" ELSE @]
    /\ GoTo(a, "slots")
    /\ UNCHANGED <<store, where, call, panicked, history>>

TakeSlots(a) ==
    LET i == op[a].old
    IN  /\ op[a].pc = "slots" /\ inst[i].pool = "closing" /\ inst[i].free > 0
        /\ inst' = [inst EXCEPT ![i].free = @ - 1, ![i].taken = @ + 1,
                                ![i].pool = IF inst[i].taken + 1 = PoolSize THEN "gone" ELSE @]
        /\ UNCHANGED <<op, store, where, call, panicked, history>>

Closed(a) ==
    /\ op[a].pc = "slots" /\ inst[op[a].old].pool = "gone"
    /\ GoTo(a, "sync")
    /\ UNCHANGED <<inst, store, where, call, panicked, history>>

(* The service brings the plugin manager in line: Register after a load,   *)
(* syncPluginAfterReload, Remove after an unload.                          *)
Sync(a) ==
    /\ op[a].pc = "sync"
    /\ mgr' = CASE op[a].kind = "load"   -> op[a].new
                [] op[a].kind = "reload" -> IF loaded = 0 THEN mgr ELSE loaded
                [] op[a].kind = "unload" -> 0
    /\ op' = [op EXCEPT ![a] = IdleOp]
    /\ UNCHANGED <<inst, loaded, routes, reg, store, call, panicked, history>>

(* The rest of ReconfigurePlugin.                                          *)
Reconfigured(a) ==
    /\ op[a].pc = "reconfigure"
    /\ inst' = [inst EXCEPT ![op[a].old].cfg = op[a].cfg]
    /\ op' = [op EXCEPT ![a] = IdleOp]
    /\ UNCHANGED <<store, where, call, panicked, history>>

ReconfigureError(a) ==
    /\ op[a].pc = "reconfigure"
    /\ Restore(op[a].old)
    /\ op' = [op EXCEPT ![a] = IdleOp]
    /\ UNCHANGED <<inst, where, call, panicked, history>>

-----------------------------------------------------------------------------
(* Calls.                                                                  *)

(* CallPlugin and CheckVisibility acquire the plugin from the loader.      *)
Acquire(c) ==
    /\ call[c].pc = "idle" /\ loaded # 0 /\ ~inst[loaded].draining
    /\ inst' = [inst EXCEPT ![loaded].active = @ + 1]
    /\ call' = [call EXCEPT ![c] = [pc |-> "call", in |-> loaded, counted |-> TRUE]]
    /\ UNCHANGED <<store, where, op, panicked, history>>

(* HandleEvent of the instance that the manager holds.                     *)
HandleEvent(c) ==
    /\ call[c].pc = "idle" /\ mgr # 0
    /\ call' = [call EXCEPT ![c] = [pc |-> "call", in |-> mgr, counted |-> FALSE]]
    /\ UNCHANGED <<inst, store, where, op, panicked, history>>

Leave(c) == [call EXCEPT ![c] = IF call[c].counted THEN [@ EXCEPT !.pc = "release"] ELSE IdleCall]

(* ModulePool.Execute: refused by a closed pool (and, once Close dropped   *)
(* the pool, by the closed module), else waits for a slot.                 *)
Execute(c) ==
    /\ call[c].pc = "call"
    /\ call' = IF inst[call[c].in].pool = "open" THEN [call EXCEPT ![c].pc = "queued"] ELSE Leave(c)
    /\ UNCHANGED <<inst, store, where, op, panicked, history>>

TakeSlot(c) ==
    /\ call[c].pc = "queued" /\ inst[call[c].in].free > 0
    /\ inst' = [inst EXCEPT ![call[c].in].free = @ - 1]
    /\ call' = [call EXCEPT ![c].pc = "running"]
    /\ UNCHANGED <<store, where, op, panicked, history>>

SlotTimeout(c) ==
    /\ call[c].pc = "queued"
    /\ call' = Leave(c)
    /\ UNCHANGED <<inst, store, where, op, panicked, history>>

ReturnKeepsSlot(c) ==
    /\ call[c].pc = "running"
    /\ inst' = IF inst[call[c].in].pool = "open"
               THEN [inst EXCEPT ![call[c].in].free = @ + 1] ELSE inst
    /\ call' = Leave(c)
    /\ UNCHANGED <<store, where, op, panicked, history>>

(* The module ends or is stopped by its time-out: the slot goes back.      *)
Return(c) ==
    /\ call[c].pc = "running"
    /\ inst' = [inst EXCEPT ![call[c].in].free = @ + 1]
    /\ call' = Leave(c)
    /\ UNCHANGED <<store, where, op, panicked, history>>

(* The release function of AcquirePlugin.                                  *)
Release(c) ==
    LET i == call[c].in
        last == inst[i].active = 1 /\ inst[i].draining /\ ~inst[i].drained
    IN  /\ call[c].pc = "release"
        /\ inst' = [inst EXCEPT ![i].active = @ - 1]
        /\ call' = [call EXCEPT ![c] = IF last THEN [@ EXCEPT !.pc = "signal"] ELSE IdleCall]
        /\ UNCHANGED <<store, where, op, panicked, history>>

ReleaseSignal(c) ==
    /\ call[c].pc = "signal"
    /\ CloseDrained(call[c].in)
    /\ call' = [call EXCEPT ![c] = IdleCall]
    /\ UNCHANGED <<store, where, op, history>>

-----------------------------------------------------------------------------
Step(a) ==
    \/ Prepare(a) \/ PrepareError(a) \/ Activate(a) \/ ActivateError(a) \/ Configure(a)
    \/ Migrate(a) \/ AbortReload(a) \/ Insert(a) \/ Revoke(a)
    \/ UnregisterTriggers(a) \/ RegisterTriggers(a)
    \/ Drain(a) \/ DrainSignal(a) \/ Drained(a) \/ DrainTimeout(a)
    \/ ClosePool(a) \/ TakeSlots(a) \/ Closed(a) \/ Sync(a)
    \/ Reconfigured(a) \/ ReconfigureError(a)

Progress(c) ==
    \/ Execute(c) \/ SlotTimeout(c) \/ Return(c) \/ Release(c) \/ ReleaseSignal(c)

Next ==
    /\ ~panicked
    /\ \/ \E a \in Admins, b \in Binaries, c \in Configs \cup {None} :
             BeginLoad(a, b, c) \/ BeginReload(a, b, c)
       \/ \E a \in Admins, c \in Configs : BeginReconfigure(a, c)
       \/ \E a \in Admins : BeginUnload(a) \/ Step(a)
       \/ \E c \in Calls : Acquire(c) \/ HandleEvent(c) \/ TakeSlot(c) \/ Progress(c)

Spec == Init /\ [][Next]_vars

-----------------------------------------------------------------------------
(* Slots are neither lost nor made, whichever operations overlap: a closed *)
(* module runs no call, and a Close that still waits for a slot waits for  *)
(* a call that runs and will give one back.                                *)
SlotsAccounted ==
    \A i \in 1..Len(inst) :
        /\ inst[i].free + inst[i].taken
             + Cardinality({c \in Calls : call[c].in = i /\ call[c].pc = "running"}) = PoolSize
        /\ inst[i].pool = "gone" <=> inst[i].taken = PoolSize

(* drainPlugin: an instance that was closed without waiting for the drain  *)
(* time-out has no counted call left, unless a failed reload had given it  *)
(* back to calls: then another operation may have drained it before.       *)
GracefulDrain ==
    \A i \in 1..Len(inst) :
        inst[i].pool # "open" /\ ~inst[i].forced /\ ~inst[i].givenBack =>
            \A c \in Calls : call[c].in = i /\ call[c].counted => call[c].pc \notin {"queued", "running"}

(* The parts of what a finished operation leaves behind.                   *)
OneOpen == \A i \in 1..Len(inst) : i # loaded => inst[i].pool = "gone"
ManagerFollows == mgr = loaded
TriggersOnce == routes = IF loaded = 0 THEN <<>> ELSE <<inst[loaded].bin>>
PermissionsFollow ==
    IF loaded = 0 THEN perms = None
                  ELSE perms = inst[loaded].bin \/ (perms = None /\ hurt)

(* Between operations that did not overlap, whether they succeeded or not, *)
(* the loader's map, the pools, the plugin manager, the trigger registry   *)
(* and the permissions agree on one version: a failed reload may leave the *)
(* old version without permissions, but never with those of the new one.   *)
SettledOnOneVersion ==
    Quiet /\ ~overlap =>
        OneOpen /\ ManagerFollows /\ TriggersOnce /\ PermissionsFollow
=============================================================================
