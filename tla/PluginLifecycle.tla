---------------------------- MODULE PluginLifecycle ----------------------------
(***************************************************************************)
(* The lifecycle service for one plugin on several replicas: install,      *)
(* enable, disable, update, roll back, configure and delete, the plugin    *)
(* record, its metadata, versions and binaries, and the notifications by   *)
(* which the other replicas follow.  The service takes no lock: requests   *)
(* overlap with each other and with the notifications.                     *)
(*                                                                         *)
(* What a replica runs is abstract here (module PluginLoader has the       *)
(* detail): a binary with a configuration.  Every binary has a version of  *)
(* its own; an upload is stored under the version it declares.             *)
(***************************************************************************)
EXTENDS Naturals, Sequences, FiniteSets

CONSTANTS
    Replicas, Requests, Binaries, Configs, None,
    MaxOps,    \* bound: requests
    MaxFaults, \* bound: failed calls, lost connections and restarts
    MaxClock   \* bound: seconds, which name the binary of an update

Keys == Binaries \cup 1..MaxClock

(* PluginRecord, VersionRecord, and what a replica has loaded.             *)
Plugins == [enabled : BOOLEAN, key : Keys, bin : Binaries, cfg : Configs]
Versions == [key : Keys, bin : Binaries, cfg : Configs]
Loaded == [bin : Binaries, cfg : Configs]

ASSUME PluginLifecycleAssumption ==
    /\ MaxOps \in Nat /\ MaxFaults \in Nat /\ MaxClock \in Nat \ {0}
    /\ None \notin Binaries \cup Replicas \cup Plugins \cup Loaded
    /\ Binaries \cap (1..MaxClock) = {}

VARIABLES
    rec,       \* row of wasm_plugins, or None
    metadata,  \* binary that the row of wasm_plugin_metadata describes, or None
    vers,      \* rows of wasm_plugin_versions
    blobs,     \* blob store: key -> binary or None
    run,       \* what each replica has loaded, or None
    inbox,     \* notifications on their way to each replica
    listening, \* the replica's connection listens
    hand,      \* what each replica's notification handler does
    op,        \* what each request does next
    clock,     \* the current second
    ops,       \* history: requests begun
    faults,    \* history: faults so far
    missed,    \* history: replicas that missed or failed to apply a change
    odd        \* history: what happened that the service does not handle

db == <<rec, metadata, vers>>
history == <<ops, faults, missed, odd>>
vars == <<db, blobs, run, inbox, listening, hand, op, clock, history>>

Idle == [pc |-> "idle", kind |-> "none", at |-> None, old |-> None, new |-> None]
Runs(x) == [bin |-> x.bin, cfg |-> x.cfg]
Quiet ==
    /\ \A a \in Requests : op[a].pc = "idle"
    /\ \A r \in Replicas : inbox[r] = <<>> /\ hand[r].kind = "none"

Init ==
    /\ rec = None /\ metadata = None /\ vers = {}
    /\ blobs = [k \in Keys |-> None]
    /\ run = [r \in Replicas |-> None]
    /\ inbox = [r \in Replicas |-> <<>>] /\ listening = [r \in Replicas |-> TRUE]
    /\ hand = [r \in Replicas |-> [kind |-> "none", rec |-> None]]
    /\ op = [a \in Requests |-> Idle]
    /\ clock = 1 /\ ops = 0 /\ faults = 0 /\ missed = {} /\ odd = {}

Fault == faults < MaxFaults /\ faults' = faults + 1
NoFault == UNCHANGED faults

-----------------------------------------------------------------------------
(* The stores.                                                             *)

SavePlugin(x) == rec' = x
SavePluginMetadata(b) == metadata' = b
SaveVersion(x) == vers' = vers \cup {[key |-> x.key, bin |-> x.bin, cfg |-> x.cfg]}
Put(k, b) == blobs' = [blobs EXCEPT ![k] = b]
DeleteBlobs(ks) == blobs' = [k \in Keys |-> IF k \in ks THEN None ELSE blobs[k]]

(* pg_notify reaches the replicas that listen; a replica skips its own.    *)
Publish(r, kind) ==
    LET others == Replicas \ {r}
    IN  /\ inbox' = [q \in Replicas |-> IF q \in others /\ listening[q]
                                        THEN Append(inbox[q], kind) ELSE inbox[q]]
        /\ missed' = missed \cup {q \in others : ~listening[q]}

-----------------------------------------------------------------------------
(* Beginning a request: what it reads, checks and stores first.            *)

Oddities(kind) ==
    (IF Quiet THEN {} ELSE {"overlap"}) \cup
    (IF ~Quiet /\ \E k \in {kind} \cup {op[a].kind : a \in Requests} : k \in {"delete", "drop"}
     THEN {"overlapped delete"} ELSE {}) \cup
    (IF kind = "update" /\ blobs[clock] # None THEN {"same second"} ELSE {})

Begin(a, kind, r, pc, new) ==
    /\ op[a].pc = "idle" /\ ops < MaxOps
    /\ op' = [op EXCEPT ![a] = [pc |-> pc, kind |-> kind, at |-> r, old |-> rec, new |-> new]]
    /\ ops' = ops + 1
    /\ odd' = odd \cup Oddities(kind)
    /\ UNCHANGED <<db, run, inbox, listening, hand, clock, faults, missed>>

(* handleUpload stores the binary under its version.                       *)
Upload(b) ==
    /\ blobs[b] = None
    /\ Put(b, b)
    /\ UNCHANGED <<db, run, inbox, listening, hand, op, clock, history>>

Install(a, r, k, c) ==
    /\ rec = None /\ blobs[k] # None
    /\ Begin(a, "install", r, "runtime",
             [enabled |-> TRUE, key |-> k, bin |-> blobs[k], cfg |-> c])
    /\ UNCHANGED blobs

Enable(a, r) ==
    /\ rec # None /\ ~rec.enabled /\ blobs[rec.key] # None
    /\ Begin(a, "enable", r, "runtime", [rec EXCEPT !.enabled = TRUE])
    /\ UNCHANGED blobs

(* Disable saves the record before it unloads.                             *)
Disable(a, r) ==
    /\ rec # None /\ rec.enabled
    /\ Begin(a, "disable", r, "save", [rec EXCEPT !.enabled = FALSE])
    /\ UNCHANGED blobs

Delete(a, r) ==
    /\ rec # None
    /\ Begin(a, "delete", r, "unload", rec)
    /\ UNCHANGED blobs

(* UpdateWithFrontend puts the binary under a key made of the second.      *)
Update(a, r, b) ==
    /\ rec # None
    /\ Begin(a, "update", r, "runtime", [rec EXCEPT !.key = clock, !.bin = b])
    /\ Put(clock, b)

(* Rollback refuses a binary that is not the one of the version.           *)
Rollback(a, r, v) ==
    /\ rec # None /\ v \in vers /\ blobs[v.key] = v.bin
    /\ Begin(a, "rollback", r, "runtime",
             [rec EXCEPT !.key = v.key, !.bin = v.bin, !.cfg = v.cfg])
    /\ UNCHANGED blobs

UpdateConfig(a, r, c) ==
    /\ rec # None
    /\ Begin(a, "config", r, "runtime", [rec EXCEPT !.cfg = c])
    /\ UNCHANGED blobs

DeleteVersionAny(a, r, v) ==
    /\ rec # None /\ v \in vers
    /\ Begin(a, "drop", r, "drop", v)
    /\ UNCHANGED blobs

(* handleDeleteVersion: not the active version.                            *)
DeleteVersion(a, r, v) ==
    /\ rec # None /\ v \in vers /\ v.key # rec.key
    /\ Begin(a, "drop", r, "drop", v)
    /\ UNCHANGED blobs

-----------------------------------------------------------------------------
(* The runtime of the replica that serves the request.                     *)

Goto(a, pc) == op' = [op EXCEPT ![a].pc = pc]
Done(a) == op' = [op EXCEPT ![a] = Idle]

(* applyConfigToLoadedPlugin reconfigures the plugin, or reloads it with   *)
(* the binary of the record.                                               *)
WithConfig(r, key, c) ==
    {[run[r] EXCEPT !.cfg = c]} \cup
    (IF blobs[key] # None THEN {[bin |-> blobs[key], cfg |-> c]} ELSE {})

(* What the replica may run once the request changed it; none if the       *)
(* request asks for a reload of a plugin that is not loaded.               *)
Applied(a) ==
    LET o == op[a]
        r == o.at
    IN  IF o.kind \in {"install", "enable"} THEN {Runs(o.new)}
        ELSE IF ~o.old.enabled THEN {run[r]}
        ELSE IF run[r] = None THEN {}
        ELSE IF o.kind = "config" THEN WithConfig(r, o.old.key, o.new.cfg)
        ELSE {Runs(o.new)}

Runtime(a) ==
    /\ op[a].pc = "runtime"
    /\ \E x \in Applied(a) : run' = [run EXCEPT ![op[a].at] = x]
    /\ Goto(a, "save")
    /\ UNCHANGED <<db, blobs, inbox, listening, hand, clock, history>>

(* A load or reload that fails leaves what was loaded; the binary of an    *)
(* update is deleted again.                                                *)
RuntimeError(a) ==
    /\ op[a].pc = "runtime"
    /\ IF Applied(a) = {} THEN NoFault ELSE Fault
    /\ IF op[a].kind = "update" THEN DeleteBlobs({op[a].new.key}) ELSE UNCHANGED blobs
    /\ Done(a)
    /\ UNCHANGED <<db, run, inbox, listening, hand, clock, ops, missed, odd>>

-----------------------------------------------------------------------------
(* Persisting the result: record first, then metadata.                     *)

Save(a) ==
    /\ op[a].pc = "save"
    /\ SavePlugin(op[a].new)
    /\ Goto(a, CASE op[a].kind = "disable" -> "stop"
                 [] op[a].kind = "config"  -> "finish"
                 [] OTHER -> "meta")
    /\ UNCHANGED <<metadata, vers, blobs, run, inbox, listening, hand, clock, history>>

SaveMeta(a) ==
    /\ op[a].pc = "meta"
    /\ SavePluginMetadata(op[a].new.bin)
    /\ Goto(a, "finish")
    /\ UNCHANGED <<rec, vers, blobs, run, inbox, listening, hand, clock, history>>

RolledBackOnlyLoads(a) ==
    IF op[a].kind \in {"install", "enable"} THEN {None} ELSE {run[op[a].at]}

(* rollbackRuntimeIfNeeded: back to the record that was read.              *)
RolledBack(a) ==
    LET o == op[a]
        r == o.at
    IN  IF o.kind \in {"install", "enable"} THEN {None}
        ELSE IF o.kind = "disable" \/ ~o.old.enabled \/ run[r] = None THEN {run[r]}
        ELSE IF o.kind = "config" THEN WithConfig(r, o.old.key, o.old.cfg)
        ELSE IF blobs[o.old.key] = None THEN {run[r]}
        ELSE {[bin |-> blobs[o.old.key], cfg |-> o.old.cfg]}

(* A failed save undoes the runtime; an install also deletes the rows, an  *)
(* update its binary.  If only the metadata failed, the record stays.      *)
(* Nobody is told: a replica that restarted while an install had saved the *)
(* record keeps the plugin.                                                *)
SaveError(a) ==
    LET o == op[a]
    IN  /\ o.pc \in {"save", "meta"} /\ Fault
        /\ \E x \in RolledBack(a) : run' = [run EXCEPT ![o.at] = x]
        /\ IF o.kind = "install" THEN rec' = None /\ metadata' = None ELSE UNCHANGED <<rec, metadata>>
        /\ IF o.kind = "update" THEN DeleteBlobs({o.new.key}) ELSE UNCHANGED blobs
        /\ odd' = IF o.pc = "meta" /\ o.kind # "install" THEN odd \cup {"half"} ELSE odd
        /\ missed' = IF o.kind = "install" /\ o.pc = "meta"
                     THEN missed \cup {q \in Replicas \ {o.at} : run[q] # None}
                     ELSE missed
        /\ Done(a)
        /\ UNCHANGED <<vers, inbox, listening, hand, clock, ops>>

(* Disable unloads after the record is saved.                              *)
Stop(a) ==
    /\ op[a].pc = "stop"
    /\ run' = [run EXCEPT ![op[a].at] = None]
    /\ Goto(a, "finish")
    /\ UNCHANGED <<db, blobs, inbox, listening, hand, clock, history>>

(* The version of an install or update is saved as well as possible.       *)
Finish(a) ==
    /\ op[a].pc = "finish"
    /\ Publish(op[a].at, op[a].kind)
    /\ IF op[a].kind \in {"install", "update"}
       THEN (SaveVersion(op[a].new) /\ NoFault) \/ (UNCHANGED vers /\ Fault)
       ELSE UNCHANGED vers /\ NoFault
    /\ Done(a)
    /\ UNCHANGED <<rec, metadata, blobs, run, listening, hand, clock, ops, odd>>

PublishError(a) ==
    /\ op[a].pc = "finish" /\ Fault
    /\ missed' = missed \cup (Replicas \ {op[a].at})
    /\ IF op[a].kind \in {"install", "update"} THEN SaveVersion(op[a].new) ELSE UNCHANGED vers
    /\ Done(a)
    /\ UNCHANGED <<rec, metadata, blobs, run, inbox, listening, hand, clock, ops, odd>>

-----------------------------------------------------------------------------
(* Deleting.                                                               *)

DeleteUnload(a) ==
    /\ op[a].pc = "unload"
    /\ run' = [run EXCEPT ![op[a].at] = None]
    /\ Goto(a, "blobs")
    /\ UNCHANGED <<db, blobs, inbox, listening, hand, clock, history>>

(* cleanupVersionBlobs and the active binary, before the record.           *)
CleanupBlobs(a) ==
    /\ op[a].pc = "blobs"
    /\ DeleteBlobs({op[a].old.key} \cup {v.key : v \in vers})
    /\ Goto(a, "rows")
    /\ UNCHANGED <<db, run, inbox, listening, hand, clock, history>>

DeleteRows(a) ==
    /\ op[a].pc = "rows" /\ rec # None
    /\ rec' = None /\ metadata' = None /\ vers' = {}
    /\ Goto(a, "finish")
    /\ UNCHANGED <<blobs, run, inbox, listening, hand, clock, history>>

(* The record is gone already, or cannot be deleted: nobody is told.       *)
DeleteError(a) ==
    /\ op[a].pc = "rows"
    /\ IF rec = None THEN NoFault ELSE Fault
    /\ odd' = odd \cup {"half"}
    /\ Done(a)
    /\ UNCHANGED <<db, blobs, run, inbox, listening, hand, clock, ops, missed>>

DropVersion(a) ==
    LET v == op[a].new
    IN  /\ op[a].pc = "drop"
        /\ IF \E w \in vers \ {v} : w.key = v.key THEN UNCHANGED blobs ELSE DeleteBlobs({v.key})
        /\ vers' = vers \ {v}
        /\ Done(a)
        /\ UNCHANGED <<rec, metadata, run, inbox, listening, hand, clock, history>>

-----------------------------------------------------------------------------
(* The other replicas.                                                     *)

(* HandleEvent reads the record; disabled and deleted plugins are removed  *)
(* without a look at it.                                                   *)
HandleEvent(r) ==
    LET kind == Head(inbox[r])
    IN  /\ inbox[r] # <<>> /\ hand[r].kind = "none"
        /\ inbox' = [inbox EXCEPT ![r] = Tail(@)]
        /\ IF kind \in {"disable", "delete"}
           THEN run' = [run EXCEPT ![r] = None] /\ UNCHANGED hand
           ELSE /\ hand' = IF rec = None \/ (rec # None /\ ~rec.enabled) THEN hand
                           ELSE IF kind = "config" /\ run[r] = None THEN hand
                           ELSE [hand EXCEPT ![r] = [kind |-> kind, rec |-> rec]]
                /\ UNCHANGED run
        /\ UNCHANGED <<db, blobs, listening, op, clock, history>>

(* loadFromStore and applyStoredConfig, once the record was read.          *)
Follow(r) ==
    LET x == hand[r].rec
    IN  IF hand[r].kind = "config"
        THEN IF run[r] = None THEN {} ELSE WithConfig(r, x.key, x.cfg)
        ELSE IF blobs[x.key] = None THEN {} ELSE {[bin |-> blobs[x.key], cfg |-> x.cfg]}

Unhand(r) == hand' = [hand EXCEPT ![r] = [kind |-> "none", rec |-> None]]

LoadFromStore(r) ==
    /\ hand[r].kind # "none"
    /\ \E x \in Follow(r) : run' = [run EXCEPT ![r] = x]
    /\ Unhand(r)
    /\ UNCHANGED <<db, blobs, inbox, listening, op, clock, history>>

LoadError(r) ==
    /\ hand[r].kind # "none"
    /\ IF Follow(r) = {} THEN NoFault ELSE Fault
    /\ missed' = missed \cup {r}
    /\ Unhand(r)
    /\ UNCHANGED <<db, blobs, run, inbox, listening, op, clock, ops, odd>>

(* The listener loses its connection and connects again after a while.     *)
Disconnect(r) ==
    /\ listening[r] /\ Fault
    /\ listening' = [listening EXCEPT ![r] = FALSE]
    /\ inbox' = [inbox EXCEPT ![r] = <<>>]
    /\ missed' = IF inbox[r] = <<>> THEN missed ELSE missed \cup {r}
    /\ UNCHANGED <<db, blobs, run, hand, op, clock, ops, odd>>

Reconnect(r) ==
    /\ ~listening[r]
    /\ listening' = [listening EXCEPT ![r] = TRUE]
    /\ UNCHANGED <<db, blobs, run, inbox, hand, op, clock, history>>

(* AutoloadPlugins.                                                        *)
Autoload ==
    IF rec = None \/ (rec # None /\ ~rec.enabled) THEN None
    ELSE IF blobs[rec.key] = None THEN None
    ELSE [bin |-> blobs[rec.key], cfg |-> rec.cfg]

(* The process dies with its requests and starts again.                    *)
Restart(r) ==
    LET mine == {a \in Requests : op[a].at = r}
        untold == \E a \in mine : op[a].pc \in {"meta", "finish", "stop"}
    IN  /\ Fault
        /\ op' = [a \in Requests |-> IF a \in mine THEN Idle ELSE op[a]]
        /\ run' = [run EXCEPT ![r] = Autoload]
        /\ inbox' = [inbox EXCEPT ![r] = <<>>]
        /\ listening' = [listening EXCEPT ![r] = TRUE]
        /\ Unhand(r)
        /\ missed' = (missed \ {r}) \cup (IF untold THEN Replicas \ {r} ELSE {})
        /\ odd' = IF \E a \in mine : op[a].pc \in {"meta", "blobs", "rows"}
                  THEN odd \cup {"half"} ELSE odd
        /\ UNCHANGED <<db, blobs, clock, ops>>

Tick ==
    /\ clock < MaxClock
    /\ clock' = clock + 1
    /\ UNCHANGED <<db, blobs, run, inbox, listening, hand, op, history>>

-----------------------------------------------------------------------------
Next ==
    \/ \E b \in Binaries : Upload(b)
    \/ \E a \in Requests, r \in Replicas :
          \/ Enable(a, r) \/ Disable(a, r) \/ Delete(a, r)
          \/ \E b \in Binaries : Update(a, r, b)
          \/ \E c \in Configs : UpdateConfig(a, r, c) \/ \E k \in Binaries : Install(a, r, k, c)
          \/ \E v \in vers : Rollback(a, r, v) \/ DeleteVersion(a, r, v)
    \/ \E a \in Requests :
          \/ Runtime(a) \/ RuntimeError(a) \/ Save(a) \/ SaveMeta(a) \/ SaveError(a)
          \/ Stop(a) \/ Finish(a) \/ PublishError(a)
          \/ DeleteUnload(a) \/ CleanupBlobs(a) \/ DeleteRows(a) \/ DeleteError(a) \/ DropVersion(a)
    \/ \E r \in Replicas :
          \/ HandleEvent(r) \/ LoadFromStore(r) \/ LoadError(r)
          \/ Disconnect(r) \/ Reconnect(r) \/ Restart(r)
    \/ Tick

Spec == Init /\ [][Next]_vars

-----------------------------------------------------------------------------
(* After requests that did not overlap, successful, failed or cut off by a *)
(* restart, every replica that missed no change runs what the record says, *)
(* and the metadata describes it.  A change is missed when its             *)
(* notification is lost or fails, or when there is none: an install that   *)
(* is undone tells no replica that loaded it meanwhile.  A request whose   *)
(* metadata save or row deletion failed is excused: the service leaves it  *)
(* half done.                                                              *)
ReplicasFollowRecord ==
    Quiet /\ odd \cap {"overlap", "half", "same second"} = {} =>
        /\ \A r \in Replicas \ missed :
              run[r] = IF rec = None \/ (rec # None /\ ~rec.enabled) THEN None ELSE Runs(rec)
        /\ metadata = IF rec = None THEN None ELSE rec.bin

(* The binary of the record and of every version is in the blob store, as  *)
(* recorded, also while requests overlap: a failed update deletes only its *)
(* own.  Excused are two updates in one second, deletions that overlap     *)
(* other requests, and requests left half done.  (Delete itself removes    *)
(* the binaries before the rows.)                                          *)
BinariesKept ==
    (\A a \in Requests : op[a].kind \notin {"delete", "drop"})
      /\ odd \cap {"half", "overlapped delete", "same second"} = {} =>
        \A x \in vers \cup ({rec} \ {None}) : blobs[x.key] = x.bin
=============================================================================
