-------------------------- MODULE PluginLoaderProofs --------------------------
(***************************************************************************)
(* Proofs about the loader of one plugin, for any binaries, pool size,     *)
(* administrators and calls: a pool's slots are accounted for, an instance *)
(* that was closed without the drain time-out had no counted call left,    *)
(* and operations that do not overlap leave everything on one version.     *)
(***************************************************************************)
EXTENDS PluginLoader, Integers, FiniteSetTheorems, TLAPS

(* Types, and where instances may be referred to.  An instance that is     *)
(* prepared and not yet inserted is known to its own operation only, so    *)
(* that abortReload closes a pool in which no call can run.                *)

Instance ==
    [bin : Binaries, cfg : Configs \cup {None}, draining : BOOLEAN, active : Int, drained : BOOLEAN,
     pool : {"open", "closing", "gone"}, free : Nat, taken : Nat, forced : BOOLEAN, givenBack : BOOLEAN]

OpPcs ==
    {"idle", "prepare", "activate", "configure", "migrate", "insert", "revoke", "unregister", "register",
     "drain", "signal", "wait", "close", "slots", "sync", "reconfigure"}

Op == [pc : OpPcs, kind : {"none", "load", "reload", "unload", "reconfigure"},
       bin : Binaries \cup {None}, cfg : Configs \cup {None}, old : Nat, new : Nat]

Call == [pc : {"idle", "call", "queued", "running", "release", "signal"}, in : Nat, counted : BOOLEAN]

OpOK(o) ==
    /\ o.old <= Len(inst) /\ o.new <= Len(inst)
    /\ o.pc # "idle" => o.kind # "none" /\ (o.kind # "load" => o.old # 0)
    /\ o.pc \in {"prepare", "activate", "configure", "migrate"} => o.bin \in Binaries
    /\ o.pc \in {"prepare", "activate", "configure", "insert"} => o.kind \in {"load", "reload"}
    /\ o.pc = "migrate" => o.kind = "reload"
    /\ o.pc \in {"drain", "signal", "wait", "close", "slots"} => o.kind \in {"reload", "unload"}
    /\ o.pc = "revoke" => o.kind = "unload"
    /\ o.pc = "unregister" => o.kind \in {"reload", "unload"}
    /\ o.pc = "register" => o.kind \in {"load", "reload"}
    /\ o.pc = "sync" => o.kind \in {"load", "reload", "unload"}
    /\ o.pc = "reconfigure" => o.kind = "reconfigure"

CallOK(k) == k.in <= Len(inst) /\ (k.pc # "idle" => k.in # 0)

LoaderTypeOK ==
    /\ inst \in Seq(Instance)
    /\ loaded \in 0..Len(inst) /\ mgr \in 0..Len(inst)
    /\ op \in [Admins -> Op] /\ \A a \in Admins : OpOK(op[a])
    /\ call \in [Calls -> Call] /\ \A c \in Calls : CallOK(call[c])

Unplaced(n) ==
    /\ n # loaded /\ n # mgr
    /\ \A a \in Admins : op[a].old # n
    /\ \A c \in Calls : call[c].in # n

Prepared == \A a \in Admins : op[a].pc \in {"migrate", "insert"} =>
    /\ op[a].new # 0 /\ Unplaced(op[a].new)
    /\ \A b \in Admins : b # a => op[b].new # op[a].new

LoaderInv == LoaderTypeOK /\ Prepared

\* An instance that no one can reach any more.
Discarded(i) == Unplaced(i) /\ \A a \in Admins : op[a].new # i

\* A process starts with nothing loaded or with one instance, and no operation.
LEMMA LoaderInitInv == Init => LoaderInv
  <1> SUFFICES ASSUME Init
               PROVE  LoaderInv
    OBVIOUS
  <1>1. \A b \in Binaries, c \in Configs \cup {None} : NewInstance(b, c) \in Instance
    BY PluginLoaderAssumption DEF NewInstance, Instance
  <1>2. inst \in Seq(Instance) /\ loaded = Len(inst) /\ mgr = Len(inst)
    <2>1. \/ inst = <<>>
          \/ \E b \in Binaries, c \in Configs \cup {None} : inst = <<NewInstance(b, c)>>
      BY DEF Init
    <2>2. ASSUME NEW r \in Instance
          PROVE  <<r>> \in Seq(Instance)
      OBVIOUS
    <2>3. ASSUME inst = <<>>
          PROVE  inst \in Seq(Instance)
      BY <2>3
    <2>4. ASSUME NEW b \in Binaries, NEW c \in Configs \cup {None}, inst = <<NewInstance(b, c)>>
          PROVE  inst \in Seq(Instance)
      BY <1>1, <2>2, <2>4
    <2>5. inst \in Seq(Instance)
      BY <2>1, <2>3, <2>4
    <2> QED
      BY <2>5 DEF Init
  <1>3. Len(inst) \in Nat
    BY <1>2
  <1>4. /\ IdleOp \in Op /\ IdleOp.pc = "idle" /\ IdleOp.old = 0 /\ IdleOp.new = 0
        /\ op = [a \in Admins |-> IdleOp]
    BY DEF IdleOp, Op, OpPcs, Init
  <1>5. IdleCall \in Call /\ IdleCall.pc = "idle" /\ IdleCall.in = 0 /\ call = [c \in Calls |-> IdleCall]
    BY DEF IdleCall, Call, Init
  <1> QED
    BY <1>2, <1>3, <1>4, <1>5 DEF LoaderInv, LoaderTypeOK, Prepared, OpOK, CallOK

(* One instance is replaced. *)
Reshaped == inst' \in Seq(Instance) /\ Len(inst') = Len(inst)

\* A sequence with one entry replaced.
LEMMA SequenceUpdate ==
  ASSUME NEW S, NEW s \in Seq(S), NEW i \in 1..Len(s), NEW r \in S, NEW t, t = [s EXCEPT ![i] = r]
  PROVE  t \in Seq(S) /\ Len(t) = Len(s) /\ \A j \in 1..Len(s) : t[j] = IF j = i THEN r ELSE s[j]
  OBVIOUS

\* The same of the instances.
LEMMA UpdatedAt ==
  ASSUME inst \in Seq(Instance), NEW i \in 1..Len(inst), NEW r \in Instance, inst' = [inst EXCEPT ![i] = r]
  PROVE  Reshaped /\ \A j \in 1..Len(inst) : inst'[j] = IF j = i THEN r ELSE inst[j]
  BY DEF Reshaped

(* A step of one administrator, whatever it does to the fields of the      *)
(* instances.  What is loaded, kept by the manager or named by operations  *)
(* is drawn from what was; only the operation itself places its instance.  *)
LEMMA AdminStep ==
  ASSUME LoaderInv, NEW a \in Admins, NEW o \in Op, op' = [op EXCEPT ![a] = o], call' = call,
         inst' \in Seq(Instance), Len(inst') = Len(inst), OpOK(o),
         \/ loaded' \in {loaded, 0}
         \/ loaded' = op[a].new /\ o.pc \notin {"migrate", "insert"},
         \/ mgr' \in {mgr, 0, loaded}
         \/ mgr' = op[a].new /\ op[a].pc = "sync" /\ o.pc \notin {"migrate", "insert"},
         o.old \in {op[a].old, loaded, 0}, o.new \in {op[a].new, 0},
         o.pc \in {"migrate", "insert"} => op[a].pc \in {"migrate", "insert"} /\ o.new = op[a].new
  PROVE  LoaderInv' /\ \A j \in 1..Len(inst) : Discarded(j) => Discarded(j)'
  <1>1. /\ op' \in [Admins -> Op] /\ op'[a] = o
        /\ \A b \in Admins : b # a => op'[b] = op[b]
    BY DEF LoaderInv, LoaderTypeOK
  <1>2. Len(inst) \in Nat /\ op[a] \in Op /\ OpOK(op[a]) /\ loaded \in 0..Len(inst) /\ mgr \in 0..Len(inst)
    BY DEF LoaderInv, LoaderTypeOK
  <1>3. \A b \in Admins : OpOK(op[b])'
    BY <1>1 DEF LoaderInv, LoaderTypeOK, OpOK
  <1>4. \A c \in Calls : CallOK(call[c])'
    BY DEF LoaderInv, LoaderTypeOK, CallOK
  <1>5. op[a].new \in 0..Len(inst)
    BY <1>2 DEF OpOK, Op
  <1>6. LoaderTypeOK'
    BY <1>1, <1>2, <1>3, <1>4, <1>5 DEF LoaderInv, LoaderTypeOK
  <1>7. ASSUME NEW n \in 1..Len(inst), Unplaced(n),
               n = op[a].new => op[a].pc \in {"migrate", "insert"} /\ o.pc \in {"migrate", "insert"}
        PROVE  Unplaced(n)'
    BY <1>1, <1>7 DEF Unplaced
  <1>8. Prepared'
    <2> SUFFICES ASSUME NEW b \in Admins, op'[b].pc \in {"migrate", "insert"}
                 PROVE  /\ op'[b].new # 0 /\ Unplaced(op[b].new)'
                        /\ \A d \in Admins : d # b => op'[d].new # op'[b].new
      BY DEF Prepared
    <2>1. op[b].pc \in {"migrate", "insert"} /\ op'[b].new = op[b].new
      BY <1>1
    <2>2. /\ op[b].new # 0 /\ Unplaced(op[b].new)
          /\ \A d \in Admins : d # b => op[d].new # op[b].new
      BY <2>1 DEF LoaderInv, Prepared
    <2>3. op[b].new \in 1..Len(inst)
      BY <1>2, <2>2 DEF LoaderInv, LoaderTypeOK, OpOK, Op
    <2>4. PICK n \in 1..Len(inst) : n = op[b].new
      BY <2>3
    <2>5. n = op[a].new => op[a].pc \in {"migrate", "insert"} /\ o.pc \in {"migrate", "insert"}
      BY <1>1, <2>1, <2>2, <2>4
    <2>6. Unplaced(n)'
      BY <1>7, <2>2, <2>4, <2>5
    <2>7. Unplaced(op[b].new)'
      BY <2>1, <2>4, <2>6 DEF Unplaced
    <2>8. \A d \in Admins : d # b => op'[d].new # op'[b].new
      BY <1>1, <2>1, <2>2
    <2> QED
      BY <2>1, <2>2, <2>7, <2>8
  <1>9. ASSUME NEW j \in 1..Len(inst), Discarded(j)
        PROVE  Discarded(j)'
    BY <1>1, <1>7, <1>9 DEF Discarded
  <1> QED
    BY <1>6, <1>8, <1>9 DEF LoaderInv

(* A step of one call. *)
LEMMA CallStep ==
  ASSUME LoaderInv, NEW c \in Calls, NEW k \in Call, call' = [call EXCEPT ![c] = k], CallOK(k),
         UNCHANGED <<op, loaded, mgr>>, inst' \in Seq(Instance), Len(inst') = Len(inst),
         k.in \in {call[c].in, loaded, mgr, 0}
  PROVE  LoaderInv' /\ \A j \in 1..Len(inst) : Discarded(j) => Discarded(j)'
  <1>1. /\ call' \in [Calls -> Call] /\ call'[c] = k
        /\ \A d \in Calls : d # c => call'[d] = call[d]
    BY DEF LoaderInv, LoaderTypeOK
  <1>2. LoaderTypeOK'
    BY <1>1 DEF LoaderInv, LoaderTypeOK, OpOK, CallOK
  <1>3. ASSUME NEW n, n # 0, Unplaced(n)
        PROVE  Unplaced(n)'
    BY <1>1, <1>3 DEF Unplaced
  <1>4. \A n : n # 0 /\ Unplaced(n) => Unplaced(n)'
    BY <1>3
  <1>5. Prepared'
    <2> SUFFICES ASSUME NEW b \in Admins, op[b].pc \in {"migrate", "insert"}
                 PROVE  /\ op[b].new # 0 /\ Unplaced(op[b].new)'
                        /\ \A d \in Admins : d # b => op[d].new # op[b].new
      BY DEF Prepared
    <2>1. /\ op[b].new # 0 /\ Unplaced(op[b].new)
          /\ \A d \in Admins : d # b => op[d].new # op[b].new
      BY DEF LoaderInv, Prepared
    <2> QED
      BY <1>1, <2>1 DEF Unplaced
  <1> QED
    BY <1>2, <1>4, <1>5 DEF LoaderInv, Discarded

-----------------------------------------------------------------------------
(* What the updates of one instance leave alone. *)

SameSlots(r, s) == r.pool = s.pool /\ r.free = s.free /\ r.taken = s.taken

SameDrain(r, s) ==
    /\ r.draining <=> s.draining
    /\ r.active = s.active
    /\ r.drained <=> s.drained
    /\ r.forced <=> s.forced
    /\ r.givenBack <=> s.givenBack

(* beginReload, drainPlugin. *)
LEMMA StartsDraining ==
  ASSUME LoaderInv, NEW i \in 1..Len(inst),
         inst' = [inst EXCEPT ![i].draining = TRUE]
  PROVE  /\ Reshaped
         /\ \A j \in 1..Len(inst) :
               /\ SameSlots(inst'[j], inst[j])
               /\ inst'[j].draining <=> inst[j].draining \/ j = i
               /\ inst'[j].active = inst[j].active
               /\ inst'[j].drained <=> inst[j].drained
               /\ inst'[j].forced <=> inst[j].forced
               /\ inst'[j].givenBack <=> inst[j].givenBack
  <1> DEFINE r == [inst[i] EXCEPT !.draining = TRUE]
  <1>1. inst \in Seq(Instance) /\ inst[i] \in Instance
    BY DEF LoaderInv, LoaderTypeOK
  <1>2. inst' = [inst EXCEPT ![i] = r]
    BY <1>1
  <1>4. r \in Instance
    BY <1>1 DEF Instance
  <1>5. /\ r.draining /\ r.active = inst[i].active /\ (r.drained <=> inst[i].drained) /\ r.pool = inst[i].pool
        /\ r.free = inst[i].free /\ r.taken = inst[i].taken /\ (r.forced <=> inst[i].forced) /\ (r.givenBack <=> inst[i].givenBack)
    BY <1>1 DEF Instance
  <1> HIDE DEF r
  <1>6. /\ Reshaped
        /\ \A j \in 1..Len(inst) : inst'[j] = IF j = i THEN r ELSE inst[j]
    BY <1>1, <1>2, <1>4, UpdatedAt
  <1> QED
    BY <1>5, <1>6 DEF SameSlots, SameDrain

(* A failed reload. *)
LEMMA GivesBack ==
  ASSUME LoaderInv, NEW i \in 1..Len(inst),
         inst' = Undrain(i)
  PROVE  /\ Reshaped
         /\ \A j \in 1..Len(inst) :
               /\ SameSlots(inst'[j], inst[j])
               /\ inst'[j].draining <=> inst[j].draining /\ j # i
               /\ inst'[j].active = inst[j].active
               /\ inst'[j].drained <=> inst[j].drained
               /\ inst'[j].forced <=> inst[j].forced
               /\ inst'[j].givenBack <=> inst[j].givenBack \/ j = i
  <1> DEFINE r == [inst[i] EXCEPT !.draining = FALSE, !.givenBack = TRUE]
  <1>1. inst \in Seq(Instance) /\ inst[i] \in Instance
    BY DEF LoaderInv, LoaderTypeOK
  <1>2. inst' = [inst EXCEPT ![i] = r]
    BY <1>1 DEF Undrain
  <1>4. r \in Instance
    BY <1>1 DEF Instance
  <1>5. /\ ~r.draining /\ r.active = inst[i].active /\ (r.drained <=> inst[i].drained) /\ r.pool = inst[i].pool
        /\ r.free = inst[i].free /\ r.taken = inst[i].taken /\ (r.forced <=> inst[i].forced) /\ r.givenBack
    BY <1>1 DEF Instance
  <1> HIDE DEF r
  <1>6. /\ Reshaped
        /\ \A j \in 1..Len(inst) : inst'[j] = IF j = i THEN r ELSE inst[j]
    BY <1>1, <1>2, <1>4, UpdatedAt
  <1> QED
    BY <1>5, <1>6 DEF SameSlots, SameDrain

(* close(drained). *)
LEMMA Signals ==
  ASSUME LoaderInv, NEW i \in 1..Len(inst),
         inst' = [inst EXCEPT ![i].drained = TRUE]
  PROVE  /\ Reshaped
         /\ \A j \in 1..Len(inst) :
               /\ SameSlots(inst'[j], inst[j])
               /\ inst'[j].draining <=> inst[j].draining
               /\ inst'[j].active = inst[j].active
               /\ inst'[j].drained <=> inst[j].drained \/ j = i
               /\ inst'[j].forced <=> inst[j].forced
               /\ inst'[j].givenBack <=> inst[j].givenBack
  <1> DEFINE r == [inst[i] EXCEPT !.drained = TRUE]
  <1>1. inst \in Seq(Instance) /\ inst[i] \in Instance
    BY DEF LoaderInv, LoaderTypeOK
  <1>2. inst' = [inst EXCEPT ![i] = r]
    BY <1>1
  <1>4. r \in Instance
    BY <1>1 DEF Instance
  <1>5. /\ (r.draining <=> inst[i].draining) /\ r.active = inst[i].active /\ r.drained /\ r.pool = inst[i].pool
        /\ r.free = inst[i].free /\ r.taken = inst[i].taken /\ (r.forced <=> inst[i].forced) /\ (r.givenBack <=> inst[i].givenBack)
    BY <1>1 DEF Instance
  <1> HIDE DEF r
  <1>6. /\ Reshaped
        /\ \A j \in 1..Len(inst) : inst'[j] = IF j = i THEN r ELSE inst[j]
    BY <1>1, <1>2, <1>4, UpdatedAt
  <1> QED
    BY <1>5, <1>6 DEF SameSlots, SameDrain

(* The drain time-out. *)
LEMMA Forces ==
  ASSUME LoaderInv, NEW i \in 1..Len(inst),
         inst' = [inst EXCEPT ![i].forced = TRUE]
  PROVE  /\ Reshaped
         /\ \A j \in 1..Len(inst) :
               /\ SameSlots(inst'[j], inst[j])
               /\ inst'[j].draining <=> inst[j].draining
               /\ inst'[j].active = inst[j].active
               /\ inst'[j].drained <=> inst[j].drained
               /\ inst'[j].forced <=> inst[j].forced \/ j = i
               /\ inst'[j].givenBack <=> inst[j].givenBack
  <1> DEFINE r == [inst[i] EXCEPT !.forced = TRUE]
  <1>1. inst \in Seq(Instance) /\ inst[i] \in Instance
    BY DEF LoaderInv, LoaderTypeOK
  <1>2. inst' = [inst EXCEPT ![i] = r]
    BY <1>1
  <1>4. r \in Instance
    BY <1>1 DEF Instance
  <1>5. /\ (r.draining <=> inst[i].draining) /\ r.active = inst[i].active /\ (r.drained <=> inst[i].drained) /\ r.pool = inst[i].pool
        /\ r.free = inst[i].free /\ r.taken = inst[i].taken /\ r.forced /\ (r.givenBack <=> inst[i].givenBack)
    BY <1>1 DEF Instance
  <1> HIDE DEF r
  <1>6. /\ Reshaped
        /\ \A j \in 1..Len(inst) : inst'[j] = IF j = i THEN r ELSE inst[j]
    BY <1>1, <1>2, <1>4, UpdatedAt
  <1> QED
    BY <1>5, <1>6 DEF SameSlots, SameDrain

(* ModulePool.Close. *)
LEMMA StartsClosing ==
  ASSUME LoaderInv, NEW i \in 1..Len(inst),
         inst' = [inst EXCEPT ![i].pool = IF @ = "open" THEN "closing" ELSE @]
  PROVE  /\ Reshaped
         /\ \A j \in 1..Len(inst) :
               /\ inst'[j].pool = IF j = i THEN (IF inst[i].pool = "open" THEN "closing" ELSE inst[i].pool) ELSE inst[j].pool
               /\ inst'[j].free = inst[j].free
               /\ inst'[j].taken = inst[j].taken
               /\ SameDrain(inst'[j], inst[j])
  <1> DEFINE pool == IF inst[i].pool = "open" THEN "closing" ELSE inst[i].pool
             r == [inst[i] EXCEPT !.pool = pool]
  <1>1. inst \in Seq(Instance) /\ inst[i] \in Instance
    BY DEF LoaderInv, LoaderTypeOK
  <1>2. inst' = [inst EXCEPT ![i] = r]
    BY <1>1
  <1>3. pool \in {"open", "closing", "gone"}
    BY <1>1 DEF Instance
  <1> HIDE DEF pool
  <1>4. r \in Instance
    BY <1>1, <1>3 DEF Instance
  <1>5. /\ (r.draining <=> inst[i].draining) /\ r.active = inst[i].active /\ (r.drained <=> inst[i].drained) /\ r.pool = pool
        /\ r.free = inst[i].free /\ r.taken = inst[i].taken /\ (r.forced <=> inst[i].forced) /\ (r.givenBack <=> inst[i].givenBack)
    BY <1>1 DEF Instance
  <1> HIDE DEF r
  <1>6. /\ Reshaped
        /\ \A j \in 1..Len(inst) : inst'[j] = IF j = i THEN r ELSE inst[j]
    BY <1>1, <1>2, <1>4, UpdatedAt
  <1> QED
    BY <1>5, <1>6 DEF SameSlots, SameDrain, pool

(* ModulePool.Close takes a slot. *)
LEMMA ClosesSlot ==
  ASSUME LoaderInv, NEW i \in 1..Len(inst), inst[i].free > 0,
         inst' = [inst EXCEPT ![i].free = @ - 1, ![i].taken = @ + 1,
                         ![i].pool = IF inst[i].taken + 1 = PoolSize THEN "gone" ELSE @]
  PROVE  /\ Reshaped
         /\ \A j \in 1..Len(inst) :
               /\ inst'[j].pool = IF j = i THEN (IF inst[i].taken + 1 = PoolSize THEN "gone" ELSE inst[i].pool) ELSE inst[j].pool
               /\ inst'[j].free = IF j = i THEN inst[i].free - 1 ELSE inst[j].free
               /\ inst'[j].taken = IF j = i THEN inst[i].taken + 1 ELSE inst[j].taken
               /\ SameDrain(inst'[j], inst[j])
  <1> DEFINE free == inst[i].free - 1
             taken == inst[i].taken + 1
             pool == IF inst[i].taken + 1 = PoolSize THEN "gone" ELSE inst[i].pool
             r == [inst[i] EXCEPT !.free = free, !.taken = taken, !.pool = pool]
  <1>1. inst \in Seq(Instance) /\ inst[i] \in Instance
    BY DEF LoaderInv, LoaderTypeOK
  <1>2. inst' = [inst EXCEPT ![i] = r]
    BY <1>1
  <1>3. free \in Nat /\ taken \in Nat /\ pool \in {"open", "closing", "gone"}
    <2>1. free \in Nat /\ taken \in Nat
      BY <1>1, SMTT(30) DEF Instance
    <2>2. inst[i].pool \in {"open", "closing", "gone"}
      BY <1>1 DEF Instance
    <2> QED
      BY <2>1, <2>2
  <1> HIDE DEF free, taken, pool
  <1>4. r \in Instance
    BY <1>1, <1>3 DEF Instance
  <1>5. /\ (r.draining <=> inst[i].draining) /\ r.active = inst[i].active /\ (r.drained <=> inst[i].drained) /\ r.pool = pool
        /\ r.free = free /\ r.taken = taken /\ (r.forced <=> inst[i].forced) /\ (r.givenBack <=> inst[i].givenBack)
    BY <1>1 DEF Instance
  <1> HIDE DEF r
  <1>6. /\ Reshaped
        /\ \A j \in 1..Len(inst) : inst'[j] = IF j = i THEN r ELSE inst[j]
    BY <1>1, <1>2, <1>4, UpdatedAt
  <1> QED
    BY <1>5, <1>6 DEF SameSlots, SameDrain, free, taken, pool

(* The new configuration. *)
LEMMA KeepsConfig ==
  ASSUME LoaderInv, NEW i \in 1..Len(inst), NEW cfg \in Configs \cup {None},
         inst' = [inst EXCEPT ![i].cfg = cfg]
  PROVE  /\ Reshaped
         /\ \A j \in 1..Len(inst) :
               /\ SameSlots(inst'[j], inst[j])
               /\ SameDrain(inst'[j], inst[j])
  <1> DEFINE r == [inst[i] EXCEPT !.cfg = cfg]
  <1>1. inst \in Seq(Instance) /\ inst[i] \in Instance
    BY DEF LoaderInv, LoaderTypeOK
  <1>2. inst' = [inst EXCEPT ![i] = r]
    BY <1>1
  <1>4. r \in Instance
    BY <1>1 DEF Instance
  <1>5. /\ (r.draining <=> inst[i].draining) /\ r.active = inst[i].active /\ (r.drained <=> inst[i].drained) /\ r.pool = inst[i].pool
        /\ r.free = inst[i].free /\ r.taken = inst[i].taken /\ (r.forced <=> inst[i].forced) /\ (r.givenBack <=> inst[i].givenBack)
    BY <1>1 DEF Instance
  <1> HIDE DEF r
  <1>6. /\ Reshaped
        /\ \A j \in 1..Len(inst) : inst'[j] = IF j = i THEN r ELSE inst[j]
    BY <1>1, <1>2, <1>4, UpdatedAt
  <1> QED
    BY <1>5, <1>6 DEF SameSlots, SameDrain

(* AcquirePlugin. *)
LEMMA Enters ==
  ASSUME LoaderInv, NEW i \in 1..Len(inst),
         inst' = [inst EXCEPT ![i].active = @ + 1]
  PROVE  /\ Reshaped
         /\ \A j \in 1..Len(inst) :
               /\ SameSlots(inst'[j], inst[j])
               /\ inst'[j].draining <=> inst[j].draining
               /\ inst'[j].active = IF j = i THEN inst[i].active + 1 ELSE inst[j].active
               /\ inst'[j].drained <=> inst[j].drained
               /\ inst'[j].forced <=> inst[j].forced
               /\ inst'[j].givenBack <=> inst[j].givenBack
  <1> DEFINE active == inst[i].active + 1
             r == [inst[i] EXCEPT !.active = active]
  <1>1. inst \in Seq(Instance) /\ inst[i] \in Instance
    BY DEF LoaderInv, LoaderTypeOK
  <1>2. inst' = [inst EXCEPT ![i] = r]
    BY <1>1
  <1>3. active \in Int
    BY <1>1 DEF Instance
  <1> HIDE DEF active
  <1>4. r \in Instance
    BY <1>1, <1>3 DEF Instance
  <1>5. /\ (r.draining <=> inst[i].draining) /\ r.active = active /\ (r.drained <=> inst[i].drained) /\ r.pool = inst[i].pool
        /\ r.free = inst[i].free /\ r.taken = inst[i].taken /\ (r.forced <=> inst[i].forced) /\ (r.givenBack <=> inst[i].givenBack)
    BY <1>1 DEF Instance
  <1> HIDE DEF r
  <1>6. /\ Reshaped
        /\ \A j \in 1..Len(inst) : inst'[j] = IF j = i THEN r ELSE inst[j]
    BY <1>1, <1>2, <1>4, UpdatedAt
  <1> QED
    BY <1>5, <1>6 DEF SameSlots, SameDrain, active

(* The release function. *)
LEMMA Leaves ==
  ASSUME LoaderInv, NEW i \in 1..Len(inst),
         inst' = [inst EXCEPT ![i].active = @ - 1]
  PROVE  /\ Reshaped
         /\ \A j \in 1..Len(inst) :
               /\ SameSlots(inst'[j], inst[j])
               /\ inst'[j].draining <=> inst[j].draining
               /\ inst'[j].active = IF j = i THEN inst[i].active - 1 ELSE inst[j].active
               /\ inst'[j].drained <=> inst[j].drained
               /\ inst'[j].forced <=> inst[j].forced
               /\ inst'[j].givenBack <=> inst[j].givenBack
  <1> DEFINE active == inst[i].active - 1
             r == [inst[i] EXCEPT !.active = active]
  <1>1. inst \in Seq(Instance) /\ inst[i] \in Instance
    BY DEF LoaderInv, LoaderTypeOK
  <1>2. inst' = [inst EXCEPT ![i] = r]
    BY <1>1
  <1>3. active \in Int
    BY <1>1 DEF Instance
  <1> HIDE DEF active
  <1>4. r \in Instance
    BY <1>1, <1>3 DEF Instance
  <1>5. /\ (r.draining <=> inst[i].draining) /\ r.active = active /\ (r.drained <=> inst[i].drained) /\ r.pool = inst[i].pool
        /\ r.free = inst[i].free /\ r.taken = inst[i].taken /\ (r.forced <=> inst[i].forced) /\ (r.givenBack <=> inst[i].givenBack)
    BY <1>1 DEF Instance
  <1> HIDE DEF r
  <1>6. /\ Reshaped
        /\ \A j \in 1..Len(inst) : inst'[j] = IF j = i THEN r ELSE inst[j]
    BY <1>1, <1>2, <1>4, UpdatedAt
  <1> QED
    BY <1>5, <1>6 DEF SameSlots, SameDrain, active

(* A call gets a slot. *)
LEMMA TakesSlot ==
  ASSUME LoaderInv, NEW i \in 1..Len(inst), inst[i].free > 0,
         inst' = [inst EXCEPT ![i].free = @ - 1]
  PROVE  /\ Reshaped
         /\ \A j \in 1..Len(inst) :
               /\ inst'[j].pool = inst[j].pool
               /\ inst'[j].free = IF j = i THEN inst[i].free - 1 ELSE inst[j].free
               /\ inst'[j].taken = inst[j].taken
               /\ SameDrain(inst'[j], inst[j])
  <1> DEFINE free == inst[i].free - 1
             r == [inst[i] EXCEPT !.free = free]
  <1>1. inst \in Seq(Instance) /\ inst[i] \in Instance
    BY DEF LoaderInv, LoaderTypeOK
  <1>2. inst' = [inst EXCEPT ![i] = r]
    BY <1>1
  <1>3. free \in Nat
    BY <1>1, SMTT(30) DEF Instance
  <1> HIDE DEF free
  <1>4. r \in Instance
    BY <1>1, <1>3 DEF Instance
  <1>5. /\ (r.draining <=> inst[i].draining) /\ r.active = inst[i].active /\ (r.drained <=> inst[i].drained) /\ r.pool = inst[i].pool
        /\ r.free = free /\ r.taken = inst[i].taken /\ (r.forced <=> inst[i].forced) /\ (r.givenBack <=> inst[i].givenBack)
    BY <1>1 DEF Instance
  <1> HIDE DEF r
  <1>6. /\ Reshaped
        /\ \A j \in 1..Len(inst) : inst'[j] = IF j = i THEN r ELSE inst[j]
    BY <1>1, <1>2, <1>4, UpdatedAt
  <1> QED
    BY <1>5, <1>6 DEF SameSlots, SameDrain, free

(* A call gives its slot back. *)
LEMMA GivesSlot ==
  ASSUME LoaderInv, NEW i \in 1..Len(inst),
         inst' = [inst EXCEPT ![i].free = @ + 1]
  PROVE  /\ Reshaped
         /\ \A j \in 1..Len(inst) :
               /\ inst'[j].pool = inst[j].pool
               /\ inst'[j].free = IF j = i THEN inst[i].free + 1 ELSE inst[j].free
               /\ inst'[j].taken = inst[j].taken
               /\ SameDrain(inst'[j], inst[j])
  <1> DEFINE free == inst[i].free + 1
             r == [inst[i] EXCEPT !.free = free]
  <1>1. inst \in Seq(Instance) /\ inst[i] \in Instance
    BY DEF LoaderInv, LoaderTypeOK
  <1>2. inst' = [inst EXCEPT ![i] = r]
    BY <1>1
  <1>3. free \in Nat
    BY <1>1, SMTT(30) DEF Instance
  <1> HIDE DEF free
  <1>4. r \in Instance
    BY <1>1, <1>3 DEF Instance
  <1>5. /\ (r.draining <=> inst[i].draining) /\ r.active = inst[i].active /\ (r.drained <=> inst[i].drained) /\ r.pool = inst[i].pool
        /\ r.free = free /\ r.taken = inst[i].taken /\ (r.forced <=> inst[i].forced) /\ (r.givenBack <=> inst[i].givenBack)
    BY <1>1 DEF Instance
  <1> HIDE DEF r
  <1>6. /\ Reshaped
        /\ \A j \in 1..Len(inst) : inst'[j] = IF j = i THEN r ELSE inst[j]
    BY <1>1, <1>2, <1>4, UpdatedAt
  <1> QED
    BY <1>5, <1>6 DEF SameSlots, SameDrain, free


(* Two instances are replaced. *)
LEMMA TwoUpdated ==
  ASSUME inst \in Seq(Instance), NEW i \in 1..Len(inst), NEW n \in 1..Len(inst), i # n,
         NEW r \in Instance, NEW q \in Instance, NEW u \in Seq(Instance), Len(u) = Len(inst),
         \A j \in 1..Len(inst) : u[j] = IF j = i THEN r ELSE inst[j], inst' = [u EXCEPT ![n] = q],
         ~r.draining, r.givenBack, r.active = inst[i].active, r.drained <=> inst[i].drained,
         r.forced <=> inst[i].forced, SameSlots(r, inst[i]),
         q.pool = "gone", q.free = 0, q.taken = PoolSize, SameDrain(q, inst[n])
  PROVE  /\ Reshaped
         /\ \A j \in 1..Len(inst) :
               /\ inst'[j].pool = IF j = n THEN "gone" ELSE inst[j].pool
               /\ inst'[j].free = IF j = n THEN 0 ELSE inst[j].free
               /\ inst'[j].taken = IF j = n THEN PoolSize ELSE inst[j].taken
               /\ inst'[j].draining <=> inst[j].draining /\ j # i
               /\ inst'[j].active = inst[j].active
               /\ inst'[j].drained <=> inst[j].drained
               /\ inst'[j].forced <=> inst[j].forced
               /\ inst'[j].givenBack <=> inst[j].givenBack \/ j = i
  <1>1. /\ inst' \in Seq(Instance) /\ Len(inst') = Len(u)
        /\ \A j \in 1..Len(u) : inst'[j] = IF j = n THEN q ELSE u[j]
    <2>1. n \in 1..Len(u)
      OBVIOUS
    <2> QED
      BY <2>1, SequenceUpdate
  <1>2. \A j \in 1..Len(inst) : inst'[j] = IF j = n THEN q ELSE IF j = i THEN r ELSE inst[j]
    BY <1>1
  <1> QED
    BY <1>1, <1>2 DEF Reshaped, SameSlots, SameDrain

(* abortReload: the old instance is given back, and the pool of the new one is closed. *)
LEMMA Aborts ==
  ASSUME LoaderInv, NEW i \in 1..Len(inst), NEW n \in 1..Len(inst), i # n,
         inst' = [Undrain(i) EXCEPT ![n].pool = "gone", ![n].free = 0, ![n].taken = PoolSize]
  PROVE  /\ Reshaped
         /\ \A j \in 1..Len(inst) :
               /\ inst'[j].pool = IF j = n THEN "gone" ELSE inst[j].pool
               /\ inst'[j].free = IF j = n THEN 0 ELSE inst[j].free
               /\ inst'[j].taken = IF j = n THEN PoolSize ELSE inst[j].taken
               /\ inst'[j].draining <=> inst[j].draining /\ j # i
               /\ inst'[j].active = inst[j].active
               /\ inst'[j].drained <=> inst[j].drained
               /\ inst'[j].forced <=> inst[j].forced
               /\ inst'[j].givenBack <=> inst[j].givenBack \/ j = i
  <1> DEFINE u == Undrain(i)
             r == [inst[i] EXCEPT !.draining = FALSE, !.givenBack = TRUE]
             q == [inst[n] EXCEPT !.pool = "gone", !.free = 0, !.taken = PoolSize]
  <1>1. inst \in Seq(Instance) /\ inst[i] \in Instance /\ inst[n] \in Instance
    BY DEF LoaderInv, LoaderTypeOK
  <1>2. u = [inst EXCEPT ![i] = r]
    BY <1>1 DEF Undrain
  <1>3. r \in Instance
    BY <1>1 DEF Instance
  <1>4. /\ ~r.draining /\ r.givenBack /\ r.active = inst[i].active /\ (r.drained <=> inst[i].drained)
        /\ (r.forced <=> inst[i].forced) /\ SameSlots(r, inst[i])
    BY <1>1 DEF Instance, SameSlots
  <1>5. q \in Instance
    BY <1>1, PluginLoaderAssumption DEF Instance
  <1>6. q.pool = "gone" /\ q.free = 0 /\ q.taken = PoolSize /\ SameDrain(q, inst[n])
    BY <1>1 DEF Instance, SameDrain
  <1> HIDE DEF r
  <1>7. /\ u \in Seq(Instance) /\ Len(u) = Len(inst)
        /\ \A j \in 1..Len(inst) : u[j] = IF j = i THEN r ELSE inst[j]
    <2> HIDE DEF u
    <2> QED
      BY <1>1, <1>2, <1>3
  <1>8. inst' = [u EXCEPT ![n] = q]
    <2>1. inst' = [u EXCEPT ![n].pool = "gone", ![n].free = 0, ![n].taken = PoolSize]
      OBVIOUS
    <2> HIDE DEF u
    <2>2. u[n] = inst[n] /\ n \in 1..Len(u)
      BY <1>7
    <2>3. inst' = [u EXCEPT ![n] = [u[n] EXCEPT !.pool = "gone", !.free = 0, !.taken = PoolSize]]
      BY <1>7, <2>1, <2>2
    <2> QED
      BY <2>2, <2>3
  <1> HIDE DEF u, q
  <1> QED
    BY <1>1, <1>3, <1>4, <1>5, <1>6, <1>7, <1>8, TwoUpdated, ZenonT(30)

-----------------------------------------------------------------------------
(* Every step keeps the types and the references. *)

KeepsLoaderInv == LoaderInv' /\ \A j \in 1..Len(inst) : Discarded(j) => Discarded(j)'

\* A step that leaves the instances alone.
LEMMA Unreshaped ==
  ASSUME LoaderInv, inst' = inst
  PROVE  Reshaped
  BY DEF LoaderInv, LoaderTypeOK, Reshaped

\* The operation after a step that only moves it on.
LEMMA GoToOp ==
  ASSUME LoaderInv, NEW a \in Admins, NEW pc \in OpPcs, GoTo(a, pc)
  PROVE  \E o \in Op :
            /\ op' = [op EXCEPT ![a] = o] /\ o.pc = pc /\ o.kind = op[a].kind
            /\ o.bin = op[a].bin /\ o.cfg = op[a].cfg /\ o.old = op[a].old /\ o.new = op[a].new
  <1> DEFINE o == [op[a] EXCEPT !.pc = pc]
  <1>1. op \in [Admins -> Op] /\ op[a] \in Op
    BY DEF LoaderInv, LoaderTypeOK
  <1>2. op' = [op EXCEPT ![a] = o]
    BY <1>1 DEF GoTo
  <1>3. /\ o \in Op /\ o.pc = pc /\ o.kind = op[a].kind
        /\ o.bin = op[a].bin /\ o.cfg = op[a].cfg /\ o.old = op[a].old /\ o.new = op[a].new
    BY <1>1 DEF Op
  <1> HIDE DEF o
  <1> QED
    BY <1>2, <1>3

(* The next step of an operation, in the order of the code. *)
Follows(o, pc) ==
    \/ o.pc = "prepare" /\ pc = "activate"
    \/ o.pc = "activate" /\ pc = "configure"
    \/ o.pc = "migrate" /\ pc = "insert"
    \/ o.pc = "insert" /\ pc = IF o.kind = "load" THEN "register" ELSE "unregister"
    \/ o.pc = "unregister" /\ pc = IF o.kind = "unload" THEN "drain" ELSE "register"
    \/ o.pc = "register" /\ pc = IF o.kind = "load" THEN "sync" ELSE "drain"
    \/ o.pc = "revoke" /\ pc = "unregister"
    \/ o.pc = "drain" /\ pc \in {"signal", "wait"}
    \/ o.pc = "signal" /\ pc = "wait"
    \/ o.pc = "wait" /\ pc = "close"
    \/ o.pc = "close" /\ pc = "slots"
    \/ o.pc = "slots" /\ pc = "sync"

\* The next step of an operation is one of its kind.
LEMMA FollowsOK ==
  ASSUME NEW o \in Op, OpOK(o), NEW pc, Follows(o, pc), NEW next \in Op, next.pc = pc, next.kind = o.kind,
         next.bin = o.bin, next.old = o.old, next.new = o.new
  PROVE  OpOK(next) /\ (pc = "insert" => o.pc = "migrate") /\ pc # "migrate"
  BY DEF Follows, OpOK, Op

\* Moving an operation on keeps the types and the references.
LEMMA GoToStep ==
  ASSUME LoaderInv, NEW a \in Admins, NEW pc \in OpPcs, GoTo(a, pc), Follows(op[a], pc),
         call' = call, Reshaped, mgr' = mgr,
         loaded' = loaded \/ (loaded' = op[a].new /\ op[a].pc = "insert")
  PROVE  KeepsLoaderInv
  <1>1. PICK o \in Op :
            /\ op' = [op EXCEPT ![a] = o] /\ o.pc = pc /\ o.kind = op[a].kind
            /\ o.bin = op[a].bin /\ o.cfg = op[a].cfg /\ o.old = op[a].old /\ o.new = op[a].new
    BY GoToOp
  <1>2. op[a] \in Op /\ OpOK(op[a])
    BY DEF LoaderInv, LoaderTypeOK
  <1>3. OpOK(o) /\ (o.pc = "insert" => op[a].pc = "migrate") /\ o.pc # "migrate"
    BY <1>1, <1>2, FollowsOK
  <1>4. op[a].pc = "insert" => o.pc \notin {"migrate", "insert"}
    BY <1>3
  <1> QED
    BY <1>1, <1>3, <1>4, AdminStep DEF KeepsLoaderInv, Reshaped

\* So does ending it.
LEMMA EndStep ==
  ASSUME LoaderInv, NEW a \in Admins, op' = [op EXCEPT ![a] = IdleOp], call' = call, Reshaped,
         loaded' = loaded, mgr' \in {mgr, 0, loaded} \/ (mgr' = op[a].new /\ op[a].pc = "sync")
  PROVE  KeepsLoaderInv
  <1>1. IdleOp \in Op /\ IdleOp.pc = "idle" /\ IdleOp.old = 0 /\ IdleOp.new = 0
    BY DEF IdleOp, Op, OpPcs
  <1>2. OpOK(IdleOp)
    <2>1. Len(inst) \in Nat
      BY DEF LoaderInv, LoaderTypeOK
    <2> QED
      BY <1>1, <2>1 DEF OpOK
  <1> HIDE DEF IdleOp
  <1> QED
    BY <1>1, <1>2, AdminStep DEF KeepsLoaderInv, Reshaped

\* Every operation but a load names an instance.
LEMMA OldPlaced ==
  ASSUME LoaderInv, NEW a \in Admins, op[a].pc # "idle", op[a].kind # "load"
  PROVE  op[a].old \in 1..Len(inst)
  BY DEF LoaderInv, LoaderTypeOK, OpOK, Op

\* What drains, closes or reconfigures is no load.
LEMMA CloseKind ==
  ASSUME LoaderInv, NEW a \in Admins,
         op[a].pc \in {"migrate", "drain", "signal", "wait", "close", "slots", "reconfigure"}
  PROVE  op[a].kind # "load" /\ op[a].old \in 1..Len(inst)
  <1>1. op[a].kind # "load"
    BY DEF LoaderInv, LoaderTypeOK, OpOK
  <1> QED
    BY <1>1, OldPlaced

\* A failed preparation replaces no instance but the old one.
LEMMA GiveUpShape ==
  ASSUME LoaderInv, NEW a \in Admins, op[a].pc # "idle", GiveUp(a)
  PROVE  Reshaped
  <1>1. CASE op[a].kind = "reload"
    BY <1>1, OldPlaced, GivesBack DEF GiveUp
  <1>2. CASE op[a].kind # "reload"
    BY <1>2, Unreshaped DEF GiveUp
  <1> QED
    BY <1>1, <1>2

\* A prepared instance comes last.
LEMMA Appended ==
  ASSUME LoaderInv, NEW r \in Instance, inst' = Append(inst, r)
  PROVE  /\ inst' \in Seq(Instance) /\ Len(inst') = Len(inst) + 1 /\ inst'[Len(inst) + 1] = r
         /\ \A j \in 1..Len(inst) : inst'[j] = inst[j]
  <1>1. inst \in Seq(Instance)
    BY DEF LoaderInv, LoaderTypeOK
  <1> QED
    BY <1>1

(* A prepared instance is new to everyone. *)
LEMMA ConfigureLoaderInv ==
  ASSUME LoaderInv, NEW a \in Admins, Configure(a)
  PROVE  /\ KeepsLoaderInv
         /\ Len(inst') = Len(inst) + 1 /\ inst'[Len(inst) + 1] = NewInstance(op[a].bin, op[a].cfg)
         /\ \A j \in 1..Len(inst) : inst'[j] = inst[j]
         /\ \A b \in Admins : op'[b].old = op[b].old /\ (b # a => op'[b] = op[b])
         /\ op'[a].pc \in {"insert", "migrate"}
  <1>0. PICK n : n = Len(inst) + 1
    OBVIOUS
  <1> DEFINE pc == IF op[a].kind = "load" THEN "insert" ELSE "migrate"
             o == [op[a] EXCEPT !.pc = pc, !.new = n]
  <1>1. /\ inst \in Seq(Instance) /\ Len(inst) \in Nat /\ loaded \in 0..Len(inst) /\ mgr \in 0..Len(inst)
        /\ op \in [Admins -> Op] /\ op[a] \in Op /\ OpOK(op[a])
    BY DEF LoaderInv, LoaderTypeOK
  <1>2. /\ op[a].pc = "configure" /\ op[a].bin \in Binaries /\ op[a].cfg \in Configs \cup {None}
        /\ op[a].kind \in {"load", "reload"}
    BY <1>1 DEF Configure, OpOK, Op
  <1>3. NewInstance(op[a].bin, op[a].cfg) \in Instance
    BY <1>2, PluginLoaderAssumption DEF NewInstance, Instance
  <1>4. /\ inst' \in Seq(Instance) /\ Len(inst') = n /\ inst'[n] = NewInstance(op[a].bin, op[a].cfg)
        /\ \A j \in 1..Len(inst) : inst'[j] = inst[j]
    BY <1>0, <1>3, Appended DEF Configure
  <1>5. n \in Nat /\ pc \in {"insert", "migrate"} /\ pc \in OpPcs /\ (pc = "migrate" => op[a].kind = "reload")
    BY <1>0, <1>1, <1>2 DEF OpPcs
  <1>6. op' = [op EXCEPT ![a] = o]
    BY <1>0, <1>1 DEF Configure
  <1> HIDE DEF pc
  <1>7. o \in Op /\ o.pc = pc /\ o.new = n /\ o.old = op[a].old /\ o.bin = op[a].bin /\ o.kind = op[a].kind
    BY <1>1, <1>5 DEF Op
  <1> HIDE DEF o
  <1>8. /\ op' \in [Admins -> Op] /\ op'[a] = o
        /\ \A b \in Admins : b # a => op'[b] = op[b]
    BY <1>1, <1>6, <1>7
  <1>9. UNCHANGED <<loaded, mgr, call>>
    BY DEF Configure, where
  <1>10. /\ \A b \in Admins : op[b].old \in 0..Len(inst) /\ op[b].new \in 0..Len(inst) /\ OpOK(op[b])
         /\ \A c \in Calls : call[c].in \in 0..Len(inst) /\ CallOK(call[c])
    BY DEF LoaderInv, LoaderTypeOK, OpOK, CallOK, Op, Call
  <1>11. \A b \in Admins : OpOK(op[b])'
    <2>1. ASSUME NEW b \in Admins, b # a
          PROVE  OpOK(op[b])'
      BY <1>0, <1>1, <1>4, <1>8, <1>10, <2>1 DEF OpOK
    <2>2. OpOK(op[a])'
      BY <1>0, <1>1, <1>2, <1>4, <1>5, <1>7, <1>8, <1>10 DEF OpOK
    <2> QED
      BY <2>1, <2>2
  <1>12. LoaderTypeOK'
    BY <1>0, <1>1, <1>4, <1>8, <1>9, <1>10, <1>11 DEF LoaderInv, LoaderTypeOK, CallOK
  <1>13. ASSUME NEW m \in 1..Len(inst), Unplaced(m)
         PROVE  Unplaced(m)'
    BY <1>7, <1>8, <1>9, <1>13 DEF Unplaced
  <1>14. Unplaced(n)'
    <2>1. n # loaded /\ n # mgr /\ (\A b \in Admins : op[b].old # n) /\ \A c \in Calls : call[c].in # n
      BY <1>0, <1>1, <1>10
    <2> QED
      BY <1>7, <1>8, <1>9, <2>1 DEF Unplaced
  <1>15. Prepared'
    <2> SUFFICES ASSUME NEW b \in Admins, op'[b].pc \in {"migrate", "insert"}
                 PROVE  /\ op'[b].new # 0 /\ Unplaced(op[b].new)'
                        /\ \A d \in Admins : d # b => op'[d].new # op'[b].new
      BY DEF Prepared
    <2>1. CASE b = a
      <3>1. op'[b].new = n /\ n # 0 /\ \A d \in Admins : d # b => op'[d].new # n
        BY <1>0, <1>1, <1>7, <1>8, <1>10, <2>1
      <3> QED
        BY <1>14, <3>1 DEF Unplaced
    <2>2. CASE b # a
      <3>1. op'[b] = op[b] /\ op[b].new # 0 /\ Unplaced(op[b].new) /\ \A d \in Admins : d # b => op[d].new # op[b].new
        BY <1>8, <2>2 DEF LoaderInv, Prepared
      <3>2. op[b].new \in 1..Len(inst) /\ op[b].new # n
        BY <1>0, <1>1, <1>10, <3>1
      <3>3. Unplaced(op[b].new)'
        BY <1>7, <1>8, <1>9, <3>1 DEF Unplaced
      <3> QED
        BY <1>7, <1>8, <3>1, <3>2, <3>3
    <2> QED
      BY <2>1, <2>2
  <1>16. ASSUME NEW j \in 1..Len(inst), Discarded(j)
         PROVE  Discarded(j)'
    <2>1. j # n
      BY <1>0, <1>1
    <2> QED
      BY <1>7, <1>8, <1>13, <1>16, <2>1 DEF Discarded
  <1> QED
    BY <1>0, <1>4, <1>5, <1>7, <1>8, <1>12, <1>15, <1>16 DEF KeepsLoaderInv, LoaderInv

\* Every step of an operation keeps the types and the references.
LEMMA StepLoaderInv ==
  ASSUME LoaderInv, NEW a \in Admins, Step(a)
  PROVE  KeepsLoaderInv
  <1>1. ASSUME NEW pc, GoTo(a, pc), Follows(op[a], pc), call' = call, Reshaped, mgr' = mgr,
               loaded' = loaded \/ (loaded' = op[a].new /\ op[a].pc = "insert")
        PROVE  KeepsLoaderInv
    <2>1. pc \in OpPcs
      BY <1>1 DEF Follows, OpPcs
    <2> QED
      BY <1>1, <2>1, GoToStep
  <1>2. CASE Prepare(a) \/ Activate(a) \/ Migrate(a) \/ Insert(a) \/ Revoke(a) \/ UnregisterTriggers(a)
             \/ RegisterTriggers(a) \/ Drained(a) \/ Closed(a)
    <2>1. inst' = inst /\ mgr' = mgr /\ call' = call
          /\ (loaded' = loaded \/ (loaded' = op[a].new /\ op[a].pc = "insert"))
      BY <1>2 DEF Prepare, Activate, Migrate, Insert, Revoke, UnregisterTriggers, RegisterTriggers, Drained,
                  Closed, where
    <2>2. \E pc : GoTo(a, pc) /\ Follows(op[a], pc)
      <3>1. CASE Prepare(a) \/ Activate(a) \/ Migrate(a) \/ Revoke(a) \/ Drained(a) \/ Closed(a)
        BY <3>1 DEF Prepare, Activate, Migrate, Revoke, Drained, Closed, Follows
      <3>2. CASE Insert(a)
        BY <3>2 DEF Insert, Follows
      <3>3. CASE UnregisterTriggers(a)
        BY <3>3 DEF UnregisterTriggers, Follows
      <3>4. CASE RegisterTriggers(a)
        BY <3>4 DEF RegisterTriggers, Follows
      <3> QED
        BY <1>2, <3>1, <3>2, <3>3, <3>4
    <2> QED
      BY <1>1, <2>1, <2>2, Unreshaped
  <1>3. CASE Drain(a)
    <2>1. Reshaped
      BY <1>3, CloseKind, StartsDraining DEF Drain
    <2>2. \E pc : GoTo(a, pc) /\ Follows(op[a], pc)
      BY <1>3 DEF Drain, Follows
    <2> QED
      BY <1>1, <1>3, <2>1, <2>2 DEF Drain, where
  <1>4. CASE DrainSignal(a)
    <2>1. Reshaped
      BY <1>4, CloseKind, Signals DEF DrainSignal, CloseDrained
    <2> QED
      BY <1>1, <1>4, <2>1 DEF DrainSignal, where, Follows
  <1>5. CASE DrainTimeout(a)
    <2>1. Reshaped
      BY <1>5, CloseKind, Forces DEF DrainTimeout
    <2> QED
      BY <1>1, <1>5, <2>1 DEF DrainTimeout, where, Follows
  <1>6. CASE ClosePool(a)
    <2>1. Reshaped
      BY <1>6, CloseKind, StartsClosing DEF ClosePool
    <2> QED
      BY <1>1, <1>6, <2>1 DEF ClosePool, where, Follows
  <1>7. CASE TakeSlots(a)
    <2>1. Reshaped
      BY <1>7, CloseKind, ClosesSlot DEF TakeSlots
    <2>2. UNCHANGED <<op, call, loaded, mgr>>
      BY <1>7 DEF TakeSlots, where
    <2> QED
      BY <2>1, <2>2 DEF Reshaped, KeepsLoaderInv, LoaderInv, LoaderTypeOK, Prepared, Unplaced, Discarded, OpOK,
                        CallOK
  <1>8. CASE Configure(a)
    BY <1>8, ConfigureLoaderInv
  <1>9. CASE PrepareError(a) \/ ActivateError(a)
    <2>1. Reshaped
      BY <1>9, GiveUpShape, SMTT(30) DEF PrepareError, ActivateError
    <2> QED
      BY <1>9, <2>1, EndStep DEF PrepareError, ActivateError, GiveUp, where
  <1>10. CASE AbortReload(a)
    <2>1. op[a].old # op[a].new /\ op[a].new \in 1..Len(inst) /\ op[a].old \in 1..Len(inst)
      <3>1. op[a].new # 0 /\ Unplaced(op[a].new)
        BY <1>10 DEF AbortReload, LoaderInv, Prepared
      <3>2. op[a].new \in 1..Len(inst)
        BY <3>1, SMTT(30) DEF LoaderInv, LoaderTypeOK, OpOK, Op
      <3> QED
        BY <1>10, <3>1, <3>2, CloseKind, SMTT(30) DEF Unplaced, AbortReload
    <2>2. Reshaped
      BY <1>10, <2>1, Aborts DEF AbortReload
    <2> QED
      BY <1>10, <2>2, EndStep DEF AbortReload, where
  <1>11. CASE Sync(a)
    <2>1. op[a].pc = "sync" /\ op[a].kind \in {"load", "reload", "unload"}
      BY <1>11 DEF Sync, LoaderInv, LoaderTypeOK, OpOK
    <2>2. mgr' \in {mgr, 0, loaded} \/ mgr' = op[a].new
      BY <1>11, <2>1 DEF Sync
    <2> QED
      BY <1>11, <2>1, <2>2, Unreshaped, EndStep DEF Sync
  <1>12. CASE Reconfigured(a)
    <2>1. op[a].cfg \in Configs \cup {None}
      BY DEF LoaderInv, LoaderTypeOK, Op
    <2>2. Reshaped
      BY <1>12, <2>1, CloseKind, KeepsConfig DEF Reconfigured
    <2> QED
      BY <1>12, <2>2, EndStep DEF Reconfigured, where
  <1>13. CASE ReconfigureError(a)
    BY <1>13, Unreshaped, EndStep DEF ReconfigureError, where
  <1> QED
    BY <1>2, <1>3, <1>4, <1>5, <1>6, <1>7, <1>8, <1>9, <1>10, <1>11, <1>12, <1>13 DEF Step

(* An operation begins.  Only a reload touches an instance. *)
LEMMA BeginLoaderInv ==
  ASSUME LoaderInv, NEW a \in Admins, NEW b, NEW c,
         \/ b \in Binaries /\ c \in Configs \cup {None} /\ (BeginLoad(a, b, c) \/ BeginReload(a, b, c))
         \/ BeginUnload(a)
         \/ c \in Configs /\ BeginReconfigure(a, c)
  PROVE  KeepsLoaderInv
  <1>1. /\ Len(inst) \in Nat /\ loaded \in 0..Len(inst) /\ loaded \in Nat
        /\ op \in [Admins -> Op] /\ inst \in Seq(Instance)
    BY DEF LoaderInv, LoaderTypeOK
  <1>2. IdleOp \in Op
    BY DEF IdleOp, Op, OpPcs
  <1>3. CASE b \in Binaries /\ c \in Configs \cup {None} /\ BeginLoad(a, b, c)
    <2> DEFINE o == [IdleOp EXCEPT !.pc = "prepare", !.kind = "load", !.bin = b, !.cfg = c]
    <2>1. o.pc = "prepare" /\ o.kind = "load" /\ o.bin = b /\ o.old = 0 /\ o.new = 0
      BY DEF IdleOp
    <2>2. op' = [op EXCEPT ![a] = o] /\ UNCHANGED <<inst, loaded, mgr, call>>
      BY <1>3 DEF BeginLoad, Start, where
    <2>3. o \in Op
      BY <1>2, <1>3 DEF Op, OpPcs
    <2> HIDE DEF o
    <2>4. OpOK(o)
      BY <1>1, <1>3, <2>1 DEF OpOK
    <2> QED
      BY <2>1, <2>2, <2>3, <2>4, Unreshaped, AdminStep DEF KeepsLoaderInv, Reshaped
  <1>4. CASE b \in Binaries /\ c \in Configs \cup {None} /\ BeginReload(a, b, c)
    <2>1. PICK cfg : cfg = IF c = None THEN inst[loaded].cfg ELSE c
      OBVIOUS
    <2>2. loaded # 0 /\ loaded \in 1..Len(inst)
      BY <1>1, <1>4 DEF BeginReload
    <2>3. cfg \in Configs \cup {None}
      <3>1. inst[loaded] \in Instance
        BY <1>1, <2>2
      <3> QED
        BY <1>4, <2>1, <3>1 DEF Instance
    <2> DEFINE o == [IdleOp EXCEPT !.pc = "prepare", !.kind = "reload", !.bin = b, !.old = loaded, !.cfg = cfg]
    <2>4. o.pc = "prepare" /\ o.kind = "reload" /\ o.bin = b /\ o.old = loaded /\ o.new = 0
      BY DEF IdleOp
    <2>5. op' = [op EXCEPT ![a] = o]
      BY <1>4, <2>1 DEF BeginReload, Start
    <2>6. Reshaped /\ UNCHANGED <<loaded, mgr, call>>
      BY <1>4, <2>2, StartsDraining DEF BeginReload, Start, where
    <2>7. o \in Op
      BY <1>1, <1>2, <1>4, <2>3 DEF Op, OpPcs
    <2> HIDE DEF o
    <2>8. OpOK(o)
      BY <1>1, <1>4, <2>2, <2>4 DEF OpOK
    <2> QED
      BY <2>4, <2>5, <2>6, <2>7, <2>8, AdminStep DEF KeepsLoaderInv, Reshaped
  <1>5. CASE BeginUnload(a)
    <2> DEFINE o == [IdleOp EXCEPT !.pc = "revoke", !.kind = "unload", !.old = loaded]
    <2>1. o.pc = "revoke" /\ o.kind = "unload" /\ o.old = loaded /\ o.new = 0
      BY DEF IdleOp
    <2>2. op' = [op EXCEPT ![a] = o] /\ UNCHANGED <<inst, mgr, call>> /\ loaded' = 0 /\ loaded # 0
      BY <1>5 DEF BeginUnload, Start
    <2>3. o \in Op
      BY <1>1, <1>2 DEF Op, OpPcs
    <2> HIDE DEF o
    <2>4. OpOK(o)
      BY <1>1, <2>1, <2>2 DEF OpOK
    <2> QED
      BY <2>1, <2>2, <2>3, <2>4, Unreshaped, AdminStep DEF KeepsLoaderInv, Reshaped
  <1>6. CASE c \in Configs /\ BeginReconfigure(a, c)
    <2> DEFINE o == [IdleOp EXCEPT !.pc = "reconfigure", !.kind = "reconfigure", !.cfg = c, !.old = loaded]
    <2>1. o.pc = "reconfigure" /\ o.kind = "reconfigure" /\ o.old = loaded /\ o.new = 0
      BY DEF IdleOp
    <2>2. op' = [op EXCEPT ![a] = o] /\ UNCHANGED <<inst, loaded, mgr, call>> /\ loaded # 0
      BY <1>6 DEF BeginReconfigure, where
    <2>3. o \in Op
      BY <1>1, <1>2, <1>6 DEF Op, OpPcs
    <2> HIDE DEF o
    <2>4. OpOK(o)
      BY <1>1, <2>1, <2>2 DEF OpOK
    <2> QED
      BY <2>1, <2>2, <2>3, <2>4, Unreshaped, AdminStep DEF KeepsLoaderInv, Reshaped
  <1> QED
    BY <1>3, <1>4, <1>5, <1>6

(* What a call does next, and which instance it is in. *)
LEMMA CallRecords ==
  ASSUME LoaderInv, NEW c \in Calls
  PROVE  /\ call[c] \in Call /\ CallOK(call[c])
         /\ IdleCall \in Call /\ CallOK(IdleCall) /\ IdleCall.pc = "idle" /\ IdleCall.in = 0 /\ ~IdleCall.counted
         /\ \A pc \in {"queued", "running", "release", "signal"} :
               LET k == [call[c] EXCEPT !.pc = pc]
               IN  /\ k \in Call /\ k.pc = pc /\ k.in = call[c].in /\ (k.counted <=> call[c].counted)
                   /\ call[c].pc # "idle" => CallOK(k)
  <1>1. call[c] \in Call /\ CallOK(call[c]) /\ Len(inst) \in Nat
    BY DEF LoaderInv, LoaderTypeOK
  <1>2. /\ IdleCall \in Call /\ CallOK(IdleCall) /\ IdleCall.pc = "idle" /\ IdleCall.in = 0
        /\ ~IdleCall.counted
    BY <1>1 DEF IdleCall, Call, CallOK
  <1>3. ASSUME NEW pc \in {"queued", "running", "release", "signal"}
        PROVE  LET k == [call[c] EXCEPT !.pc = pc]
               IN  /\ k \in Call /\ k.pc = pc /\ k.in = call[c].in /\ (k.counted <=> call[c].counted)
                   /\ call[c].pc # "idle" => CallOK(k)
    BY <1>1 DEF Call, CallOK
  <1> QED
    BY <1>1, <1>2, <1>3

\* A counted call still has its release ahead, another is over.
LEMMA LeaveRecord ==
  ASSUME LoaderInv, NEW c \in Calls, call[c].pc # "idle", call' = Leave(c)
  PROVE  \E k \in Call :
            /\ call' = [call EXCEPT ![c] = k] /\ CallOK(k)
            /\ IF call[c].counted THEN k.pc = "release" /\ k.in = call[c].in /\ k.counted
                                  ELSE k.pc = "idle" /\ k.in = 0 /\ ~k.counted
  <1>1. CASE call[c].counted
    <2> DEFINE k == [call[c] EXCEPT !.pc = "release"]
    <2>1. call' = [call EXCEPT ![c] = k]
      BY <1>1 DEF Leave
    <2>2. k \in Call /\ k.pc = "release" /\ k.in = call[c].in /\ k.counted /\ CallOK(k)
      BY <1>1, CallRecords
    <2> HIDE DEF k
    <2> QED
      BY <1>1, <2>1, <2>2
  <1>2. CASE ~call[c].counted
    <2>1. call' = [call EXCEPT ![c] = IdleCall]
      BY <1>2 DEF Leave
    <2> QED
      BY <1>2, <2>1, CallRecords
  <1> QED
    BY <1>1, <1>2

(* The moves of a call: where it was, where it is, and what it did to its  *)
(* instance.                                                               *)
CallMove(c, k) ==
    \/ /\ k.pc = "call" /\ k.counted /\ call[c].pc = "idle" /\ k.in = loaded /\ loaded # 0 /\ ~inst[loaded].draining
       /\ inst' = [inst EXCEPT ![loaded].active = @ + 1]
    \/ /\ k.pc = "call" /\ ~k.counted /\ call[c].pc = "idle" /\ k.in = mgr /\ mgr # 0
       /\ inst' = inst
    \/ /\ k.pc = "queued" /\ call[c].pc = "call" /\ inst[call[c].in].pool = "open"
       /\ k.in = call[c].in /\ (k.counted <=> call[c].counted)
       /\ inst' = inst
    \/ /\ k.pc = "running" /\ call[c].pc = "queued" /\ inst[call[c].in].free > 0
       /\ k.in = call[c].in /\ (k.counted <=> call[c].counted)
       /\ inst' = [inst EXCEPT ![call[c].in].free = @ - 1]
    \/ /\ call[c].pc \in {"call", "queued"}
       /\ IF call[c].counted THEN k.pc = "release" /\ k.in = call[c].in /\ k.counted
                             ELSE k.pc = "idle" /\ k.in = 0 /\ ~k.counted
       /\ inst' = inst
    \/ /\ call[c].pc = "running"
       /\ IF call[c].counted THEN k.pc = "release" /\ k.in = call[c].in /\ k.counted
                             ELSE k.pc = "idle" /\ k.in = 0 /\ ~k.counted
       /\ inst' = [inst EXCEPT ![call[c].in].free = @ + 1]
    \/ /\ call[c].pc = "release"
       /\ IF inst[call[c].in].active = 1 /\ inst[call[c].in].draining /\ ~inst[call[c].in].drained
          THEN k.pc = "signal" /\ k.in = call[c].in
          ELSE k.pc = "idle" /\ k.in = 0
       /\ inst' = [inst EXCEPT ![call[c].in].active = @ - 1]
    \/ /\ call[c].pc = "signal" /\ k.pc = "idle" /\ k.in = 0
       /\ inst' = [inst EXCEPT ![call[c].in].drained = TRUE]

\* The call actions are these moves.
LEMMA CallMoves ==
  ASSUME LoaderInv, NEW c \in Calls, Acquire(c) \/ HandleEvent(c) \/ TakeSlot(c) \/ Progress(c)
  PROVE  UNCHANGED <<op, loaded, mgr>> /\ \E k \in Call :
            call' = [call EXCEPT ![c] = k] /\ CallOK(k) /\ CallMove(c, k)
  <1>1. Len(inst) \in Nat /\ loaded \in 0..Len(inst) /\ mgr \in 0..Len(inst)
    BY DEF LoaderInv, LoaderTypeOK
  <1>2. CASE Acquire(c)
    <2> DEFINE k == [pc |-> "call", in |-> loaded, counted |-> TRUE]
    <2>1. k \in Call /\ CallOK(k) /\ k.pc = "call" /\ k.in = loaded /\ k.counted
      BY <1>1, <1>2 DEF Acquire, Call, CallOK
    <2>2. call' = [call EXCEPT ![c] = k] /\ UNCHANGED <<op, loaded, mgr>>
      BY <1>2 DEF Acquire, where
    <2> HIDE DEF k
    <2>3. CallMove(c, k)
      BY <1>2, <2>1 DEF Acquire, CallMove
    <2> QED
      BY <2>1, <2>2, <2>3
  <1>3. CASE HandleEvent(c)
    <2> DEFINE k == [pc |-> "call", in |-> mgr, counted |-> FALSE]
    <2>1. k \in Call /\ CallOK(k) /\ k.pc = "call" /\ k.in = mgr /\ ~k.counted
      BY <1>1, <1>3 DEF HandleEvent, Call, CallOK
    <2>2. call' = [call EXCEPT ![c] = k] /\ UNCHANGED <<op, loaded, mgr>>
      BY <1>3 DEF HandleEvent, where
    <2> HIDE DEF k
    <2>3. CallMove(c, k)
      BY <1>3, <2>1 DEF HandleEvent, CallMove
    <2> QED
      BY <2>1, <2>2, <2>3
  <1>4. CASE TakeSlot(c)
    <2> DEFINE k == [call[c] EXCEPT !.pc = "running"]
    <2>1. k \in Call /\ k.pc = "running" /\ k.in = call[c].in /\ (k.counted <=> call[c].counted) /\ CallOK(k)
      BY <1>4, CallRecords DEF TakeSlot
    <2>2. call' = [call EXCEPT ![c] = k] /\ UNCHANGED <<op, loaded, mgr>>
      BY <1>4 DEF TakeSlot, where
    <2> HIDE DEF k
    <2>3. CallMove(c, k)
      BY <1>4, <2>1 DEF TakeSlot, CallMove
    <2> QED
      BY <2>1, <2>2, <2>3
  <1>5. CASE Execute(c)
    <2>1. UNCHANGED <<op, loaded, mgr, inst>> /\ call[c].pc = "call"
      BY <1>5 DEF Execute, where
    <2>2. CASE inst[call[c].in].pool = "open"
      <3> DEFINE k == [call[c] EXCEPT !.pc = "queued"]
      <3>1. k \in Call /\ k.pc = "queued" /\ k.in = call[c].in /\ (k.counted <=> call[c].counted) /\ CallOK(k)
        BY <2>1, CallRecords
      <3>2. call' = [call EXCEPT ![c] = k]
        BY <1>5, <2>2 DEF Execute
      <3> HIDE DEF k
      <3>3. CallMove(c, k)
        BY <2>1, <2>2, <3>1 DEF CallMove
      <3> QED
        BY <2>1, <3>1, <3>2, <3>3
    <2>3. CASE inst[call[c].in].pool # "open"
      <3>1. call' = Leave(c)
        BY <1>5, <2>3 DEF Execute
      <3> QED
        BY <2>1, <3>1, LeaveRecord DEF CallMove
    <2> QED
      BY <2>2, <2>3
  <1>6. CASE SlotTimeout(c)
    <2>1. UNCHANGED <<op, loaded, mgr, inst>> /\ call[c].pc = "queued" /\ call' = Leave(c)
      BY <1>6 DEF SlotTimeout, where
    <2> QED
      BY <2>1, LeaveRecord DEF CallMove
  <1>7. CASE Return(c)
    <2>1. UNCHANGED <<op, loaded, mgr>> /\ call[c].pc = "running" /\ call' = Leave(c)
      BY <1>7 DEF Return, where
    <2>2. PICK k \in Call :
            /\ call' = [call EXCEPT ![c] = k] /\ CallOK(k)
            /\ IF call[c].counted THEN k.pc = "release" /\ k.in = call[c].in /\ k.counted
                                  ELSE k.pc = "idle" /\ k.in = 0 /\ ~k.counted
      BY <2>1, LeaveRecord
    <2>3. CallMove(c, k)
      BY <1>7, <2>1, <2>2 DEF CallMove, Return
    <2> QED
      BY <2>1, <2>2, <2>3
  <1>8. CASE Release(c)
    <2> DEFINE i == call[c].in
               last == inst[i].active = 1 /\ inst[i].draining /\ ~inst[i].drained
               signal == [call[c] EXCEPT !.pc = "signal"]
    <2>1. UNCHANGED <<op, loaded, mgr>> /\ call[c].pc = "release"
      BY <1>8 DEF Release, where
    <2>2. CASE last
      <3>1. call' = [call EXCEPT ![c] = signal]
        BY <1>8, <2>2 DEF Release
      <3>2. signal \in Call /\ signal.pc = "signal" /\ signal.in = i /\ CallOK(signal)
        BY <2>1, CallRecords
      <3> HIDE DEF signal
      <3>3. CallMove(c, signal)
        BY <1>8, <2>1, <2>2, <3>2 DEF CallMove, Release
      <3> QED
        BY <2>1, <3>1, <3>2, <3>3
    <2>3. CASE ~last
      <3>1. call' = [call EXCEPT ![c] = IdleCall]
        BY <1>8, <2>3 DEF Release
      <3>2. CallMove(c, IdleCall)
        BY <1>8, <2>1, <2>3, CallRecords DEF CallMove, Release
      <3> QED
        BY <2>1, <3>1, <3>2, CallRecords
    <2> QED
      BY <2>2, <2>3
  <1>9. CASE ReleaseSignal(c)
    <2>1. /\ UNCHANGED <<op, loaded, mgr>> /\ call[c].pc = "signal"
          /\ call' = [call EXCEPT ![c] = IdleCall]
      BY <1>9 DEF ReleaseSignal, where
    <2>2. CallMove(c, IdleCall)
      BY <1>9, <2>1, CallRecords DEF CallMove, ReleaseSignal, CloseDrained
    <2> QED
      BY <2>1, <2>2, CallRecords
  <1> QED
    BY <1>2, <1>3, <1>4, <1>5, <1>6, <1>7, <1>8, <1>9 DEF Progress

\* Every step of a call keeps the types and the references.
LEMMA CallLoaderInv ==
  ASSUME LoaderInv, NEW c \in Calls, NEW k \in Call, call' = [call EXCEPT ![c] = k], CallOK(k), CallMove(c, k),
         UNCHANGED <<op, loaded, mgr>>
  PROVE  KeepsLoaderInv /\ Reshaped
  <1>1. /\ loaded # 0 => loaded \in 1..Len(inst)
        /\ call[c].pc # "idle" => call[c].in \in 1..Len(inst)
    BY DEF LoaderInv, LoaderTypeOK, CallOK, Call
  <1>2. Reshaped
    <2>1. CASE inst' = inst
      BY <2>1, Unreshaped
    <2>2. CASE loaded # 0 /\ inst' = [inst EXCEPT ![loaded].active = @ + 1]
      BY <1>1, <2>2, Enters
    <2>3. CASE call[c].pc # "idle" /\ inst[call[c].in].free > 0 /\ inst' = [inst EXCEPT ![call[c].in].free = @ - 1]
      BY <1>1, <2>3, TakesSlot
    <2>4. CASE call[c].pc # "idle" /\ inst' = [inst EXCEPT ![call[c].in].free = @ + 1]
      BY <1>1, <2>4, GivesSlot
    <2>5. CASE call[c].pc # "idle" /\ inst' = [inst EXCEPT ![call[c].in].active = @ - 1]
      BY <1>1, <2>5, Leaves
    <2>6. CASE call[c].pc # "idle" /\ inst' = [inst EXCEPT ![call[c].in].drained = TRUE]
      BY <1>1, <2>6, Signals
    <2> QED
      BY <2>1, <2>2, <2>3, <2>4, <2>5, <2>6 DEF CallMove
  <1>3. k.in \in {call[c].in, loaded, mgr, 0}
    BY DEF CallMove
  <1> QED
    BY <1>2, <1>3, CallStep DEF KeepsLoaderInv, Reshaped

\* Every step does.
LEMMA NextLoaderInv ==
  ASSUME LoaderInv, [Next]_vars
  PROVE  LoaderInv'
  <1>1. CASE UNCHANGED vars
    BY <1>1 DEF vars, where, LoaderInv, LoaderTypeOK, Prepared, Unplaced, OpOK, CallOK
  <1>2. ASSUME NEW c \in Calls, Acquire(c) \/ HandleEvent(c) \/ TakeSlot(c) \/ Progress(c)
        PROVE  LoaderInv'
    BY <1>2, CallMoves, CallLoaderInv DEF KeepsLoaderInv
  <1>3. CASE Next
    <2>1. Next <=>
            /\ ~panicked
            /\ \/ \E a \in Admins, b \in Binaries, c \in Configs \cup {None} :
                     BeginLoad(a, b, c) \/ BeginReload(a, b, c)
               \/ \E a \in Admins, c \in Configs : BeginReconfigure(a, c)
               \/ \E a \in Admins : BeginUnload(a) \/ Step(a)
               \/ \E c \in Calls : Acquire(c) \/ HandleEvent(c) \/ TakeSlot(c) \/ Progress(c)
      BY DEF Next
    <2> QED
      BY <1>2, <1>3, <2>1, BeginLoaderInv, StepLoaderInv DEF KeepsLoaderInv
  <1> QED
    BY <1>1, <1>3

-----------------------------------------------------------------------------
(* Slots. *)

Running(i) == {c \in Calls : call[c].in = i /\ call[c].pc = "running"}

SlotsOf(i) ==
    /\ inst[i].free + inst[i].taken + Cardinality(Running(i)) = PoolSize
    /\ inst[i].pool = "gone" <=> inst[i].taken = PoolSize

\* The property, instance by instance.
LEMMA SlotsUnfold == SlotsAccounted <=> \A i \in 1..Len(inst) : SlotsOf(i)
  BY DEF SlotsAccounted, SlotsOf, Running

\* Some of the calls: finitely many.
LEMMA CallSubset ==
  ASSUME NEW S \in SUBSET Calls
  PROVE  IsFiniteSet(S) /\ Cardinality(S) \in Nat
  <1>1. IsFiniteSet(S)
    BY PluginLoaderAssumption, FS_Subset
  <1> QED
    BY <1>1, FS_CardinalityType

\* One call more.
LEMMA CallJoins ==
  ASSUME NEW S \in SUBSET Calls, NEW T, NEW c \in Calls, c \notin S, T = S \cup {c}
  PROVE  Cardinality(T) = Cardinality(S) + 1 /\ Cardinality(S) \in Nat
  BY CallSubset, FS_AddElement

\* One call less.
LEMMA CallQuits ==
  ASSUME NEW S \in SUBSET Calls, NEW T, NEW c \in Calls, c \in S, T = S \ {c}
  PROVE  Cardinality(T) = Cardinality(S) - 1 /\ Cardinality(S) \in Nat
  BY CallSubset, FS_RemoveElement

\* The types of what the counting adds up.
LEMMA InstanceTypes ==
  ASSUME LoaderInv, NEW i \in 1..Len(inst)
  PROVE  /\ inst[i] \in Instance /\ inst[i].free \in Nat /\ inst[i].taken \in Nat /\ inst[i].active \in Int
         /\ inst[i].pool \in {"open", "closing", "gone"}
         /\ PoolSize \in Nat /\ PoolSize # 0 /\ Cardinality(Running(i)) \in Nat
  <1>1. inst[i] \in Instance
    BY DEF LoaderInv, LoaderTypeOK
  <1>2. Cardinality(Running(i)) \in Nat
    BY CallSubset DEF Running
  <1> QED
    BY <1>1, <1>2, PluginLoaderAssumption DEF Instance

\* No call moves.
LEMMA SameRunning ==
  ASSUME call' = call
  PROVE  \A j : Running(j)' = Running(j)
  BY DEF Running

\* A step that touches neither slots nor running calls.
LEMMA SlotsKept ==
  ASSUME SlotsAccounted, Reshaped, \A j \in 1..Len(inst) : SameSlots(inst'[j], inst[j]),
         \A j \in 1..Len(inst) : Running(j)' = Running(j)
  PROVE  SlotsAccounted'
  <1>1. \A j \in 1..Len(inst') : SlotsOf(j)'
    BY SlotsUnfold DEF Reshaped, SameSlots, SlotsOf
  <1> QED
    BY <1>1 DEF SlotsAccounted, SlotsOf, Running

(* Close takes a free slot, and is done with the last one. *)
LEMMA TakeSlotsAccounted ==
  ASSUME LoaderInv, SlotsAccounted, NEW a \in Admins, TakeSlots(a)
  PROVE  SlotsAccounted'
  <1>1. PICK i \in 1..Len(inst) : i = op[a].old
    BY CloseKind, SMTT(30) DEF TakeSlots
  <1>2. /\ inst[i].pool = "closing" /\ inst[i].free > 0 /\ call' = call
        /\ inst' = [inst EXCEPT ![i].free = @ - 1, ![i].taken = @ + 1,
                                ![i].pool = IF inst[i].taken + 1 = PoolSize THEN "gone" ELSE @]
    BY <1>1 DEF TakeSlots
  <1>3. /\ Reshaped
        /\ \A j \in 1..Len(inst) :
              /\ inst'[j].pool = IF j = i THEN (IF inst[i].taken + 1 = PoolSize THEN "gone" ELSE inst[i].pool)
                                 ELSE inst[j].pool
              /\ inst'[j].free = IF j = i THEN inst[i].free - 1 ELSE inst[j].free
              /\ inst'[j].taken = IF j = i THEN inst[i].taken + 1 ELSE inst[j].taken
    BY <1>2, ClosesSlot
  <1>4. \A j \in 1..Len(inst) : SlotsOf(j)
    BY SlotsUnfold
  <1>5. ASSUME NEW j \in 1..Len(inst)
        PROVE  SlotsOf(j)'
    <2>1. Running(j)' = Running(j)
      BY <1>2, SameRunning
    <2>2. CASE j = i
      <3>1. /\ inst[i].free \in Nat /\ inst[i].taken \in Nat /\ Cardinality(Running(i)) \in Nat /\ PoolSize \in Nat
            /\ inst[i].free + inst[i].taken + Cardinality(Running(i)) = PoolSize
        BY <1>4, InstanceTypes DEF SlotsOf
      <3>2. /\ inst'[i].pool = IF inst[i].taken + 1 = PoolSize THEN "gone" ELSE "closing"
            /\ inst'[i].free = inst[i].free - 1 /\ inst'[i].taken = inst[i].taken + 1
        BY <1>2, <1>3
      <3>3. /\ inst'[i].free + inst'[i].taken + Cardinality(Running(i)) = PoolSize
            /\ inst'[i].pool = "gone" <=> inst'[i].taken = PoolSize
        BY <1>2, <3>1, <3>2, SMTT(30)
      <3> QED
        BY <2>1, <2>2, <3>3 DEF SlotsOf
    <2>3. CASE j # i
      BY <1>3, <1>4, <2>1, <2>3 DEF SlotsOf
    <2> QED
      BY <2>2, <2>3
  <1> QED
    BY <1>3, <1>5 DEF Reshaped, SlotsAccounted, SlotsOf, Running

(* A second Close finds the pool closing or gone. *)
LEMMA ClosePoolAccounted ==
  ASSUME LoaderInv, SlotsAccounted, NEW a \in Admins, ClosePool(a)
  PROVE  SlotsAccounted'
  <1>1. PICK i \in 1..Len(inst) : i = op[a].old
    BY CloseKind DEF ClosePool
  <1>2. inst' = [inst EXCEPT ![i].pool = IF @ = "open" THEN "closing" ELSE @] /\ call' = call
    BY <1>1 DEF ClosePool
  <1>3. /\ Reshaped
        /\ \A j \in 1..Len(inst) :
              /\ inst'[j].pool = IF j = i THEN (IF inst[i].pool = "open" THEN "closing" ELSE inst[i].pool)
                                 ELSE inst[j].pool
              /\ inst'[j].free = inst[j].free
              /\ inst'[j].taken = inst[j].taken
    BY <1>2, StartsClosing
  <1>4. \A j \in 1..Len(inst) : SlotsOf(j)
    BY SlotsUnfold
  <1>5. ASSUME NEW j \in 1..Len(inst)
        PROVE  SlotsOf(j)'
    <2>1. Running(j)' = Running(j)
      BY <1>2, SameRunning
    <2> QED
      BY <1>3, <1>4, <2>1 DEF SlotsOf
  <1> QED
    BY <1>3, <1>5 DEF Reshaped, SlotsAccounted, SlotsOf, Running

(* The aborted instance runs no call: no one knew it. *)
LEMMA AbortReloadAccounted ==
  ASSUME LoaderInv, SlotsAccounted, NEW a \in Admins, AbortReload(a)
  PROVE  SlotsAccounted'
  <1>1. op[a].new # 0 /\ Unplaced(op[a].new) /\ op[a].pc = "migrate"
    BY DEF AbortReload, LoaderInv, Prepared
  <1>2. PICK n \in 1..Len(inst) : n = op[a].new
    BY <1>1 DEF LoaderInv, LoaderTypeOK, OpOK, Op
  <1>3. PICK i \in 1..Len(inst) : i = op[a].old
    BY <1>1, CloseKind
  <1>4. i # n /\ Running(n) = {}
    BY <1>1, <1>2, <1>3, SMTT(30) DEF Unplaced, Running
  <1>5. /\ inst' = [Undrain(i) EXCEPT ![n].pool = "gone", ![n].free = 0, ![n].taken = PoolSize]
        /\ call' = call
    BY <1>2, <1>3 DEF AbortReload
  <1>6. /\ Reshaped
        /\ \A j \in 1..Len(inst) :
              /\ inst'[j].pool = IF j = n THEN "gone" ELSE inst[j].pool
              /\ inst'[j].free = IF j = n THEN 0 ELSE inst[j].free
              /\ inst'[j].taken = IF j = n THEN PoolSize ELSE inst[j].taken
              /\ inst'[j].draining <=> inst[j].draining /\ j # i
              /\ inst'[j].active = inst[j].active
              /\ inst'[j].drained <=> inst[j].drained
              /\ inst'[j].forced <=> inst[j].forced
              /\ inst'[j].givenBack <=> inst[j].givenBack \/ j = i
    BY <1>4, <1>5, Aborts, Zenon
  <1>7. \A j \in 1..Len(inst) : SlotsOf(j)
    BY SlotsUnfold
  <1>8. ASSUME NEW j \in 1..Len(inst)
        PROVE  SlotsOf(j)'
    <2>1. Running(j)' = Running(j)
      BY <1>5, SameRunning
    <2>2. Cardinality({}) = 0
      BY FS_EmptySet
    <2>3. CASE j = n
      <3>1. inst'[n].pool = "gone" /\ inst'[n].free = 0 /\ inst'[n].taken = PoolSize /\ Cardinality(Running(n)) = 0
        BY <1>4, <1>6, <2>2
      <3>2. inst'[n].free + inst'[n].taken + Cardinality(Running(n)) = PoolSize
        BY <3>1, PluginLoaderAssumption
      <3> QED
        BY <2>1, <2>3, <3>1, <3>2 DEF SlotsOf
    <2>4. CASE j # n
      BY <1>6, <1>7, <2>1, <2>4 DEF SlotsOf
    <2> QED
      BY <2>3, <2>4
  <1> QED
    BY <1>6, <1>8 DEF Reshaped, SlotsAccounted, SlotsOf, Running

\* A prepared instance has all its slots.
LEMMA ConfigureAccounted ==
  ASSUME LoaderInv, SlotsAccounted, NEW a \in Admins, Configure(a)
  PROVE  SlotsAccounted'
  <1>1. PICK n : n = Len(inst) + 1
    OBVIOUS
  <1>2. Len(inst) \in Nat /\ call' = call /\ \A c \in Calls : call[c].in \in 0..Len(inst)
    BY DEF LoaderInv, LoaderTypeOK, CallOK, Call, Configure
  <1>3. /\ Len(inst') = n /\ inst'[n] = NewInstance(op[a].bin, op[a].cfg)
        /\ \A j \in 1..Len(inst) : inst'[j] = inst[j]
    BY <1>1, ConfigureLoaderInv
  <1>4. inst'[n].free = PoolSize /\ inst'[n].taken = 0 /\ inst'[n].pool = "open"
    BY <1>3 DEF NewInstance
  <1>5. Running(n) = {}
    BY <1>1, <1>2 DEF Running
  <1>6. \A j \in 1..Len(inst) : SlotsOf(j)
    BY SlotsUnfold
  <1>7. ASSUME NEW j \in 1..Len(inst')
        PROVE  SlotsOf(j)'
    <2>1. Running(j)' = Running(j)
      BY <1>2, SameRunning
    <2>2. Cardinality({}) = 0
      BY FS_EmptySet
    <2>3. CASE j = n
      <3>1. Cardinality(Running(n)) = 0
        BY <1>5, <2>2
      <3>2. /\ inst'[n].free + inst'[n].taken + Cardinality(Running(n)) = PoolSize
            /\ inst'[n].pool = "gone" <=> inst'[n].taken = PoolSize
        BY <1>4, <3>1, PluginLoaderAssumption
      <3> QED
        BY <2>1, <2>3, <3>2 DEF SlotsOf
    <2>4. CASE j # n
      <3>1. j \in 1..Len(inst)
        BY <1>1, <1>2, <1>3, <2>4
      <3> QED
        BY <1>3, <1>6, <2>1, <3>1 DEF SlotsOf
    <2> QED
      BY <2>3, <2>4
  <1> QED
    BY <1>7 DEF SlotsAccounted, SlotsOf, Running

(* A call takes a free slot and gives back the one it had. *)
LEMMA CallAccounted ==
  ASSUME LoaderInv, SlotsAccounted, NEW c \in Calls, NEW k \in Call, call' = [call EXCEPT ![c] = k],
         CallOK(k), CallMove(c, k), UNCHANGED <<op, loaded, mgr>>
  PROVE  SlotsAccounted'
  <1>0. /\ call[c].pc # "idle" => call[c].in \in 1..Len(inst)
        /\ loaded # 0 => loaded \in 1..Len(inst)
    BY DEF LoaderInv, LoaderTypeOK, CallOK, Call
  <1>1. /\ call' \in [Calls -> Call] /\ call'[c] = k
        /\ \A d \in Calls : d # c => call'[d] = call[d]
    BY DEF LoaderInv, LoaderTypeOK
  <1>2. \A j : Running(j) \in SUBSET Calls
    BY DEF Running
  <1>3. CASE call[c].pc # "running" /\ k.pc # "running"
    <2>1. \A j : Running(j)' = Running(j)
      BY <1>1, <1>3 DEF Running
    <2>2. Reshaped /\ \A j \in 1..Len(inst) : SameSlots(inst'[j], inst[j])
      <3>1. CASE inst' = inst
        BY <3>1, Unreshaped DEF SameSlots
      <3>2. CASE loaded # 0 /\ inst' = [inst EXCEPT ![loaded].active = @ + 1]
        BY <1>0, <3>2, Enters
      <3>3. CASE call[c].pc # "idle" /\ inst' = [inst EXCEPT ![call[c].in].active = @ - 1]
        BY <1>0, <3>3, Leaves
      <3>4. CASE call[c].pc # "idle" /\ inst' = [inst EXCEPT ![call[c].in].drained = TRUE]
        BY <1>0, <3>4, Signals
      <3> QED
        BY <1>3, <3>1, <3>2, <3>3, <3>4 DEF CallMove
    <2> QED
      BY <2>1, <2>2, SlotsKept
  <1>4. CASE k.pc = "running"
    <2>1. PICK i \in 1..Len(inst) : i = call[c].in
      BY <1>0, <1>4 DEF CallMove
    <2>2. call[c].pc = "queued" /\ inst[i].free > 0 /\ k.in = i /\ inst' = [inst EXCEPT ![i].free = @ - 1]
      BY <1>4, <2>1 DEF CallMove
    <2>3. /\ Reshaped
          /\ \A j \in 1..Len(inst) :
                /\ inst'[j].pool = inst[j].pool
                /\ inst'[j].free = IF j = i THEN inst[i].free - 1 ELSE inst[j].free
                /\ inst'[j].taken = inst[j].taken
      BY <2>2, TakesSlot
    <2>4. Running(i)' = Running(i) \cup {c} /\ c \notin Running(i)
      BY <1>1, <1>4, <2>1, <2>2 DEF Running
    <2>5. \A j \in 1..Len(inst) : j # i => Running(j)' = Running(j)
      BY <1>1, <1>4, <2>1, <2>2 DEF Running
    <2>6. Cardinality(Running(i)') = Cardinality(Running(i)) + 1 /\ Cardinality(Running(i)) \in Nat
      BY <1>2, <2>4, CallJoins
    <2>7. \A j \in 1..Len(inst) : SlotsOf(j)
      BY SlotsUnfold
    <2>8. ASSUME NEW j \in 1..Len(inst)
          PROVE  SlotsOf(j)'
      <3>1. CASE j = i
        <4>1. /\ inst[i].free \in Nat /\ inst[i].taken \in Nat /\ PoolSize \in Nat
              /\ inst[i].free + inst[i].taken + Cardinality(Running(i)) = PoolSize
              /\ inst[i].pool = "gone" <=> inst[i].taken = PoolSize
          BY <2>7, InstanceTypes DEF SlotsOf
        <4>2. inst'[i].pool = inst[i].pool /\ inst'[i].free = inst[i].free - 1 /\ inst'[i].taken = inst[i].taken
          BY <2>3
        <4>3. inst'[i].free + inst'[i].taken + Cardinality(Running(i)') = PoolSize
          BY <2>6, <4>1, <4>2, SMTT(30)
        <4> QED
          BY <3>1, <4>1, <4>2, <4>3 DEF SlotsOf
      <3>2. CASE j # i
        BY <2>3, <2>5, <2>7, <3>2 DEF SlotsOf
      <3> QED
        BY <3>1, <3>2
    <2> QED
      BY <2>3, <2>8 DEF Reshaped, SlotsAccounted, SlotsOf, Running
  <1>5. CASE call[c].pc = "running"
    <2>1. PICK i \in 1..Len(inst) : i = call[c].in
      BY <1>0, <1>5
    <2>2. k.pc # "running" /\ inst' = [inst EXCEPT ![i].free = @ + 1]
      BY <1>5, <2>1 DEF CallMove
    <2>3. /\ Reshaped
          /\ \A j \in 1..Len(inst) :
                /\ inst'[j].pool = inst[j].pool
                /\ inst'[j].free = IF j = i THEN inst[i].free + 1 ELSE inst[j].free
                /\ inst'[j].taken = inst[j].taken
      BY <2>2, GivesSlot
    <2>4. Running(i)' = Running(i) \ {c} /\ c \in Running(i)
      BY <1>1, <1>5, <2>1, <2>2 DEF Running
    <2>5. \A j \in 1..Len(inst) : j # i => Running(j)' = Running(j)
      BY <1>1, <1>5, <2>1, <2>2 DEF Running
    <2>6. Cardinality(Running(i)') = Cardinality(Running(i)) - 1 /\ Cardinality(Running(i)) \in Nat
      BY <1>2, <2>4, CallQuits
    <2>7. \A j \in 1..Len(inst) : SlotsOf(j)
      BY SlotsUnfold
    <2>8. ASSUME NEW j \in 1..Len(inst)
          PROVE  SlotsOf(j)'
      <3>1. CASE j = i
        <4>1. /\ inst[i].free \in Nat /\ inst[i].taken \in Nat /\ PoolSize \in Nat
              /\ inst[i].free + inst[i].taken + Cardinality(Running(i)) = PoolSize
              /\ inst[i].pool = "gone" <=> inst[i].taken = PoolSize
          BY <2>7, InstanceTypes DEF SlotsOf
        <4>2. inst'[i].pool = inst[i].pool /\ inst'[i].free = inst[i].free + 1 /\ inst'[i].taken = inst[i].taken
          BY <2>3
        <4>3. inst'[i].free + inst'[i].taken + Cardinality(Running(i)') = PoolSize
          BY <2>6, <4>1, <4>2, SMTT(30)
        <4> QED
          BY <3>1, <4>1, <4>2, <4>3 DEF SlotsOf
      <3>2. CASE j # i
        BY <2>3, <2>5, <2>7, <3>2 DEF SlotsOf
      <3> QED
        BY <3>1, <3>2
    <2> QED
      BY <2>3, <2>8 DEF Reshaped, SlotsAccounted, SlotsOf, Running
  <1> QED
    BY <1>3, <1>4, <1>5

(* Every other step of an operation leaves the slots alone. *)
LEMMA GiveUpSlots ==
  ASSUME LoaderInv, NEW a \in Admins, op[a].pc # "idle", GiveUp(a)
  PROVE  Reshaped /\ \A j \in 1..Len(inst) : SameSlots(inst'[j], inst[j])
  <1>1. CASE op[a].kind = "reload"
    BY <1>1, OldPlaced, GivesBack DEF GiveUp
  <1>2. CASE op[a].kind # "reload"
    BY <1>2, Unreshaped DEF GiveUp, SameSlots
  <1> QED
    BY <1>1, <1>2

\* A step that moves no call and no slot.
LEMMA OtherSlots ==
  ASSUME LoaderInv, SlotsAccounted, call' = call, Reshaped,
         \A j \in 1..Len(inst) : SameSlots(inst'[j], inst[j])
  PROVE  SlotsAccounted'
  BY SameRunning, SlotsKept

\* Every step of an operation.
LEMMA StepAccounted ==
  ASSUME LoaderInv, SlotsAccounted, NEW a \in Admins, Step(a)
  PROVE  SlotsAccounted'
  <1>1. CASE Prepare(a) \/ Activate(a) \/ Migrate(a) \/ Insert(a) \/ Revoke(a) \/ UnregisterTriggers(a)
             \/ RegisterTriggers(a) \/ Drained(a) \/ Closed(a) \/ Sync(a) \/ ReconfigureError(a)
    <2>1. inst' = inst /\ call' = call
      BY <1>1 DEF Prepare, Activate, Migrate, Insert, Revoke, UnregisterTriggers, RegisterTriggers, Drained,
                  Closed, Sync, ReconfigureError
    <2> QED
      BY <2>1, Unreshaped, OtherSlots DEF SameSlots
  <1>2. CASE PrepareError(a) \/ ActivateError(a)
    BY <1>2, GiveUpSlots, OtherSlots DEF PrepareError, ActivateError
  <1>3. CASE Drain(a)
    BY <1>3, CloseKind, StartsDraining, OtherSlots DEF Drain
  <1>4. CASE DrainSignal(a)
    BY <1>4, CloseKind, Signals, OtherSlots DEF DrainSignal, CloseDrained
  <1>5. CASE DrainTimeout(a)
    BY <1>5, CloseKind, Forces, OtherSlots DEF DrainTimeout
  <1>6. CASE Reconfigured(a)
    <2>1. op[a].cfg \in Configs \cup {None}
      BY DEF LoaderInv, LoaderTypeOK, Op
    <2> QED
      BY <1>6, <2>1, CloseKind, KeepsConfig, OtherSlots DEF Reconfigured
  <1> QED
    BY <1>1, <1>2, <1>3, <1>4, <1>5, <1>6, ClosePoolAccounted, TakeSlotsAccounted, ConfigureAccounted,
       AbortReloadAccounted DEF Step

\* Every beginning of one.
LEMMA BeginAccounted ==
  ASSUME LoaderInv, SlotsAccounted, NEW a \in Admins, NEW b, NEW c,
         BeginLoad(a, b, c) \/ BeginReload(a, b, c) \/ BeginUnload(a) \/ BeginReconfigure(a, c)
  PROVE  SlotsAccounted'
  <1>1. CASE BeginLoad(a, b, c) \/ BeginUnload(a) \/ BeginReconfigure(a, c)
    <2>1. inst' = inst /\ call' = call
      BY <1>1 DEF BeginLoad, BeginUnload, BeginReconfigure, Start
    <2> QED
      BY <2>1, Unreshaped, OtherSlots DEF SameSlots
  <1>2. CASE BeginReload(a, b, c)
    <2>1. loaded \in 1..Len(inst)
      BY <1>2 DEF BeginReload, LoaderInv, LoaderTypeOK
    <2>2. inst' = [inst EXCEPT ![loaded].draining = TRUE] /\ call' = call
      BY <1>2 DEF BeginReload, Start
    <2> QED
      BY <2>1, <2>2, StartsDraining, OtherSlots
  <1> QED
    BY <1>1, <1>2

\* Whose step it is.
LEMMA NextCases ==
  ASSUME Next
  PROVE  \/ \E a \in Admins, b \in Binaries, c \in Configs \cup {None} : BeginLoad(a, b, c) \/ BeginReload(a, b, c)
         \/ \E a \in Admins, c \in Configs : BeginReconfigure(a, c)
         \/ \E a \in Admins : BeginUnload(a) \/ Step(a)
         \/ \E c \in Calls : Acquire(c) \/ HandleEvent(c) \/ TakeSlot(c) \/ Progress(c)
  BY DEF Next

\* Every step accounts for the slots.
LEMMA NextAccounted ==
  ASSUME LoaderInv, SlotsAccounted, [Next]_vars
  PROVE  SlotsAccounted'
  <1>1. CASE UNCHANGED vars
    BY <1>1, Unreshaped, OtherSlots DEF vars, SameSlots
  <1>2. ASSUME NEW c \in Calls, Acquire(c) \/ HandleEvent(c) \/ TakeSlot(c) \/ Progress(c)
        PROVE  SlotsAccounted'
    BY <1>2, CallMoves, CallAccounted
  <1>3. CASE Next
    BY <1>2, <1>3, NextCases, BeginAccounted, StepAccounted
  <1> QED
    BY <1>1, <1>3

\* So does the start of the process.
LEMMA InitAccounted == Init => SlotsAccounted
  <1> SUFFICES ASSUME Init
               PROVE  SlotsAccounted
    OBVIOUS
  <1>1. \/ inst = <<>>
        \/ \E b \in Binaries, c \in Configs \cup {None} : inst = <<NewInstance(b, c)>>
    BY DEF Init
  <1>2. \A i : Running(i) = {}
    BY DEF Init, IdleCall, Running
  <1>3. ASSUME NEW i \in 1..Len(inst)
        PROVE  SlotsOf(i)
    <2>1. inst[i].free = PoolSize /\ inst[i].taken = 0 /\ inst[i].pool = "open"
      BY <1>1 DEF NewInstance
    <2>2. Cardinality(Running(i)) = 0
      BY <1>2, FS_EmptySet
    <2> QED
      BY <2>1, <2>2, PluginLoaderAssumption DEF SlotsOf
  <1> QED
    BY <1>3, SlotsUnfold

(* Slots are neither lost nor made, whichever operations and calls         *)
(* overlap: free slots, slots that Close took and running calls add up to  *)
(* the size of the pool, and a pool is gone exactly when Close took them   *)
(* all.  The step of abortReload needs LoaderInv: the pool it drops at     *)
(* once belongs to an instance that no call could have reached.            *)
THEOREM SlotsAreAccounted == Spec => []SlotsAccounted
  <1> DEFINE I == LoaderInv /\ SlotsAccounted
  <1>1. Init => I
    BY LoaderInitInv, InitAccounted
  <1>2. I /\ [Next]_vars => I'
    BY NextLoaderInv, NextAccounted
  <1>3. I => SlotsAccounted
    OBVIOUS
  <1> QED
    BY <1>1, <1>2, <1>3, PTL DEF Spec

-----------------------------------------------------------------------------
(* The drain protocol.  The counter of an instance counts the calls inside *)
(* it; once its channel is closed, or someone is about to close it, the    *)
(* instance takes no more counted calls and has none; and a pool is closed *)
(* after that, after the time-out, or when no one can reach it.            *)

Inside(i) ==
    {c \in Calls : /\ call[c].in = i /\ call[c].counted
                   /\ call[c].pc \in {"call", "queued", "running", "release"}}

Counted ==
    /\ \A i \in 1..Len(inst) : inst[i].active = Cardinality(Inside(i))
    /\ \A c \in Calls : call[c].pc = "release" => call[c].counted

Signalled(i) ==
    \/ inst[i].drained
    \/ \E a \in Admins : op[a].old = i /\ op[a].pc = "signal"
    \/ \E c \in Calls : call[c].in = i /\ call[c].pc = "signal"

DrainedEmpty == \A i \in 1..Len(inst) :
    Signalled(i) /\ ~inst[i].givenBack => inst[i].draining /\ inst[i].active = 0

ClosedAfterDrain ==
    /\ \A a \in Admins : op[a].pc \in {"close", "slots"} => inst[op[a].old].drained \/ inst[op[a].old].forced
    /\ \A i \in 1..Len(inst) : inst[i].pool # "open" => inst[i].drained \/ inst[i].forced \/ Discarded(i)

DrainInv == Counted /\ DrainedEmpty /\ ClosedAfterDrain

\* The invariant says what the property says.
LEMMA DrainGraceful ==
  ASSUME LoaderInv, DrainInv
  PROVE  GracefulDrain
  <1> SUFFICES ASSUME NEW i \in 1..Len(inst), inst[i].pool # "open", ~inst[i].forced, ~inst[i].givenBack,
                      NEW c \in Calls, call[c].in = i, call[c].counted, call[c].pc \in {"queued", "running"}
               PROVE  FALSE
    BY DEF GracefulDrain
  <1>1. inst[i].drained
    BY DEF DrainInv, ClosedAfterDrain, Discarded, Unplaced
  <1>2. inst[i].active = 0
    BY <1>1 DEF DrainInv, DrainedEmpty, Signalled
  <1>3. c \in Inside(i) /\ Inside(i) \in SUBSET Calls
    BY DEF Inside
  <1>4. Cardinality(Inside(i)) = 0
    BY <1>2 DEF DrainInv, Counted
  <1>5. Inside(i) = {}
    BY <1>3, <1>4, CallSubset, FS_EmptySet
  <1> QED
    BY <1>3, <1>5

(* A step of one administrator. *)
LEMMA AdminDrain ==
  ASSUME LoaderInv, DrainInv, KeepsLoaderInv, Reshaped, call' = call, NEW a \in Admins,
         \A b \in Admins : b # a => op'[b] = op[b],
         \A j \in 1..Len(inst) :
            /\ inst'[j].active = inst[j].active
            /\ inst[j].drained => inst'[j].drained
            /\ inst[j].forced => inst'[j].forced
            /\ inst[j].givenBack => inst'[j].givenBack
            /\ inst[j].draining => inst'[j].draining \/ inst'[j].givenBack
            /\ inst'[j].drained => Signalled(j)
            /\ inst'[j].pool # "open" => \/ inst[j].pool # "open"
                                         \/ inst[j].drained \/ inst[j].forced \/ Discarded(j)',
         op'[a].pc = "signal" /\ op'[a].old # 0 => inst'[op'[a].old].draining /\ inst'[op'[a].old].active = 0,
         op'[a].pc \in {"close", "slots"} => inst'[op'[a].old].drained \/ inst'[op'[a].old].forced
  PROVE  DrainInv'
  <1>1. Counted'
    BY DEF DrainInv, Counted, Inside, Reshaped
  <1>2. ASSUME NEW j \in 1..Len(inst), Signalled(j)', ~inst'[j].givenBack
        PROVE  inst'[j].draining /\ inst'[j].active = 0
    <2>1. CASE Signalled(j)
      BY <1>2, <2>1 DEF DrainInv, DrainedEmpty
    <2>2. CASE ~Signalled(j)
      <3>1. op'[a].old = j /\ op'[a].pc = "signal"
        BY <1>2, <2>2 DEF Signalled
      <3> QED
        BY <3>1
    <2> QED
      BY <2>1, <2>2
  <1>3. ASSUME NEW b \in Admins, op'[b].pc \in {"close", "slots"}
        PROVE  inst'[op'[b].old].drained \/ inst'[op'[b].old].forced
    <2>1. CASE b # a
      <3>1. op[b].old \in 1..Len(inst) /\ op'[b] = op[b]
        BY <1>3, <2>1, CloseKind
      <3> QED
        BY <1>3, <3>1 DEF DrainInv, ClosedAfterDrain
    <2> QED
      BY <1>3, <2>1
  <1>4. ASSUME NEW j \in 1..Len(inst), inst'[j].pool # "open"
        PROVE  inst'[j].drained \/ inst'[j].forced \/ Discarded(j)'
    BY <1>4 DEF DrainInv, ClosedAfterDrain, KeepsLoaderInv
  <1> QED
    BY <1>1, <1>2, <1>3, <1>4 DEF DrainInv, DrainedEmpty, ClosedAfterDrain, Reshaped

\* A step of a call, from what it does to the counters and signals.
LEMMA CallDrain ==
  ASSUME LoaderInv, DrainInv, KeepsLoaderInv, Reshaped, op' = op, Counted',
         \A j \in 1..Len(inst) :
            /\ inst[j].drained => inst'[j].drained
            /\ inst[j].forced <=> inst'[j].forced
            /\ inst[j].givenBack <=> inst'[j].givenBack
            /\ inst[j].draining <=> inst'[j].draining
            /\ inst'[j].pool = inst[j].pool
            /\ Signalled(j)' /\ ~inst[j].givenBack => inst[j].draining /\ inst'[j].active = 0
  PROVE  DrainInv'
  <1>1. ASSUME NEW b \in Admins, op[b].pc \in {"close", "slots"}
        PROVE  inst'[op[b].old].drained \/ inst'[op[b].old].forced
    <2>1. op[b].old \in 1..Len(inst)
      BY <1>1, CloseKind
    <2> QED
      BY <1>1, <2>1 DEF DrainInv, ClosedAfterDrain
  <1>2. ASSUME NEW j \in 1..Len(inst), inst'[j].pool # "open"
        PROVE  inst'[j].drained \/ inst'[j].forced \/ Discarded(j)'
    BY <1>2 DEF DrainInv, ClosedAfterDrain, KeepsLoaderInv
  <1> QED
    BY <1>1, <1>2 DEF DrainInv, DrainedEmpty, ClosedAfterDrain, Reshaped

\* The operations after one of them moved on.
LEMMA GoesTo ==
  ASSUME LoaderInv, NEW a \in Admins, NEW pc \in OpPcs, GoTo(a, pc)
  PROVE  /\ op'[a].pc = pc /\ op'[a].old = op[a].old
         /\ \A b \in Admins : b # a => op'[b] = op[b]
  BY GoToOp DEF LoaderInv, LoaderTypeOK

\* The operations after one of them ended.
LEMMA Ends ==
  ASSUME LoaderInv, NEW a \in Admins, op' = [op EXCEPT ![a] = IdleOp]
  PROVE  op'[a].pc = "idle" /\ \A b \in Admins : b # a => op'[b] = op[b]
  BY DEF LoaderInv, LoaderTypeOK, IdleOp

(* Steps that leave every instance alone. *)
LEMMA QuietDrain ==
  ASSUME LoaderInv, DrainInv, KeepsLoaderInv, inst' = inst, call' = call, NEW a \in Admins,
         \A b \in Admins : b # a => op'[b] = op[b], op'[a].pc # "signal",
         op'[a].pc \in {"close", "slots"} => inst[op'[a].old].drained \/ inst[op'[a].old].forced
  PROVE  DrainInv'
  <1>1. Reshaped
    BY Unreshaped
  <1>2. \A j \in 1..Len(inst) : inst[j].drained => Signalled(j)
    BY DEF Signalled
  <1> QED
    BY <1>1, <1>2, AdminDrain

(* The dropped instance is out of reach of everyone. *)
LEMMA AbortReloadDrain ==
  ASSUME LoaderInv, DrainInv, NEW a \in Admins, AbortReload(a)
  PROVE  DrainInv'
  <1>1. /\ op[a].new # 0 /\ Unplaced(op[a].new) /\ op[a].pc = "migrate"
        /\ \A b \in Admins : b # a => op[b].new # op[a].new
    BY DEF AbortReload, LoaderInv, Prepared
  <1>2. PICK n \in 1..Len(inst) : n = op[a].new
    BY <1>1 DEF LoaderInv, LoaderTypeOK, OpOK, Op
  <1>3. PICK i \in 1..Len(inst) : i = op[a].old
    BY <1>1, CloseKind
  <1>4. i # n
    BY <1>1, <1>2, <1>3, SMTT(30) DEF Unplaced
  <1>5. inst' = [Undrain(i) EXCEPT ![n].pool = "gone", ![n].free = 0, ![n].taken = PoolSize]
    BY <1>2, <1>3 DEF AbortReload
  <1>6. /\ Reshaped
        /\ \A j \in 1..Len(inst) :
              /\ inst'[j].pool = IF j = n THEN "gone" ELSE inst[j].pool
              /\ inst'[j].free = IF j = n THEN 0 ELSE inst[j].free
              /\ inst'[j].taken = IF j = n THEN PoolSize ELSE inst[j].taken
              /\ inst'[j].draining <=> inst[j].draining /\ j # i
              /\ inst'[j].active = inst[j].active
              /\ inst'[j].drained <=> inst[j].drained
              /\ inst'[j].forced <=> inst[j].forced
              /\ inst'[j].givenBack <=> inst[j].givenBack \/ j = i
    BY <1>4, <1>5, Aborts, ZenonT(30)
  <1>7. call' = call /\ loaded' = loaded /\ mgr' = mgr /\ op' = [op EXCEPT ![a] = IdleOp]
    BY DEF AbortReload, where
  <1>8. op'[a].pc = "idle" /\ op'[a].old = 0 /\ op'[a].new = 0 /\ \A b \in Admins : b # a => op'[b] = op[b]
    BY <1>7 DEF LoaderInv, LoaderTypeOK, IdleOp
  <1>9. Discarded(n)'
    BY <1>1, <1>2, <1>7, <1>8 DEF Discarded, Unplaced
  <1>10. KeepsLoaderInv
    BY StepLoaderInv DEF Step
  <1>11. \A j \in 1..Len(inst) : inst[j].drained => Signalled(j)
    BY DEF Signalled
  <1> HIDE DEF Undrain
  <1>12. \A j \in 1..Len(inst) :
            /\ inst'[j].active = inst[j].active
            /\ inst[j].drained => inst'[j].drained
            /\ inst[j].forced => inst'[j].forced
            /\ inst[j].givenBack => inst'[j].givenBack
            /\ inst[j].draining => inst'[j].draining \/ inst'[j].givenBack
            /\ inst'[j].drained => Signalled(j)
            /\ inst'[j].pool # "open" => \/ inst[j].pool # "open"
                                         \/ inst[j].drained \/ inst[j].forced \/ Discarded(j)'
    BY <1>6, <1>9, <1>11
  <1> QED
    BY <1>6, <1>7, <1>8, <1>10, <1>12, AdminDrain, SMTT(30)

\* A prepared instance takes calls and has none.
LEMMA ConfigureDrain ==
  ASSUME LoaderInv, DrainInv, NEW a \in Admins, Configure(a)
  PROVE  DrainInv'
  <1>1. PICK n : n = Len(inst) + 1
    OBVIOUS
  <1>2. /\ Len(inst) \in Nat /\ \A c \in Calls : call[c].in \in 0..Len(inst)
        /\ \A b \in Admins : op[b].old \in 0..Len(inst)
    BY DEF LoaderInv, LoaderTypeOK, CallOK, Call, OpOK, Op
  <1>3. /\ KeepsLoaderInv /\ Len(inst') = n /\ inst'[n] = NewInstance(op[a].bin, op[a].cfg)
        /\ \A j \in 1..Len(inst) : inst'[j] = inst[j]
        /\ \A b \in Admins : op'[b].old = op[b].old /\ (b # a => op'[b] = op[b])
        /\ op'[a].pc \in {"insert", "migrate"}
    BY <1>1, ConfigureLoaderInv
  <1>4. call' = call
    BY DEF Configure
  <1>5. inst'[n].pool = "open" /\ inst'[n].active = 0 /\ ~inst'[n].drained
    BY <1>3 DEF NewInstance
  <1>6. \A j \in 1..Len(inst') : j = n \/ j \in 1..Len(inst)
    BY <1>1, <1>2, <1>3
  <1>7. Counted'
    <2>1. Inside(n) = {}
      BY <1>1, <1>2 DEF Inside
    <2>2. \A j : Inside(j)' = Inside(j)
      BY <1>4 DEF Inside
    <2>3. Cardinality(Inside(n)') = 0
      BY <2>1, <2>2, FS_EmptySet
    <2>4. ASSUME NEW j \in 1..Len(inst')
          PROVE  inst'[j].active = Cardinality(Inside(j)')
      <3>1. CASE j = n
        BY <1>5, <2>3, <3>1
      <3>2. CASE j \in 1..Len(inst)
        BY <1>3, <2>2, <3>2 DEF DrainInv, Counted
      <3> QED
        BY <1>6, <3>1, <3>2
    <2> QED
      BY <1>4, <2>4 DEF DrainInv, Counted
  <1>8. ASSUME NEW j \in 1..Len(inst'), Signalled(j)', ~inst'[j].givenBack
        PROVE  inst'[j].draining /\ inst'[j].active = 0
    <2>1. CASE j = n
      <3>1. (\A b \in Admins : op'[b].old # n) /\ \A c \in Calls : call'[c].in # n
        BY <1>1, <1>2, <1>3, <1>4
      <3> QED
        BY <1>5, <1>8, <2>1, <3>1 DEF Signalled
    <2>2. CASE j \in 1..Len(inst)
      <3>1. Signalled(j)
        BY <1>3, <1>4, <1>8, <2>2 DEF Signalled
      <3> QED
        BY <1>3, <1>8, <2>2, <3>1 DEF DrainInv, DrainedEmpty
    <2> QED
      BY <1>6, <2>1, <2>2
  <1>9. ASSUME NEW b \in Admins, op'[b].pc \in {"close", "slots"}
        PROVE  inst'[op'[b].old].drained \/ inst'[op'[b].old].forced
    <2>1. b # a /\ op'[b] = op[b]
      BY <1>3, <1>9
    <2>2. op[b].old \in 1..Len(inst)
      BY <1>9, <2>1, CloseKind
    <2> QED
      BY <1>3, <1>9, <2>1, <2>2 DEF DrainInv, ClosedAfterDrain
  <1>10. ASSUME NEW j \in 1..Len(inst'), inst'[j].pool # "open"
         PROVE  inst'[j].drained \/ inst'[j].forced \/ Discarded(j)'
    <2>1. j \in 1..Len(inst)
      BY <1>5, <1>6, <1>10
    <2> QED
      BY <1>3, <1>10, <2>1 DEF DrainInv, ClosedAfterDrain, KeepsLoaderInv
  <1> QED
    BY <1>7, <1>8, <1>9, <1>10 DEF DrainInv, DrainedEmpty, ClosedAfterDrain

\* Every step of an operation keeps the drain invariant.
LEMMA StepDrain ==
  ASSUME LoaderInv, DrainInv, NEW a \in Admins, Step(a)
  PROVE  DrainInv'
  <1>1. KeepsLoaderInv
    BY StepLoaderInv
  <1>2. \A j \in 1..Len(inst) : inst[j].drained => Signalled(j)
    BY DEF Signalled
  <1>3. \A pc \in OpPcs : GoTo(a, pc) => /\ op'[a].pc = pc /\ op'[a].old = op[a].old
                                         /\ \A b \in Admins : b # a => op'[b] = op[b]
    BY GoesTo
  <1>4. CASE Prepare(a) \/ Activate(a) \/ Migrate(a) \/ Insert(a) \/ Revoke(a) \/ UnregisterTriggers(a)
             \/ RegisterTriggers(a) \/ Closed(a)
    <2>1. inst' = inst /\ call' = call
      BY <1>4 DEF Prepare, Activate, Migrate, Insert, Revoke, UnregisterTriggers, RegisterTriggers, Closed
    <2>2. \E pc \in OpPcs \ {"signal", "close", "slots"} : GoTo(a, pc)
      <3>1. CASE Prepare(a) \/ Activate(a) \/ Migrate(a) \/ Revoke(a) \/ Closed(a)
        BY <3>1 DEF Prepare, Activate, Migrate, Revoke, Closed, OpPcs
      <3>2. CASE Insert(a)
        BY <3>2 DEF Insert, OpPcs
      <3>3. CASE UnregisterTriggers(a)
        BY <3>3 DEF UnregisterTriggers, OpPcs
      <3>4. CASE RegisterTriggers(a)
        BY <3>4 DEF RegisterTriggers, OpPcs
      <3> QED
        BY <1>4, <3>1, <3>2, <3>3, <3>4
    <2>3. PICK pc \in OpPcs \ {"signal", "close", "slots"} : GoTo(a, pc)
      BY <2>2
    <2>4. op'[a].pc \notin {"signal", "close", "slots"} /\ \A b \in Admins : b # a => op'[b] = op[b]
      BY <1>3, <2>3
    <2> QED
      BY <1>1, <2>1, <2>4, QuietDrain
  <1>5. CASE Sync(a) \/ ReconfigureError(a)
    <2>1. inst' = inst /\ call' = call /\ op' = [op EXCEPT ![a] = IdleOp]
      BY <1>5 DEF Sync, ReconfigureError
    <2> QED
      BY <1>1, <2>1, Ends, QuietDrain
  <1>6. CASE Drained(a)
    <2>1. /\ op[a].pc = "wait" /\ inst[op[a].old].drained /\ inst' = inst /\ call' = call
          /\ GoTo(a, "close") /\ "close" \in OpPcs
      BY <1>6 DEF Drained, OpPcs
    <2>2. op'[a].pc = "close" /\ op'[a].old = op[a].old /\ \A b \in Admins : b # a => op'[b] = op[b]
      BY <1>3, <2>1
    <2> QED
      BY <1>1, <2>1, <2>2, QuietDrain
  <1>7. CASE PrepareError(a) \/ ActivateError(a)
    <2>1. op[a].pc # "idle" /\ GiveUp(a) /\ call' = call /\ op' = [op EXCEPT ![a] = IdleOp]
      BY <1>7 DEF PrepareError, ActivateError, GiveUp
    <2>2. op'[a].pc = "idle" /\ \A b \in Admins : b # a => op'[b] = op[b]
      BY <2>1, Ends
    <2>3. CASE op[a].kind = "reload"
      <3>1. op[a].old \in 1..Len(inst) /\ inst' = Undrain(op[a].old)
        BY <2>1, <2>3, OldPlaced DEF GiveUp
      <3>2. PICK i \in 1..Len(inst) : i = op[a].old
        BY <3>1
      <3>3. /\ Reshaped
            /\ \A j \in 1..Len(inst) :
                  /\ SameSlots(inst'[j], inst[j])
                  /\ inst'[j].draining <=> inst[j].draining /\ j # i
                  /\ inst'[j].active = inst[j].active
                  /\ inst'[j].drained <=> inst[j].drained
                  /\ inst'[j].forced <=> inst[j].forced
                  /\ inst'[j].givenBack <=> inst[j].givenBack \/ j = i
        BY <3>1, <3>2, GivesBack
      <3> QED
        BY <1>1, <1>2, <2>1, <2>2, <3>3, AdminDrain DEF SameSlots
    <2>4. CASE op[a].kind # "reload"
      <3>1. inst' = inst
        BY <2>1, <2>4 DEF GiveUp
      <3> QED
        BY <1>1, <2>1, <2>2, <3>1, QuietDrain
    <2> QED
      BY <2>3, <2>4
  <1>8. CASE Drain(a)
    <2>1. PICK i \in 1..Len(inst) : i = op[a].old
      BY <1>8, CloseKind DEF Drain
    <2>2. inst' = [inst EXCEPT ![i].draining = TRUE] /\ call' = call
      BY <1>8, <2>1 DEF Drain
    <2>3. PICK pc \in OpPcs : GoTo(a, pc) /\ pc \in {"signal", "wait"} /\ (pc = "signal" => inst[i].active = 0)
      BY <1>8, <2>1 DEF Drain, OpPcs
    <2>4. op'[a].pc = pc /\ op'[a].old = i /\ \A b \in Admins : b # a => op'[b] = op[b]
      BY <1>3, <2>1, <2>3
    <2>5. /\ Reshaped
          /\ \A j \in 1..Len(inst) :
                /\ SameSlots(inst'[j], inst[j])
                /\ inst'[j].draining <=> inst[j].draining \/ j = i
                /\ inst'[j].active = inst[j].active
                /\ inst'[j].drained <=> inst[j].drained
                /\ inst'[j].forced <=> inst[j].forced
                /\ inst'[j].givenBack <=> inst[j].givenBack
      BY <2>2, StartsDraining
    <2>6. op'[a].pc = "signal" => inst'[op'[a].old].draining /\ inst'[op'[a].old].active = 0
      BY <2>3, <2>4, <2>5
    <2>7. op'[a].pc \notin {"close", "slots"}
      BY <2>3, <2>4
    <2> QED
      BY <1>1, <1>2, <2>2, <2>4, <2>5, <2>6, <2>7, AdminDrain DEF SameSlots
  <1>9. CASE DrainSignal(a)
    <2>1. PICK i \in 1..Len(inst) : i = op[a].old
      BY <1>9, CloseKind DEF DrainSignal
    <2>2. /\ inst' = [inst EXCEPT ![i].drained = TRUE] /\ call' = call /\ op[a].pc = "signal"
          /\ GoTo(a, "wait") /\ "wait" \in OpPcs
      BY <1>9, <2>1 DEF DrainSignal, CloseDrained, OpPcs
    <2>3. op'[a].pc = "wait" /\ \A b \in Admins : b # a => op'[b] = op[b]
      BY <1>3, <2>2
    <2>4. /\ Reshaped
          /\ \A j \in 1..Len(inst) :
                /\ SameSlots(inst'[j], inst[j])
                /\ inst'[j].draining <=> inst[j].draining
                /\ inst'[j].active = inst[j].active
                /\ inst'[j].drained <=> inst[j].drained \/ j = i
                /\ inst'[j].forced <=> inst[j].forced
                /\ inst'[j].givenBack <=> inst[j].givenBack
      BY <2>2, Signals
    <2>5. Signalled(i)
      BY <2>1, <2>2 DEF Signalled
    <2> QED
      BY <1>1, <1>2, <2>2, <2>3, <2>4, <2>5, AdminDrain DEF SameSlots
  <1>10. CASE DrainTimeout(a)
    <2>1. PICK i \in 1..Len(inst) : i = op[a].old
      BY <1>10, CloseKind DEF DrainTimeout
    <2>2. /\ inst' = [inst EXCEPT ![i].forced = TRUE] /\ call' = call
          /\ GoTo(a, "close") /\ "close" \in OpPcs
      BY <1>10, <2>1 DEF DrainTimeout, OpPcs
    <2>3. op'[a].pc = "close" /\ op'[a].old = i /\ \A b \in Admins : b # a => op'[b] = op[b]
      BY <1>3, <2>1, <2>2
    <2>4. /\ Reshaped
          /\ \A j \in 1..Len(inst) :
                /\ SameSlots(inst'[j], inst[j])
                /\ inst'[j].draining <=> inst[j].draining
                /\ inst'[j].active = inst[j].active
                /\ inst'[j].drained <=> inst[j].drained
                /\ inst'[j].forced <=> inst[j].forced \/ j = i
                /\ inst'[j].givenBack <=> inst[j].givenBack
      BY <2>2, Forces
    <2> QED
      BY <1>1, <1>2, <2>2, <2>3, <2>4, AdminDrain DEF SameSlots
  <1>11. CASE ClosePool(a)
    <2>1. PICK i \in 1..Len(inst) : i = op[a].old
      BY <1>11, CloseKind DEF ClosePool
    <2>2. /\ inst' = [inst EXCEPT ![i].pool = IF @ = "open" THEN "closing" ELSE @] /\ call' = call
          /\ op[a].pc = "close" /\ GoTo(a, "slots") /\ "slots" \in OpPcs
      BY <1>11, <2>1 DEF ClosePool, OpPcs
    <2>3. op'[a].pc = "slots" /\ op'[a].old = i /\ \A b \in Admins : b # a => op'[b] = op[b]
      BY <1>3, <2>1, <2>2
    <2>4. /\ Reshaped
          /\ \A j \in 1..Len(inst) :
                /\ inst'[j].pool = IF j = i THEN (IF inst[i].pool = "open" THEN "closing" ELSE inst[i].pool)
                                   ELSE inst[j].pool
                /\ SameDrain(inst'[j], inst[j])
      BY <2>2, StartsClosing
    <2>5. inst[i].drained \/ inst[i].forced
      BY <2>1, <2>2 DEF DrainInv, ClosedAfterDrain
    <2> QED
      BY <1>1, <1>2, <2>2, <2>3, <2>4, <2>5, AdminDrain DEF SameDrain
  <1>12. CASE TakeSlots(a)
    <2>1. PICK i \in 1..Len(inst) : i = op[a].old
      BY <1>12, CloseKind, SMTT(30) DEF TakeSlots
    <2>2. /\ inst[i].free > 0 /\ inst[i].pool = "closing" /\ op[a].pc = "slots"
          /\ inst' = [inst EXCEPT ![i].free = @ - 1, ![i].taken = @ + 1,
                                  ![i].pool = IF inst[i].taken + 1 = PoolSize THEN "gone" ELSE @]
          /\ call' = call /\ op' = op
      BY <1>12, <2>1 DEF TakeSlots
    <2>3. /\ Reshaped
          /\ \A j \in 1..Len(inst) :
                /\ inst'[j].pool = IF j = i THEN (IF inst[i].taken + 1 = PoolSize THEN "gone" ELSE inst[i].pool)
                                   ELSE inst[j].pool
                /\ SameDrain(inst'[j], inst[j])
      BY <2>2, ClosesSlot
    <2>4. inst[i].drained \/ inst[i].forced
      BY <2>1, <2>2 DEF DrainInv, ClosedAfterDrain
    <2>5. op'[a].pc = "slots" /\ op'[a].old = i /\ \A b \in Admins : b # a => op'[b] = op[b]
      BY <2>1, <2>2
    <2>6. call' = call
      BY <2>2
    <2> QED
      BY <1>1, <1>2, <2>3, <2>4, <2>5, <2>6, AdminDrain DEF SameDrain
  <1>13. CASE Reconfigured(a)
    <2>1. op[a].cfg \in Configs \cup {None}
      BY DEF LoaderInv, LoaderTypeOK, Op
    <2>2. /\ Reshaped
          /\ \A j \in 1..Len(inst) : SameSlots(inst'[j], inst[j]) /\ SameDrain(inst'[j], inst[j])
      BY <1>13, <2>1, CloseKind, KeepsConfig DEF Reconfigured
    <2>3. call' = call /\ op'[a].pc = "idle" /\ \A b \in Admins : b # a => op'[b] = op[b]
      BY <1>13, Ends DEF Reconfigured
    <2> QED
      BY <1>1, <1>2, <2>2, <2>3, AdminDrain DEF SameSlots, SameDrain
  <1>14. CASE AbortReload(a)
    BY <1>14, AbortReloadDrain
  <1>15. CASE Configure(a)
    BY <1>15, ConfigureDrain
  <1> QED
    BY <1>4, <1>5, <1>6, <1>7, <1>8, <1>9, <1>10, <1>11, <1>12, <1>13, <1>14, <1>15 DEF Step

\* Every beginning of one does.
LEMMA BeginDrain ==
  ASSUME LoaderInv, DrainInv, NEW a \in Admins, NEW b, NEW c,
         \/ b \in Binaries /\ c \in Configs \cup {None} /\ (BeginLoad(a, b, c) \/ BeginReload(a, b, c))
         \/ BeginUnload(a)
         \/ c \in Configs /\ BeginReconfigure(a, c)
  PROVE  DrainInv'
  <1>1. KeepsLoaderInv
    BY BeginLoaderInv
  <1>2. \A j \in 1..Len(inst) : inst[j].drained => Signalled(j)
    BY DEF Signalled
  <1>3. ASSUME NEW o, op' = [op EXCEPT ![a] = o]
        PROVE  op'[a] = o /\ \A d \in Admins : d # a => op'[d] = op[d]
    BY <1>3 DEF LoaderInv, LoaderTypeOK
  <1>4. CASE BeginLoad(a, b, c)
    <2> DEFINE o == [IdleOp EXCEPT !.pc = "prepare", !.kind = "load", !.bin = b, !.cfg = c]
    <2>1. o.pc = "prepare"
      BY DEF IdleOp
    <2>2. op' = [op EXCEPT ![a] = o] /\ inst' = inst /\ call' = call
      BY <1>4 DEF BeginLoad, Start
    <2> HIDE DEF o
    <2> QED
      BY <1>1, <1>3, <2>1, <2>2, QuietDrain
  <1>5. CASE BeginUnload(a)
    <2> DEFINE o == [IdleOp EXCEPT !.pc = "revoke", !.kind = "unload", !.old = loaded]
    <2>1. o.pc = "revoke"
      BY DEF IdleOp
    <2>2. op' = [op EXCEPT ![a] = o] /\ inst' = inst /\ call' = call
      BY <1>5 DEF BeginUnload, Start
    <2> HIDE DEF o
    <2> QED
      BY <1>1, <1>3, <2>1, <2>2, QuietDrain
  <1>6. CASE BeginReconfigure(a, c)
    <2> DEFINE o == [IdleOp EXCEPT !.pc = "reconfigure", !.kind = "reconfigure", !.cfg = c, !.old = loaded]
    <2>1. o.pc = "reconfigure"
      BY DEF IdleOp
    <2>2. op' = [op EXCEPT ![a] = o] /\ inst' = inst /\ call' = call
      BY <1>6 DEF BeginReconfigure
    <2> HIDE DEF o
    <2> QED
      BY <1>1, <1>3, <2>1, <2>2, QuietDrain
  <1>7. CASE BeginReload(a, b, c)
    <2> DEFINE o == [IdleOp EXCEPT !.pc = "prepare", !.kind = "reload", !.bin = b, !.old = loaded,
                                   !.cfg = IF c = None THEN inst[loaded].cfg ELSE c]
    <2>1. o.pc = "prepare"
      BY DEF IdleOp
    <2>2. op' = [op EXCEPT ![a] = o] /\ inst' = [inst EXCEPT ![loaded].draining = TRUE] /\ call' = call
      BY <1>7 DEF BeginReload, Start
    <2> HIDE DEF o
    <2>3. op'[a].pc = "prepare" /\ \A d \in Admins : d # a => op'[d] = op[d]
      BY <1>3, <2>1, <2>2
    <2>4. PICK i \in 1..Len(inst) : i = loaded
      BY <1>7 DEF BeginReload, LoaderInv, LoaderTypeOK
    <2>5. /\ Reshaped
          /\ \A j \in 1..Len(inst) :
                /\ SameSlots(inst'[j], inst[j])
                /\ inst'[j].draining <=> inst[j].draining \/ j = i
                /\ inst'[j].active = inst[j].active
                /\ inst'[j].drained <=> inst[j].drained
                /\ inst'[j].forced <=> inst[j].forced
                /\ inst'[j].givenBack <=> inst[j].givenBack
      BY <2>2, <2>4, StartsDraining
    <2> QED
      BY <1>1, <1>2, <2>2, <2>3, <2>5, AdminDrain DEF SameSlots
  <1> QED
    BY <1>4, <1>5, <1>6, <1>7

(* The counter follows the calls: a call enters only an instance that is   *)
(* not draining, and the last one to leave a draining instance is about to *)
(* close its channel.                                                      *)
LEMMA CallMoveDrain ==
  ASSUME LoaderInv, DrainInv, NEW c \in Calls, NEW k \in Call, call' = [call EXCEPT ![c] = k],
         CallOK(k), CallMove(c, k), UNCHANGED <<op, loaded, mgr>>
  PROVE  DrainInv'
  <1>0. /\ call[c].pc # "idle" => call[c].in \in 1..Len(inst)
        /\ loaded # 0 => loaded \in 1..Len(inst)
    BY DEF LoaderInv, LoaderTypeOK, CallOK, Call
  <1>1. /\ call' \in [Calls -> Call] /\ call'[c] = k
        /\ \A d \in Calls : d # c => call'[d] = call[d]
    BY DEF LoaderInv, LoaderTypeOK
  <1>2. \A j : Inside(j) \in SUBSET Calls
    BY DEF Inside
  <1>3. KeepsLoaderInv /\ Reshaped
    BY CallLoaderInv
  <1>4. /\ \A j \in 1..Len(inst) : inst[j].active = Cardinality(Inside(j)) /\ inst[j].active \in Int
        /\ call[c].pc = "release" => call[c].counted
    BY InstanceTypes DEF DrainInv, Counted
  <1>5. \A d \in Calls : call'[d].pc = "release" => call'[d].counted
    BY <1>1 DEF CallMove, DrainInv, Counted
  <1>6. \A j \in 1..Len(inst) : Signalled(j) /\ ~inst[j].givenBack => inst[j].draining /\ inst[j].active = 0
    BY DEF DrainInv, DrainedEmpty
  <1>7. CASE k.pc = "call" /\ k.counted
    <2>1. PICK i \in 1..Len(inst) : i = loaded
      BY <1>0, <1>7 DEF CallMove
    <2>2. call[c].pc = "idle" /\ k.in = i /\ ~inst[i].draining /\ inst' = [inst EXCEPT ![i].active = @ + 1]
      BY <1>7, <2>1 DEF CallMove
    <2>3. \A j \in 1..Len(inst) :
                /\ SameSlots(inst'[j], inst[j])
                /\ inst'[j].draining <=> inst[j].draining
                /\ inst'[j].active = IF j = i THEN inst[i].active + 1 ELSE inst[j].active
                /\ inst'[j].drained <=> inst[j].drained
                /\ inst'[j].forced <=> inst[j].forced
                /\ inst'[j].givenBack <=> inst[j].givenBack
      BY <2>2, Enters
    <2>4. Inside(i)' = Inside(i) \cup {c} /\ c \notin Inside(i)
      BY <1>1, <1>7, <2>2 DEF Inside
    <2>5. \A j \in 1..Len(inst) : j # i => Inside(j)' = Inside(j)
      BY <1>1, <1>7, <2>2 DEF Inside
    <2>6. Cardinality(Inside(i)') = Cardinality(Inside(i)) + 1
      BY <1>2, <2>4, CallJoins
    <2>7. Counted'
      <3>1. inst'[i].active = Cardinality(Inside(i)')
        BY <1>4, <2>3, <2>6
      <3>2. \A j \in 1..Len(inst) : inst'[j].active = Cardinality(Inside(j)')
        BY <1>4, <2>3, <2>5, <3>1
      <3> QED
        BY <1>3, <1>5, <3>2 DEF Counted, Reshaped
    <2>8. \A j \in 1..Len(inst) : Signalled(j)' => Signalled(j)
      BY <1>1, <1>7, <2>3 DEF Signalled
    <2>9. \A j \in 1..Len(inst) :
             Signalled(j)' /\ ~inst[j].givenBack => inst[j].draining /\ inst'[j].active = 0
      BY <1>6, <2>2, <2>3, <2>8
    <2> QED
      BY <1>3, <2>3, <2>7, <2>9, CallDrain DEF SameSlots
  <1>8. CASE call[c].pc = "release"
    <2>1. PICK i \in 1..Len(inst) : i = call[c].in
      BY <1>0, <1>8
    <2>2. /\ IF inst[i].active = 1 /\ inst[i].draining /\ ~inst[i].drained
             THEN k.pc = "signal" /\ k.in = i
             ELSE k.pc = "idle" /\ k.in = 0
          /\ inst' = [inst EXCEPT ![i].active = @ - 1]
      BY <1>8, <2>1 DEF CallMove
    <2>3. \A j \in 1..Len(inst) :
                /\ SameSlots(inst'[j], inst[j])
                /\ inst'[j].draining <=> inst[j].draining
                /\ inst'[j].active = IF j = i THEN inst[i].active - 1 ELSE inst[j].active
                /\ inst'[j].drained <=> inst[j].drained
                /\ inst'[j].forced <=> inst[j].forced
                /\ inst'[j].givenBack <=> inst[j].givenBack
      BY <2>2, Leaves
    <2>4. k.pc \in {"signal", "idle"}
      BY <2>2
    <2>5. Inside(i)' = Inside(i) \ {c} /\ c \in Inside(i)
      BY <1>1, <1>4, <1>8, <2>1, <2>4 DEF Inside
    <2>6. \A j \in 1..Len(inst) : j # i => Inside(j)' = Inside(j)
      BY <1>1, <1>8, <2>1, <2>4 DEF Inside
    <2>7. Cardinality(Inside(i)') = Cardinality(Inside(i)) - 1
      BY <1>2, <2>5, CallQuits
    <2>8. Counted'
      <3>1. inst'[i].active = Cardinality(Inside(i)')
        BY <1>4, <2>3, <2>7
      <3>2. \A j \in 1..Len(inst) : inst'[j].active = Cardinality(Inside(j)')
        BY <1>4, <2>3, <2>6, <3>1
      <3> QED
        BY <1>3, <1>5, <3>2 DEF Counted, Reshaped
    <2>9. Cardinality(Inside(i)) # 0
      BY <1>2, <2>5, CallSubset, FS_EmptySet
    <2>10. ASSUME NEW j \in 1..Len(inst), Signalled(j)', ~inst[j].givenBack
           PROVE  inst[j].draining /\ inst'[j].active = 0
      <3>1. CASE Signalled(j)
        <4>1. inst[j].draining /\ inst[j].active = 0
          BY <1>6, <2>10, <3>1
        <4>2. j # i
          BY <1>4, <2>9, <4>1
        <4> QED
          BY <2>3, <4>1, <4>2
      <3>2. CASE ~Signalled(j)
        <4>1. j = i /\ k.pc = "signal"
          <5>1. k.pc = "signal" /\ k.in = j
            BY <1>1, <2>3, <2>10, <3>2 DEF Signalled
          <5> QED
            BY <2>2, <5>1
        <4>2. inst[i].active = 1 /\ inst[i].draining
          BY <2>2, <4>1
        <4> QED
          BY <2>3, <4>1, <4>2
      <3> QED
        BY <3>1, <3>2
    <2> QED
      BY <1>3, <2>3, <2>8, <2>10, CallDrain DEF SameSlots
  <1>9. CASE ~(k.pc = "call" /\ k.counted) /\ call[c].pc # "release"
    <2>1. \A j \in 1..Len(inst) :
                /\ inst'[j].active = inst[j].active
                /\ inst'[j].draining <=> inst[j].draining
                /\ inst[j].drained => inst'[j].drained
                /\ inst'[j].drained => inst[j].drained \/ (call[c].pc = "signal" /\ j = call[c].in)
                /\ inst'[j].forced <=> inst[j].forced
                /\ inst'[j].givenBack <=> inst[j].givenBack
                /\ inst'[j].pool = inst[j].pool
      <3>1. CASE inst' = inst
        BY <3>1
      <3>2. CASE call[c].pc # "idle" /\ inst[call[c].in].free > 0 /\ inst' = [inst EXCEPT ![call[c].in].free = @ - 1]
        BY <1>0, <3>2, TakesSlot DEF SameDrain
      <3>3. CASE call[c].pc # "idle" /\ inst' = [inst EXCEPT ![call[c].in].free = @ + 1]
        BY <1>0, <3>3, GivesSlot DEF SameDrain
      <3>4. CASE call[c].pc = "signal" /\ inst' = [inst EXCEPT ![call[c].in].drained = TRUE]
        BY <1>0, <3>4, Signals DEF SameSlots
      <3> QED
        BY <1>9, <3>1, <3>2, <3>3, <3>4 DEF CallMove
    <2>2. \A j \in 1..Len(inst) : Inside(j)' = Inside(j)
      <3>1. /\ k.counted /\ k.pc \in {"call", "queued", "running", "release"} <=>
                 call[c].counted /\ call[c].pc \in {"call", "queued", "running", "release"}
            /\ k.counted /\ k.pc \in {"call", "queued", "running", "release"} => k.in = call[c].in
        BY <1>9 DEF CallMove
      <3> QED
        BY <1>1, <3>1 DEF Inside
    <2>3. k.pc # "signal"
      BY <1>9 DEF CallMove
    <2>4. \A j \in 1..Len(inst) : Signalled(j)' => Signalled(j)
      BY <1>1, <2>1, <2>3 DEF Signalled
    <2>5. Counted'
      BY <1>3, <1>4, <1>5, <2>1, <2>2 DEF Counted, Reshaped
    <2>6. \A j \in 1..Len(inst) :
             Signalled(j)' /\ ~inst[j].givenBack => inst[j].draining /\ inst'[j].active = 0
      BY <1>6, <2>1, <2>4
    <2> QED
      BY <1>3, <2>1, <2>5, <2>6, CallDrain, SMTT(30)
  <1> QED
    BY <1>7, <1>8, <1>9

\* Every step does.
LEMMA NextDrain ==
  ASSUME LoaderInv, DrainInv, [Next]_vars
  PROVE  DrainInv'
  <1>1. CASE UNCHANGED vars
    BY <1>1 DEF vars, where, DrainInv, Counted, Inside, DrainedEmpty, Signalled, ClosedAfterDrain, Discarded, Unplaced
  <1>2. ASSUME NEW c \in Calls, Acquire(c) \/ HandleEvent(c) \/ TakeSlot(c) \/ Progress(c)
        PROVE  DrainInv'
    BY <1>2, CallMoves, CallMoveDrain
  <1>3. CASE Next
    BY <1>2, <1>3, NextCases, BeginDrain, StepDrain
  <1> QED
    BY <1>1, <1>3

\* The process starts with no call and nothing closed.
LEMMA InitDrain == Init => DrainInv
  <1> SUFFICES ASSUME Init
               PROVE  DrainInv
    OBVIOUS
  <1>1. \/ inst = <<>>
        \/ \E b \in Binaries, c \in Configs \cup {None} : inst = <<NewInstance(b, c)>>
    BY DEF Init
  <1>2. (\A c \in Calls : call[c].pc = "idle") /\ \A a \in Admins : op[a].pc = "idle"
    BY DEF Init, IdleCall, IdleOp
  <1>3. \A i \in 1..Len(inst) : inst[i].active = 0 /\ ~inst[i].drained /\ inst[i].pool = "open"
    BY <1>1 DEF NewInstance
  <1>4. \A i : Cardinality(Inside(i)) = 0
    <2>1. \A i : Inside(i) = {}
      BY <1>2 DEF Inside
    <2> QED
      BY <2>1, FS_EmptySet
  <1>5. Counted
    BY <1>2, <1>3, <1>4 DEF Counted
  <1>6. DrainedEmpty /\ ClosedAfterDrain
    BY <1>2, <1>3 DEF DrainedEmpty, Signalled, ClosedAfterDrain
  <1> QED
    BY <1>5, <1>6 DEF DrainInv

(* drainPlugin, AcquirePlugin's release function and Close agree: an       *)
(* instance that was closed without the drain time-out, and that no failed *)
(* reload had given back, has no counted call waiting or running.  The     *)
(* induction needs to know who is about to close the channel: between the  *)
(* check of the counter and the close the instance stays empty because it  *)
(* is already draining.                                                    *)
THEOREM DrainsAreGraceful == Spec => []GracefulDrain
  <1> DEFINE I == LoaderInv /\ DrainInv
  <1>1. Init => I
    BY LoaderInitInv, InitDrain
  <1>2. I /\ [Next]_vars => I'
    BY NextLoaderInv, NextDrain
  <1>3. I => GracefulDrain
    BY DrainGraceful
  <1> QED
    BY <1>1, <1>2, <1>3, PTL DEF Spec

-----------------------------------------------------------------------------
(* Operations that do not overlap.  What is loaded, known to the manager,  *)
(* registered and permitted at each stage of the one operation in progress *)
(* is what a finished operation leaves behind, or the part of it that the  *)
(* operation has changed so far.                                           *)

\* Every pool but those of X is closed.
GoneBut(X) == \A i \in 1..Len(inst) : i \notin X => inst[i].pool = "gone"

\* The permissions are those of the instance, unless a failed reload took them.
Permitted(i) == perms = inst[i].bin \/ (perms = None /\ hurt)

Settled == OneOpen /\ ManagerFollows /\ TriggersOnce /\ PermissionsFollow

\* Preparing touches permissions only; the instance is placed, then its triggers.
LoadStage(o) ==
    LET placed == o.pc \in {"register", "sync"}
        prepared == o.pc = "insert" \/ placed
    IN  /\ o.pc \in {"prepare", "activate", "configure", "insert", "register", "sync"}
        /\ Meta[o.bin].own /\ mgr = 0
        /\ loaded = IF placed THEN o.new ELSE 0
        /\ prepared => o.new # 0 /\ inst[o.new].bin = o.bin
        /\ GoneBut(IF prepared THEN {o.new} ELSE {})
        /\ routes = IF o.pc = "sync" THEN <<o.bin>> ELSE <<>>
        /\ perms = IF o.pc \in {"prepare", "activate"} THEN None ELSE o.bin

\* The manager keeps the old instance to the end.  A binary of another id
\* never gets past migrate, and never gets permissions.
ReloadStage(o) ==
    LET placed == o.pc \notin {"prepare", "activate", "configure", "migrate", "insert"}
        prepared == o.pc \in {"migrate", "insert"} \/ placed
    IN  /\ o.pc \notin {"idle", "revoke", "reconfigure"}
        /\ o.old # 0 /\ o.old # o.new /\ mgr = o.old
        /\ loaded = IF placed THEN o.new ELSE o.old
        /\ prepared => o.new # 0 /\ inst[o.new].bin = o.bin
        /\ GoneBut(IF o.pc = "sync" THEN {o.new} ELSE IF prepared THEN {o.old, o.new} ELSE {o.old})
        /\ routes = CASE o.pc = "register" -> <<>>
                      [] o.pc \in {"drain", "signal", "wait", "close", "slots", "sync"} -> <<o.bin>>
                      [] OTHER -> <<inst[o.old].bin>>
        /\ o.pc = "insert" \/ placed => Meta[o.bin].own
        /\ IF o.pc \in {"prepare", "activate"} \/ ~Meta[o.bin].own
           THEN Permitted(o.old) ELSE perms = o.bin

\* The plugin leaves the map first, the manager last.
UnloadStage(o) ==
    /\ o.pc \in {"revoke", "unregister", "drain", "signal", "wait", "close", "slots", "sync"}
    /\ loaded = 0 /\ o.old # 0 /\ mgr = o.old
    /\ GoneBut(IF o.pc = "sync" THEN {} ELSE {o.old})
    /\ routes = IF o.pc \in {"revoke", "unregister"} THEN <<inst[o.old].bin>> ELSE <<>>
    /\ o.pc # "revoke" => perms = None

Stage(o) ==
    CASE o.kind = "load" -> LoadStage(o)
      [] o.kind = "reload" -> ReloadStage(o)
      [] o.kind = "unload" -> UnloadStage(o)
      [] o.kind = "reconfigure" -> o.pc = "reconfigure" /\ Settled /\ loaded = o.old /\ o.old # 0

\* No two operations are in progress.
Alone == \A a, b \in Admins : op[a].pc # "idle" /\ op[b].pc # "idle" => a = b

SettlingInv ==
    ~overlap => /\ Alone
                /\ Quiet => Settled
                /\ \A o \in {op[a] : a \in Admins} : o.pc # "idle" => Stage(o)

SameBins == \A j \in 1..Len(inst) : inst'[j].bin = inst[j].bin

\* An instance keeps the binary it was prepared from, whatever happens to it.
LEMMA BinKept ==
  ASSUME LoaderInv, NEW i \in 1..Len(inst), NEW r, r.bin = inst[i].bin, inst' = [inst EXCEPT ![i] = r]
  PROVE  SameBins
  <1>1. inst \in Seq(Instance)
    BY DEF LoaderInv, LoaderTypeOK
  <1> QED
    BY <1>1 DEF SameBins

\* beginReload, drainPlugin and a failed reload.
LEMMA DrainKeepsBins ==
  ASSUME LoaderInv, NEW i \in 1..Len(inst),
         \/ inst' = [inst EXCEPT ![i].draining = TRUE]
         \/ inst' = [inst EXCEPT ![i].drained = TRUE]
         \/ inst' = [inst EXCEPT ![i].forced = TRUE]
         \/ inst' = Undrain(i)
  PROVE  SameBins
  <1>1. inst[i] \in Instance /\ inst \in Seq(Instance)
    BY DEF LoaderInv, LoaderTypeOK
  <1>2. CASE inst' = [inst EXCEPT ![i].draining = TRUE]
    BY <1>1, <1>2, BinKept DEF Instance
  <1>3. CASE inst' = [inst EXCEPT ![i].drained = TRUE]
    BY <1>1, <1>3, BinKept DEF Instance
  <1>4. CASE inst' = [inst EXCEPT ![i].forced = TRUE]
    BY <1>1, <1>4 DEF Instance, SameBins
  <1>5. CASE inst' = Undrain(i)
    BY <1>1, <1>5, SMTT(30) DEF Instance, SameBins, Undrain
  <1> QED
    BY <1>2, <1>3, <1>4, <1>5

\* ModulePool.Close, and the slots and counters of calls.
LEMMA PoolKeepsBins ==
  ASSUME LoaderInv, NEW i \in 1..Len(inst),
         \/ inst' = [inst EXCEPT ![i].pool = IF @ = "open" THEN "closing" ELSE @]
         \/ inst' = [inst EXCEPT ![i].free = @ - 1, ![i].taken = @ + 1,
                                 ![i].pool = IF inst[i].taken + 1 = PoolSize THEN "gone" ELSE @]
         \/ inst' = [inst EXCEPT ![i].free = @ - 1]
         \/ inst' = [inst EXCEPT ![i].free = @ + 1]
         \/ inst' = [inst EXCEPT ![i].active = @ - 1]
         \/ inst' = [inst EXCEPT ![i].active = @ + 1]
  PROVE  SameBins
  <1>1. inst[i] \in Instance /\ inst \in Seq(Instance)
    BY DEF LoaderInv, LoaderTypeOK
  <1>2. CASE inst' = [inst EXCEPT ![i].pool = IF @ = "open" THEN "closing" ELSE @]
    BY <1>1, <1>2 DEF Instance, SameBins
  <1>3. ASSUME NEW free, NEW taken, NEW pool,
               inst' = [inst EXCEPT ![i].free = free, ![i].taken = taken, ![i].pool = pool]
        PROVE  SameBins
    <2> DEFINE r == [inst[i] EXCEPT !.free = free, !.taken = taken, !.pool = pool]
    <2>1. inst' = [inst EXCEPT ![i] = r]
      BY <1>1, <1>3
    <2>2. r.bin = inst[i].bin
      BY <1>1 DEF Instance
    <2> HIDE DEF r
    <2> QED
      BY <2>1, <2>2, BinKept
  <1>4. ASSUME NEW free, inst' = [inst EXCEPT ![i].free = free]
        PROVE  SameBins
    BY <1>1, <1>4 DEF Instance, SameBins
  <1>5. ASSUME NEW active, inst' = [inst EXCEPT ![i].active = active]
        PROVE  SameBins
    BY <1>1, <1>5 DEF Instance, SameBins
  <1>6. CASE inst' = [inst EXCEPT ![i].free = @ - 1, ![i].taken = @ + 1,
                                  ![i].pool = IF inst[i].taken + 1 = PoolSize THEN "gone" ELSE @]
    <2>1. PICK free, taken, pool :
             /\ free = inst[i].free - 1 /\ taken = inst[i].taken + 1
             /\ pool = IF inst[i].taken + 1 = PoolSize THEN "gone" ELSE inst[i].pool
      OBVIOUS
    <2>2. inst' = [inst EXCEPT ![i].free = free, ![i].taken = taken, ![i].pool = pool]
      BY <1>6, <2>1
    <2> QED
      BY <1>3, <2>2
  <1>7. CASE inst' = [inst EXCEPT ![i].free = @ - 1] \/ inst' = [inst EXCEPT ![i].free = @ + 1]
    BY <1>4, <1>7
  <1>8. CASE inst' = [inst EXCEPT ![i].active = @ - 1] \/ inst' = [inst EXCEPT ![i].active = @ + 1]
    BY <1>5, <1>8
  <1> QED
    BY <1>2, <1>6, <1>7, <1>8

\* abortReload.
LEMMA AbortKeepsBins ==
  ASSUME LoaderInv, NEW i \in 1..Len(inst), NEW n \in 1..Len(inst),
         inst' = [Undrain(i) EXCEPT ![n].pool = "gone", ![n].free = 0, ![n].taken = PoolSize]
  PROVE  SameBins
  <1>1. inst[i] \in Instance /\ inst[n] \in Instance /\ inst \in Seq(Instance)
    BY DEF LoaderInv, LoaderTypeOK
  <1> DEFINE u == Undrain(i)
             r == [inst[i] EXCEPT !.draining = FALSE, !.givenBack = TRUE]
             q == [u[n] EXCEPT !.pool = "gone", !.free = 0, !.taken = PoolSize]
  <1>2. u = [inst EXCEPT ![i] = r]
    BY <1>1 DEF Undrain
  <1>3. r \in Instance /\ r.bin = inst[i].bin
    BY <1>1 DEF Instance
  <1> HIDE DEF r
  <1>4. inst' = [u EXCEPT ![n].pool = "gone", ![n].free = 0, ![n].taken = PoolSize]
    OBVIOUS
  <1> HIDE DEF u
  <1>5. /\ u \in Seq(Instance) /\ Len(u) = Len(inst)
        /\ \A j \in 1..Len(inst) : u[j] = IF j = i THEN r ELSE inst[j]
    BY <1>1, <1>2, <1>3, SequenceUpdate
  <1>6. (\A j \in 1..Len(inst) : u[j].bin = inst[j].bin) /\ u[n] \in Instance
    BY <1>1, <1>3, <1>5
  <1>7. inst' = [u EXCEPT ![n] = q]
    BY <1>4, <1>5, <1>6
  <1>8. q.bin = u[n].bin
    BY <1>6 DEF Instance
  <1> HIDE DEF q
  <1>9. \A j \in 1..Len(inst) : inst'[j] = IF j = n THEN q ELSE u[j]
    BY <1>5, <1>7
  <1> QED
    BY <1>6, <1>8, <1>9 DEF SameBins

\* ReconfigurePlugin.
LEMMA ConfigKeepsBins ==
  ASSUME LoaderInv, NEW i \in 1..Len(inst), NEW cfg, inst' = [inst EXCEPT ![i].cfg = cfg]
  PROVE  SameBins
  <1>1. inst[i] \in Instance /\ inst \in Seq(Instance)
    BY DEF LoaderInv, LoaderTypeOK
  <1> QED
    BY <1>1 DEF Instance, SameBins

SamePools == \A j \in 1..Len(inst) : inst'[j].pool = inst[j].pool

\* A step that moves no version and closes no pool: what a finished operation left stays.
LEMMA SettledKept ==
  ASSUME LoaderInv, Settled, Reshaped, SameBins, SamePools, UNCHANGED <<loaded, mgr, routes, perms, hurt>>
  PROVE  Settled'
  <1>1. loaded \in 0..Len(inst)
    BY DEF LoaderInv, LoaderTypeOK
  <1>2. OneOpen'
    BY DEF Settled, OneOpen, Reshaped, SamePools
  <1>3. loaded # 0 => inst'[loaded].bin = inst[loaded].bin
    BY <1>1 DEF SameBins
  <1> QED
    BY <1>2, <1>3 DEF Settled, ManagerFollows, TriggersOnce, PermissionsFollow

\* The same of an operation at its stage.
LEMMA StageKept ==
  ASSUME LoaderInv, NEW o \in Op, OpOK(o), o.pc # "idle", Stage(o), Reshaped, SameBins, SamePools,
         UNCHANGED <<loaded, mgr, routes, perms, hurt>>
  PROVE  Stage(o)'
  <1>1. /\ o.old # 0 => inst'[o.old].bin = inst[o.old].bin
        /\ o.new # 0 => inst'[o.new].bin = inst[o.new].bin
    BY DEF SameBins, OpOK, Op
  <1>2. ASSUME NEW X, GoneBut(X)
        PROVE  GoneBut(X)'
    BY <1>2 DEF GoneBut, Reshaped, SamePools
  <1>3. CASE o.kind = "load"
    BY <1>1, <1>2, <1>3 DEF Stage, LoadStage
  <1>4. CASE o.kind = "reload"
    BY <1>1, <1>2, <1>4 DEF Stage, ReloadStage, Permitted
  <1>5. CASE o.kind = "unload"
    BY <1>1, <1>2, <1>5 DEF Stage, UnloadStage
  <1>6. CASE o.kind = "reconfigure"
    BY <1>6, SettledKept DEF Stage
  <1> QED
    BY <1>3, <1>4, <1>5, <1>6 DEF OpOK, Op

\* A step of something else than an operation keeps the invariant.
LEMMA OperationsKept ==
  ASSUME LoaderInv, SettlingInv, Reshaped, SameBins, SamePools,
         UNCHANGED <<op, overlap, loaded, mgr, routes, perms, hurt>>
  PROVE  SettlingInv'
  <1> SUFFICES ASSUME ~overlap
               PROVE  /\ Alone /\ (Quiet => Settled')
                      /\ \A o \in {op[a] : a \in Admins} : o.pc # "idle" => Stage(o)'
    BY DEF SettlingInv, Alone, Quiet
  <1>1. /\ Alone /\ (Quiet => Settled)
        /\ \A o \in {op[a] : a \in Admins} : o.pc # "idle" => Stage(o)
    BY DEF SettlingInv
  <1>2. \A o \in {op[a] : a \in Admins} : o \in Op /\ OpOK(o)
    BY DEF LoaderInv, LoaderTypeOK
  <1> QED
    BY <1>1, <1>2, SettledKept, StageKept

\* A call neither moves a version nor closes a pool.
LEMMA CallSettles ==
  ASSUME LoaderInv, SettlingInv, NEW c \in Calls, Acquire(c) \/ HandleEvent(c) \/ TakeSlot(c) \/ Progress(c)
  PROVE  SettlingInv'
  <1>1. UNCHANGED <<op, overlap, loaded, mgr, routes, perms, hurt>>
    BY DEF Acquire, HandleEvent, TakeSlot, Progress, Execute, SlotTimeout, Return, Release, ReleaseSignal,
           store, where, history
  <1>2. PICK k \in Call : call' = [call EXCEPT ![c] = k] /\ CallOK(k) /\ CallMove(c, k)
    BY CallMoves
  <1>3. /\ loaded # 0 => loaded \in 1..Len(inst)
        /\ call[c].pc # "idle" => call[c].in \in 1..Len(inst)
    BY DEF LoaderInv, LoaderTypeOK, CallOK, Call
  <1>4. Reshaped
    BY <1>1, <1>2, CallLoaderInv
  <1>5. SameBins /\ SamePools
    <2>1. CASE inst' = inst
      BY <2>1 DEF SameBins, SamePools
    <2>2. CASE loaded # 0 /\ inst' = [inst EXCEPT ![loaded].active = @ + 1]
      BY <1>3, <2>2, Enters, PoolKeepsBins DEF SamePools, SameSlots
    <2>3. CASE call[c].pc # "idle" /\ inst[call[c].in].free > 0 /\ inst' = [inst EXCEPT ![call[c].in].free = @ - 1]
      BY <1>3, <2>3, TakesSlot, PoolKeepsBins, ZenonT(30) DEF SamePools
    <2>4. CASE call[c].pc # "idle" /\ inst' = [inst EXCEPT ![call[c].in].free = @ + 1]
      BY <1>3, <2>4, GivesSlot, PoolKeepsBins, ZenonT(30) DEF SamePools
    <2>5. CASE call[c].pc # "idle" /\ inst' = [inst EXCEPT ![call[c].in].active = @ - 1]
      BY <1>3, <2>5, Leaves, PoolKeepsBins DEF SamePools, SameSlots
    <2>6. CASE call[c].pc # "idle" /\ inst' = [inst EXCEPT ![call[c].in].drained = TRUE]
      BY <1>3, <2>6, Signals, DrainKeepsBins DEF SamePools, SameSlots
    <2> QED
      BY <1>2, <2>1, <2>2, <2>3, <2>4, <2>5, <2>6 DEF CallMove
  <1> QED
    BY <1>1, <1>4, <1>5, OperationsKept

(* What the step of an operation leaves: the next stage of the operation,  *)
(* or, when it was the last one, what a finished operation leaves.         *)
Advances(a) ==
    /\ overlap' = overlap
    /\ \E n \in Op : op' = [op EXCEPT ![a] = n] /\ IF n.pc = "idle" THEN Settled' ELSE Stage(n)'

\* A lone operation that advances keeps the invariant.
LEMMA AloneSettles ==
  ASSUME LoaderInv, SettlingInv, NEW a \in Admins, op[a].pc # "idle", overlap' = overlap,
         ~overlap => Advances(a)
  PROVE  SettlingInv'
  <1> SUFFICES ASSUME ~overlap
               PROVE  /\ Alone' /\ (Quiet' => Settled')
                      /\ \A o \in {op'[b] : b \in Admins} : o.pc # "idle" => Stage(o)'
    BY DEF SettlingInv
  <1>1. PICK n \in Op : op' = [op EXCEPT ![a] = n] /\ IF n.pc = "idle" THEN Settled' ELSE Stage(n)'
    BY DEF Advances
  <1>2. op'[a] = n /\ \A b \in Admins : b # a => op'[b] = op[b]
    BY <1>1 DEF LoaderInv, LoaderTypeOK
  <1>3. \A b \in Admins : b # a => op[b].pc = "idle"
    BY DEF SettlingInv, Alone
  <1>4. Alone' /\ (Quiet' => n.pc = "idle")
    BY <1>2, <1>3 DEF Alone, Quiet
  <1>5. \A o \in {op'[b] : b \in Admins} : o.pc # "idle" => o = n
    BY <1>2, <1>3
  <1> QED
    BY <1>1, <1>4, <1>5

\* The operation in progress, at its stage.
LEMMA AtStage ==
  ASSUME LoaderInv, SettlingInv, ~overlap, NEW a \in Admins, op[a].pc # "idle"
  PROVE  Stage(op[a]) /\ op[a] \in Op /\ OpOK(op[a])
  BY DEF SettlingInv, LoaderInv, LoaderTypeOK

\* A step that moves the operation on.
LEMMA MovesOn ==
  ASSUME LoaderInv, NEW a \in Admins, NEW o \in Op, o = op[a], NEW pc \in OpPcs, GoTo(a, pc), overlap' = overlap,
         \A n \in Op : n.pc = pc /\ n.kind = o.kind /\ n.bin = o.bin /\ n.old = o.old /\ n.new = o.new
                          => n.pc # "idle" /\ Stage(n)'
  PROVE  Advances(a)
  <1>1. PICK n \in Op :
            /\ op' = [op EXCEPT ![a] = n] /\ n.pc = pc /\ n.kind = op[a].kind
            /\ n.bin = op[a].bin /\ n.cfg = op[a].cfg /\ n.old = op[a].old /\ n.new = op[a].new
    BY GoToOp
  <1>2. n.pc # "idle" /\ Stage(n)'
    BY <1>1
  <1> QED
    BY <1>1, <1>2 DEF Advances

\* The last step of an operation.
LEMMA Finishes ==
  ASSUME NEW a \in Admins, op' = [op EXCEPT ![a] = IdleOp], overlap' = overlap, Settled'
  PROVE  Advances(a)
  <1>1. IdleOp \in Op /\ IdleOp.pc = "idle"
    BY DEF IdleOp, Op, OpPcs
  <1> HIDE DEF IdleOp
  <1> QED
    BY <1>1 DEF Advances

(* A step that changes no instance. *)
LEMMA InstancesKept ==
  ASSUME inst' = inst
  PROVE  \A X : GoneBut(X)' <=> GoneBut(X)
  BY DEF GoneBut

\* checkDependencies, activatePlugin and maybeRunReloadMigration.
LEMMA PrepareAdvances ==
  ASSUME LoaderInv, NEW a \in Admins, NEW o \in Op, o = op[a], OpOK(o), Stage(o), Prepare(a) \/ Activate(a) \/ Migrate(a)
  PROVE  Advances(a)
  <1>1. PICK pc \in OpPcs : GoTo(a, pc) /\ \/ pc = "activate" /\ o.pc = "prepare" /\ Prepare(a)
                                           \/ pc = "configure" /\ o.pc = "activate" /\ Activate(a)
                                           \/ pc = "insert" /\ o.pc = "migrate" /\ Migrate(a)
    BY DEF Prepare, Activate, Migrate, OpPcs
  <1>2. /\ UNCHANGED <<inst, loaded, mgr, routes, hurt, overlap>>
        /\ perms' = IF o.pc = "activate" /\ Meta[o.bin].own THEN o.bin ELSE perms
        /\ o.pc = "migrate" => Meta[o.bin].own
    BY <1>1 DEF Prepare, Activate, Migrate, where, store, history
  <1>3. o.kind = "load" \/ o.kind = "reload"
    BY <1>1 DEF OpOK
  <1>4. ASSUME NEW n \in Op, n.pc = pc, n.kind = o.kind, n.bin = o.bin, n.old = o.old, n.new = o.new
        PROVE  n.pc # "idle" /\ Stage(n)'
    <2>1. CASE o.kind = "load"
      BY <1>1, <1>2, <1>4, <2>1, InstancesKept DEF Stage, LoadStage
    <2>2. CASE o.kind = "reload"
      BY <1>1, <1>2, <1>4, <2>2, InstancesKept DEF Stage, ReloadStage, Permitted
    <2> QED
      BY <1>3, <2>1, <2>2
  <1> QED
    BY <1>1, <1>2, <1>4, MovesOn

\* registerLoadedPlugin, UnregisterTriggers and the permissions that UnloadPlugin takes.
LEMMA PlacingAdvances ==
  ASSUME LoaderInv, NEW a \in Admins, NEW o \in Op, o = op[a], OpOK(o), Stage(o),
         Insert(a) \/ UnregisterTriggers(a) \/ RegisterTriggers(a) \/ Revoke(a)
  PROVE  Advances(a)
  <1>1. PICK pc \in OpPcs : GoTo(a, pc) /\
           \/ /\ o.pc = "insert" /\ pc = (IF o.kind = "load" THEN "register" ELSE "unregister")
              /\ loaded' = o.new /\ UNCHANGED <<routes, perms>>
           \/ /\ o.pc = "unregister" /\ pc = (IF o.kind = "unload" THEN "drain" ELSE "register")
              /\ routes' = <<>> /\ UNCHANGED <<loaded, perms>>
           \/ /\ o.pc = "register" /\ pc = (IF o.kind = "load" THEN "sync" ELSE "drain")
              /\ routes' = Append(routes, o.bin) /\ UNCHANGED <<loaded, perms>>
           \/ /\ o.pc = "revoke" /\ pc = "unregister"
              /\ perms' = None /\ UNCHANGED <<loaded, routes>>
    BY DEF Insert, UnregisterTriggers, RegisterTriggers, Revoke, OpPcs, store, where
  <1>2. UNCHANGED <<inst, mgr, hurt, overlap>>
    BY DEF Insert, UnregisterTriggers, RegisterTriggers, Revoke, where, history
  <1>3. routes = <<>> => Append(routes, o.bin) = <<o.bin>>
    OBVIOUS
  <1>4. ASSUME NEW n \in Op, n.pc = pc, n.kind = o.kind, n.bin = o.bin, n.old = o.old, n.new = o.new
        PROVE  n.pc # "idle" /\ Stage(n)'
    <2>1. CASE o.kind = "load"
      BY <1>1, <1>2, <1>3, <1>4, <2>1, InstancesKept DEF Stage, LoadStage
    <2>2. CASE o.kind = "reload"
      BY <1>1, <1>2, <1>3, <1>4, <2>2, InstancesKept DEF Stage, ReloadStage, Permitted
    <2>3. CASE o.kind = "unload"
      BY <1>1, <1>2, <1>3, <1>4, <2>3, InstancesKept DEF Stage, UnloadStage
    <2> QED
      BY <1>1, <2>1, <2>2, <2>3 DEF OpOK
  <1> QED
    BY <1>1, <1>2, <1>4, MovesOn

\* A prepared instance is open, and its pool the only new one.
LEMMA ConfigureAdvances ==
  ASSUME LoaderInv, NEW a \in Admins, NEW o \in Op, o = op[a], OpOK(o), Stage(o), Configure(a)
  PROVE  Advances(a)
  <1>0. PICK m : m = Len(inst) + 1
    OBVIOUS
  <1>1. /\ inst \in Seq(Instance) /\ Len(inst) \in Nat /\ loaded \in 0..Len(inst) /\ mgr \in 0..Len(inst)
        /\ op \in [Admins -> Op]
    BY DEF LoaderInv, LoaderTypeOK
  <1> DEFINE pc == IF o.kind = "load" THEN "insert" ELSE "migrate"
             n == [o EXCEPT !.pc = pc, !.new = m]
  <1>2. op' = [op EXCEPT ![a] = n]
    BY <1>0, <1>1 DEF Configure
  <1>3. pc \in {"insert", "migrate"} /\ (pc = "insert" <=> o.kind = "load")
    OBVIOUS
  <1> HIDE DEF pc
  <1>4. /\ n \in Op /\ n.pc = pc /\ n.kind = o.kind /\ n.bin = o.bin /\ n.old = o.old /\ n.new = m
    <2>1. m \in Nat /\ pc \in OpPcs
      BY <1>0, <1>1, <1>3 DEF OpPcs
    <2> QED
      BY <2>1 DEF Op
  <1> HIDE DEF n
  <1>5. /\ Len(inst') = m /\ inst'[m] = NewInstance(o.bin, o.cfg)
        /\ \A j \in 1..Len(inst) : inst'[j] = inst[j]
    BY <1>0, ConfigureLoaderInv
  <1>6. UNCHANGED <<loaded, mgr, routes, perms, hurt, overlap>> /\ o.pc = "configure" /\ o.kind \in {"load", "reload"}
    BY DEF Configure, where, store, history, OpOK
  <1>7. ASSUME NEW X, GoneBut(X)
        PROVE  GoneBut(X \cup {m})'
    BY <1>0, <1>1, <1>5, <1>7 DEF GoneBut
  <1>8. m # 0 /\ inst'[m].bin = o.bin
    BY <1>0, <1>1, <1>5 DEF NewInstance
  <1>9. Stage(n)'
    <2>1. CASE o.kind = "load"
      <3>1. GoneBut({m})'
        <4>1. GoneBut({}) /\ {} \cup {m} = {m}
          BY <1>6, <2>1 DEF Stage, LoadStage
        <4> QED
          BY <1>7, <4>1
      <3> QED
        BY <1>3, <1>4, <1>6, <1>8, <2>1, <3>1 DEF Stage, LoadStage
    <2>2. CASE o.kind = "reload"
      <3>1. GoneBut({o.old, m})'
        <4>1. GoneBut({o.old}) /\ {o.old} \cup {m} = {o.old, m}
          BY <1>6, <2>2 DEF Stage, ReloadStage
        <4> QED
          BY <1>7, <4>1
      <3>2. o.old \in 1..Len(inst) /\ o.old # m
        BY <1>0, <1>1, <2>2 DEF Stage, ReloadStage, OpOK, Op
      <3>3. inst'[o.old] = inst[o.old]
        BY <1>5, <3>2
      <3> QED
        BY <1>3, <1>4, <1>6, <1>8, <2>2, <3>1, <3>2, <3>3 DEF Stage, ReloadStage, Permitted
    <2> QED
      BY <1>6, <2>1, <2>2
  <1> QED
    BY <1>2, <1>3, <1>4, <1>6, <1>9 DEF Advances

(* Draining and closing: only the pool of the old instance changes, and    *)
(* the triggers and the permissions are those of the stage before.         *)
LEMMA DrainAdvances ==
  ASSUME LoaderInv, NEW a \in Admins, NEW o \in Op, o = op[a], OpOK(o), Stage(o),
         Drain(a) \/ DrainSignal(a) \/ Drained(a) \/ DrainTimeout(a) \/ ClosePool(a) \/ Closed(a)
  PROVE  Advances(a)
  <1>1. PICK pc \in OpPcs : GoTo(a, pc) /\ pc \in {"signal", "wait", "close", "slots", "sync"}
                            /\ o.pc \in {"drain", "signal", "wait", "close", "slots"}
                            /\ (pc = "sync" => inst[o.old].pool = "gone" /\ inst' = inst)
    BY DEF Drain, DrainSignal, Drained, DrainTimeout, ClosePool, Closed, OpPcs
  <1>2. UNCHANGED <<loaded, mgr, routes, perms, hurt, overlap>>
    BY DEF Drain, DrainSignal, Drained, DrainTimeout, ClosePool, Closed, where, store, history
  <1>3. o.kind \in {"reload", "unload"} /\ o.old \in 1..Len(inst)
    BY <1>1, CloseKind DEF OpOK
  <1>4. Reshaped /\ SameBins /\ \A j \in 1..Len(inst) : j # o.old => inst'[j].pool = inst[j].pool
    <2>1. CASE Drain(a)
      BY <1>3, <2>1, StartsDraining, DrainKeepsBins DEF Drain, SameSlots
    <2>2. CASE DrainSignal(a)
      BY <1>3, <2>2, Signals, DrainKeepsBins DEF DrainSignal, CloseDrained, SameSlots
    <2>3. CASE Drained(a) \/ Closed(a)
      BY <2>3, Unreshaped, SMTT(30) DEF Drained, Closed, SameBins
    <2>4. CASE DrainTimeout(a)
      BY <1>3, <2>4, Forces, DrainKeepsBins DEF DrainTimeout, SameSlots
    <2>5. CASE ClosePool(a)
      BY <1>3, <2>5, StartsClosing, PoolKeepsBins, ZenonT(30) DEF ClosePool
    <2> QED
      BY <2>1, <2>2, <2>3, <2>4, <2>5, SMTT(30)
  <1>5. /\ o.old # 0 => inst'[o.old].bin = inst[o.old].bin
        /\ o.new # 0 => inst'[o.new].bin = inst[o.new].bin
    BY <1>4 DEF SameBins, OpOK, Op
  <1>6. ASSUME NEW X, GoneBut(X), o.old \in X
        PROVE  GoneBut(X)'
    BY <1>4, <1>6 DEF GoneBut, Reshaped
  <1>7. ASSUME NEW X, NEW Y, GoneBut(X), X \subseteq Y \cup {o.old}, pc = "sync"
        PROVE  GoneBut(Y)'
    BY <1>1, <1>7 DEF GoneBut
  <1>8. ASSUME NEW n \in Op, n.pc = pc, n.kind = o.kind, n.bin = o.bin, n.old = o.old, n.new = o.new
        PROVE  n.pc # "idle" /\ Stage(n)'
    <2>1. CASE o.kind = "reload"
      <3>1. GoneBut({o.old, o.new})
        BY <1>1, <2>1 DEF Stage, ReloadStage
      <3>2. IF pc = "sync" THEN GoneBut({o.new})' ELSE GoneBut({o.old, o.new})'
        BY <1>6, <1>7, <3>1
      <3> QED
        BY <1>1, <1>2, <1>5, <1>8, <2>1, <3>2 DEF Stage, ReloadStage, Permitted
    <2>2. CASE o.kind = "unload"
      <3>1. GoneBut({o.old})
        BY <1>1, <2>2 DEF Stage, UnloadStage
      <3>2. IF pc = "sync" THEN GoneBut({})' ELSE GoneBut({o.old})'
        BY <1>6, <1>7, <3>1
      <3> QED
        BY <1>1, <1>2, <1>5, <1>8, <2>2, <3>2 DEF Stage, UnloadStage
    <2> QED
      BY <1>3, <2>1, <2>2
  <1> QED
    BY <1>1, <1>2, <1>8, MovesOn

\* ModulePool.Close takes one slot more.
LEMMA TakeSlotsAdvances ==
  ASSUME LoaderInv, NEW a \in Admins, NEW o \in Op, o = op[a], OpOK(o), Stage(o), TakeSlots(a)
  PROVE  Advances(a)
  <1>1. UNCHANGED <<op, loaded, mgr, routes, perms, hurt, overlap>> /\ o.pc = "slots"
    BY DEF TakeSlots, where, store, history
  <1>2. o.kind \in {"reload", "unload"} /\ o.old \in 1..Len(inst)
    BY <1>1, CloseKind DEF OpOK
  <1>3. Reshaped /\ SameBins /\ \A j \in 1..Len(inst) : j # o.old => inst'[j].pool = inst[j].pool
    <2>1. PICK i \in 1..Len(inst) : i = o.old
      BY <1>2
    <2>2. /\ inst[i].free > 0
          /\ inst' = [inst EXCEPT ![i].free = @ - 1, ![i].taken = @ + 1,
                                  ![i].pool = IF inst[i].taken + 1 = PoolSize THEN "gone" ELSE @]
      BY <2>1 DEF TakeSlots
    <2>3. /\ Reshaped
          /\ \A j \in 1..Len(inst) :
                inst'[j].pool = IF j = i THEN (IF inst[i].taken + 1 = PoolSize THEN "gone" ELSE inst[i].pool)
                                ELSE inst[j].pool
      BY <2>2, ClosesSlot
    <2>4. SameBins
      BY <2>2, PoolKeepsBins
    <2> QED
      BY <2>1, <2>3, <2>4
  <1>4. /\ o.old # 0 => inst'[o.old].bin = inst[o.old].bin
        /\ o.new # 0 => inst'[o.new].bin = inst[o.new].bin
    BY <1>3 DEF SameBins, OpOK, Op
  <1>5. ASSUME NEW X, GoneBut(X), o.old \in X
        PROVE  GoneBut(X)'
    BY <1>3, <1>5 DEF GoneBut, Reshaped
  <1>6. Stage(o)'
    <2>1. CASE o.kind = "reload"
      <3>1. GoneBut({o.old, o.new})
        BY <1>1, <2>1 DEF Stage, ReloadStage
      <3>2. GoneBut({o.old, o.new})'
        BY <1>5, <3>1
      <3> QED
        BY <1>1, <1>4, <2>1, <3>2 DEF Stage, ReloadStage, Permitted
    <2>2. CASE o.kind = "unload"
      <3>1. GoneBut({o.old})
        BY <1>1, <2>2 DEF Stage, UnloadStage
      <3>2. GoneBut({o.old})'
        BY <1>5, <3>1
      <3> QED
        BY <1>1, <1>4, <2>2, <3>2 DEF Stage, UnloadStage
    <2> QED
      BY <1>2, <2>1, <2>2
  <1>7. op' = [op EXCEPT ![a] = o]
    BY <1>1 DEF LoaderInv, LoaderTypeOK
  <1> QED
    BY <1>1, <1>6, <1>7 DEF Advances

(* An operation that did not prepare its binary leaves what it found,      *)
(* without the permissions that closeActivatedPlugin took.                 *)
LEMMA GiveUpAdvances ==
  ASSUME LoaderInv, NEW a \in Admins, NEW o \in Op, o = op[a], OpOK(o), Stage(o), PrepareError(a) \/ ActivateError(a)
  PROVE  Advances(a)
  <1>1. /\ o.pc \in {"prepare", "activate", "configure"} /\ GiveUp(a)
        /\ UNCHANGED <<loaded, mgr, routes, overlap>>
        /\ \/ UNCHANGED <<perms, hurt>> /\ (o.pc = "prepare" \/ ~Meta[o.bin].own)
           \/ perms' = None /\ hurt' = (hurt \/ o.kind = "reload")
    BY DEF PrepareError, ActivateError, store, where, history
  <1>2. o.kind \in {"load", "reload"}
    BY <1>1 DEF OpOK
  <1>3. op' = [op EXCEPT ![a] = IdleOp]
    BY <1>1 DEF GiveUp
  <1>4. CASE o.kind = "load"
    <2>1. inst' = inst
      BY <1>1, <1>4 DEF GiveUp
    <2>2. mgr = 0 /\ loaded = 0 /\ routes = <<>> /\ GoneBut({}) /\ (o.pc \in {"prepare", "activate"} => perms = None)
          /\ Meta[o.bin].own
      BY <1>1, <1>4 DEF Stage, LoadStage
    <2>3. perms' = None
      BY <1>1, <2>2
    <2>4. Settled'
      BY <1>1, <2>1, <2>2, <2>3 DEF Settled, OneOpen, ManagerFollows, TriggersOnce, PermissionsFollow, GoneBut
    <2> QED
      BY <1>1, <1>3, <2>4, Finishes
  <1>5. CASE o.kind = "reload"
    <2>1. o.old \in 1..Len(inst) /\ inst' = Undrain(o.old)
      BY <1>1, <1>5, OldPlaced DEF GiveUp
    <2>2. Reshaped /\ SameBins /\ SamePools
      BY <2>1, GivesBack, DrainKeepsBins DEF SamePools, SameSlots
    <2>3. /\ mgr = o.old /\ loaded = o.old /\ o.old # 0 /\ routes = <<inst[o.old].bin>> /\ GoneBut({o.old})
          /\ (o.pc \in {"prepare", "activate"} \/ ~Meta[o.bin].own => Permitted(o.old))
      BY <1>1, <1>5 DEF Stage, ReloadStage
    <2>4. perms' = inst[o.old].bin \/ (perms' = None /\ hurt')
      BY <1>1, <1>5, <2>3 DEF Permitted
    <2>5. inst'[o.old].bin = inst[o.old].bin
      BY <2>1, <2>2 DEF SameBins
    <2>6. OneOpen'
      BY <1>1, <2>2, <2>3 DEF OneOpen, GoneBut, Reshaped, SamePools
    <2>7. Settled'
      BY <1>1, <2>3, <2>4, <2>5, <2>6 DEF Settled, ManagerFollows, TriggersOnce, PermissionsFollow
    <2> QED
      BY <1>1, <1>3, <2>7, Finishes
  <1> QED
    BY <1>2, <1>4, <1>5

\* abortReload puts the old version back.
LEMMA AbortReloadAdvances ==
  ASSUME LoaderInv, NEW a \in Admins, NEW o \in Op, o = op[a], OpOK(o), Stage(o), AbortReload(a)
  PROVE  Advances(a)
  <1>1. /\ o.pc = "migrate" /\ op' = [op EXCEPT ![a] = IdleOp]
        /\ UNCHANGED <<loaded, mgr, routes, hurt, overlap>> /\ perms' = inst[o.old].bin
        /\ inst' = [Undrain(o.old) EXCEPT ![o.new].pool = "gone", ![o.new].free = 0, ![o.new].taken = PoolSize]
    BY DEF AbortReload, Restore, where, history
  <1>2. o.kind = "reload"
    BY <1>1, SMTT(30) DEF OpOK
  <1>3. /\ mgr = o.old /\ loaded = o.old /\ o.old # 0 /\ o.new # 0 /\ o.old # o.new
        /\ routes = <<inst[o.old].bin>> /\ GoneBut({o.old, o.new})
    BY <1>1, <1>2 DEF Stage, ReloadStage
  <1>4. o.old \in 1..Len(inst) /\ o.new \in 1..Len(inst)
    BY <1>3 DEF OpOK, Op
  <1>5. Reshaped /\ \A j \in 1..Len(inst) : inst'[j].pool = IF j = o.new THEN "gone" ELSE inst[j].pool
    <2>1. PICK i \in 1..Len(inst), n \in 1..Len(inst) : i = o.old /\ n = o.new
      BY <1>4, ZenonT(30)
    <2>2. i # n /\ inst' = [Undrain(i) EXCEPT ![n].pool = "gone", ![n].free = 0, ![n].taken = PoolSize]
      BY <1>1, <1>3, <2>1
    <2>3. /\ Reshaped
          /\ \A j \in 1..Len(inst) :
                /\ inst'[j].pool = IF j = n THEN "gone" ELSE inst[j].pool
                /\ inst'[j].free = IF j = n THEN 0 ELSE inst[j].free
                /\ inst'[j].taken = IF j = n THEN PoolSize ELSE inst[j].taken
                /\ inst'[j].draining <=> inst[j].draining /\ j # i
                /\ inst'[j].active = inst[j].active
                /\ inst'[j].drained <=> inst[j].drained
                /\ inst'[j].forced <=> inst[j].forced
                /\ inst'[j].givenBack <=> inst[j].givenBack \/ j = i
      BY <2>2, Aborts, Zenon
    <2> QED
      BY <2>1, <2>3
  <1>6. inst'[o.old].bin = inst[o.old].bin
    BY <1>1, <1>4, AbortKeepsBins, ZenonT(30) DEF SameBins
  <1>7. OneOpen'
    BY <1>1, <1>3, <1>5, ZenonT(30) DEF OneOpen, GoneBut, Reshaped
  <1>8. Settled'
    BY <1>1, <1>3, <1>6, <1>7 DEF Settled, ManagerFollows, TriggersOnce, PermissionsFollow
  <1> QED
    BY <1>1, <1>8, Finishes

\* The service brings the manager in line.
LEMMA SyncAdvances ==
  ASSUME LoaderInv, NEW a \in Admins, NEW o \in Op, o = op[a], OpOK(o), Stage(o), Sync(a)
  PROVE  Advances(a)
  <1>1. /\ o.pc = "sync" /\ op' = [op EXCEPT ![a] = IdleOp]
        /\ UNCHANGED <<inst, loaded, routes, perms, hurt, overlap>>
        /\ mgr' = CASE o.kind = "load"   -> o.new
                    [] o.kind = "reload" -> IF loaded = 0 THEN mgr ELSE loaded
                    [] o.kind = "unload" -> 0
    BY DEF Sync, store, history
  <1>2. o.kind \in {"load", "reload", "unload"}
    BY <1>1 DEF OpOK
  <1>3. /\ mgr' = loaded
        /\ GoneBut(IF loaded = 0 THEN {} ELSE {loaded})
        /\ routes = IF loaded = 0 THEN <<>> ELSE <<inst[loaded].bin>>
        /\ perms = IF loaded = 0 THEN None ELSE inst[loaded].bin
    <2>1. CASE o.kind = "load"
      BY <1>1, <2>1 DEF Stage, LoadStage
    <2>2. CASE o.kind = "reload"
      BY <1>1, <2>2 DEF Stage, ReloadStage
    <2>3. CASE o.kind = "unload"
      BY <1>1, <2>3 DEF Stage, UnloadStage
    <2> QED
      BY <1>2, <2>1, <2>2, <2>3
  <1>4. OneOpen'
    BY <1>1, <1>3 DEF OneOpen, GoneBut
  <1>5. Settled'
    BY <1>1, <1>3, <1>4 DEF Settled, ManagerFollows, TriggersOnce, PermissionsFollow
  <1> QED
    BY <1>1, <1>5, Finishes

\* ReconfigurePlugin ends, with the new configuration or with the old permissions.
LEMMA ReconfigureAdvances ==
  ASSUME LoaderInv, NEW a \in Admins, NEW o \in Op, o = op[a], OpOK(o), Stage(o), Reconfigured(a) \/ ReconfigureError(a)
  PROVE  Advances(a)
  <1>1. /\ o.pc = "reconfigure" /\ op' = [op EXCEPT ![a] = IdleOp]
        /\ UNCHANGED <<loaded, mgr, routes, hurt, overlap>>
    BY DEF Reconfigured, ReconfigureError, where, history
  <1>2. Settled /\ loaded = o.old /\ o.old # 0 /\ o.old \in 1..Len(inst)
    BY <1>1, CloseKind DEF OpOK, Stage
  <1>3. CASE Reconfigured(a)
    <2>1. perms' = perms /\ inst' = [inst EXCEPT ![o.old].cfg = o.cfg] /\ o.cfg \in Configs \cup {None}
      BY <1>3 DEF Reconfigured, store, Op
    <2>2. Reshaped /\ SameBins /\ SamePools
      BY <1>2, <2>1, KeepsConfig, ConfigKeepsBins DEF SamePools, SameSlots
    <2>3. Settled'
      BY <1>1, <1>2, <2>1, <2>2, SettledKept
    <2> QED
      BY <1>1, <2>3, Finishes
  <1>4. CASE ReconfigureError(a)
    <2>1. perms' = inst[o.old].bin /\ inst' = inst
      BY <1>4 DEF ReconfigureError, Restore
    <2>2. Settled'
      BY <1>1, <1>2, <2>1 DEF Settled, OneOpen, ManagerFollows, TriggersOnce, PermissionsFollow
    <2> QED
      BY <1>1, <2>2, Finishes
  <1> QED
    BY <1>3, <1>4

\* Every step of an operation: alone, it advances; otherwise nothing is claimed.
LEMMA StepSettles ==
  ASSUME LoaderInv, SettlingInv, NEW a \in Admins, Step(a)
  PROVE  SettlingInv'
  <1>1. op[a].pc # "idle" /\ overlap' = overlap
    BY DEF Step, Prepare, PrepareError, Activate, ActivateError, Configure, Migrate, AbortReload, Insert, Revoke,
           UnregisterTriggers, RegisterTriggers, Drain, DrainSignal, Drained, DrainTimeout, ClosePool, TakeSlots,
           Closed, Sync, Reconfigured, ReconfigureError, history
  <1>2. ASSUME ~overlap
        PROVE  Advances(a)
    <2>1. PICK o \in Op : o = op[a] /\ OpOK(o) /\ Stage(o)
      BY <1>1, <1>2, AtStage
    <2> QED
      BY <2>1, PrepareAdvances, PlacingAdvances, ConfigureAdvances, DrainAdvances, TakeSlotsAdvances,
         GiveUpAdvances, AbortReloadAdvances, SyncAdvances, ReconfigureAdvances, ZenonT(30) DEF Step
  <1> QED
    BY <1>1, <1>2, AloneSettles, SMTT(30)

(* An operation that begins alone finds what a finished one left.          *)
LEMMA BeginsAlone ==
  ASSUME LoaderInv, SettlingInv, NEW a \in Admins, NEW o \in Op, op' = [op EXCEPT ![a] = o], o.pc # "idle",
         overlap' = (overlap \/ ~Quiet), ~overlap /\ Quiet /\ Settled => Stage(o)'
  PROVE  SettlingInv'
  <1> SUFFICES ASSUME ~overlap, Quiet
               PROVE  /\ Alone' /\ (Quiet' => Settled')
                      /\ \A n \in {op'[b] : b \in Admins} : n.pc # "idle" => Stage(n)'
    BY DEF SettlingInv
  <1>1. op'[a] = o /\ \A b \in Admins : b # a => op'[b] = op[b]
    BY DEF LoaderInv, LoaderTypeOK
  <1>2. Alone' /\ ~Quiet'
    BY <1>1 DEF Alone, Quiet
  <1>3. \A n \in {op'[b] : b \in Admins} : n.pc # "idle" => n = o
    BY <1>1 DEF Quiet
  <1>4. Stage(o)'
    BY DEF SettlingInv
  <1> QED
    BY <1>2, <1>3, <1>4

\* LoadPluginFromBytes, beginReload, UnloadPlugin and ReconfigurePlugin.
LEMMA BeginSettles ==
  ASSUME LoaderInv, SettlingInv, NEW a \in Admins, NEW b, NEW c,
         \/ b \in Binaries /\ c \in Configs \cup {None} /\ (BeginLoad(a, b, c) \/ BeginReload(a, b, c))
         \/ BeginUnload(a)
         \/ c \in Configs /\ BeginReconfigure(a, c)
  PROVE  SettlingInv'
  <1>1. /\ Len(inst) \in Nat /\ loaded \in 0..Len(inst) /\ loaded \in Nat
        /\ op \in [Admins -> Op] /\ inst \in Seq(Instance)
    BY DEF LoaderInv, LoaderTypeOK
  <1>2. IdleOp \in Op
    BY DEF IdleOp, Op, OpPcs
  <1>3. CASE b \in Binaries /\ c \in Configs \cup {None} /\ BeginLoad(a, b, c)
    <2> DEFINE o == [IdleOp EXCEPT !.pc = "prepare", !.kind = "load", !.bin = b, !.cfg = c]
    <2>1. o.pc = "prepare" /\ o.kind = "load" /\ o.bin = b
      BY DEF IdleOp
    <2>2. /\ op' = [op EXCEPT ![a] = o] /\ overlap' = (overlap \/ ~Quiet)
          /\ UNCHANGED <<inst, loaded, mgr, routes, perms, hurt>> /\ loaded = 0 /\ Meta[b].own
      BY <1>3 DEF BeginLoad, Start, where, store
    <2>3. o \in Op
      BY <1>2, <1>3 DEF Op, OpPcs
    <2> HIDE DEF o
    <2>4. ASSUME Settled
          PROVE  Stage(o)'
      <3>1. GoneBut({})'
        BY <1>1, <2>2, <2>4 DEF Settled, OneOpen, GoneBut
      <3> QED
        BY <2>1, <2>2, <2>4, <3>1 DEF Settled, ManagerFollows, TriggersOnce, PermissionsFollow, Stage, LoadStage
    <2> QED
      BY <2>1, <2>2, <2>3, <2>4, BeginsAlone
  <1>4. CASE b \in Binaries /\ c \in Configs \cup {None} /\ BeginReload(a, b, c)
    <2>1. PICK cfg : cfg = IF c = None THEN inst[loaded].cfg ELSE c
      OBVIOUS
    <2>2. loaded # 0 /\ loaded \in 1..Len(inst)
      BY <1>1, <1>4 DEF BeginReload
    <2>3. cfg \in Configs \cup {None}
      <3>1. inst[loaded] \in Instance
        BY <1>1, <2>2
      <3> QED
        BY <1>4, <2>1, <3>1 DEF Instance
    <2> DEFINE r == [IdleOp EXCEPT !.pc = "prepare", !.kind = "reload", !.bin = b, !.old = loaded, !.cfg = cfg]
    <2>4. r.pc = "prepare" /\ r.kind = "reload" /\ r.bin = b /\ r.old = loaded /\ r.new = 0
      BY DEF IdleOp
    <2>5. op' = [op EXCEPT ![a] = r]
      BY <1>4, <2>1 DEF BeginReload, Start
    <2>6. overlap' = (overlap \/ ~Quiet) /\ UNCHANGED <<loaded, mgr, routes, perms, hurt>>
          /\ inst' = [inst EXCEPT ![loaded].draining = TRUE]
      BY <1>4 DEF BeginReload, Start, where, store
    <2>7. Reshaped /\ SameBins /\ SamePools
      BY <2>2, <2>6, StartsDraining, DrainKeepsBins DEF SamePools, SameSlots
    <2>8. r \in Op
      BY <1>1, <1>2, <1>4, <2>3 DEF Op, OpPcs
    <2> HIDE DEF r
    <2>0. PICK o \in Op : o = r
      BY <2>8
    <2>9. ASSUME Settled
          PROVE  Stage(o)'
      <3>1. PICK i \in 1..Len(inst) : i = loaded
        BY <2>2
      <3>2. Settled'
        BY <2>6, <2>7, <2>9, SettledKept
      <3>3. GoneBut({i})' /\ loaded' = i /\ i # 0
        BY <1>1, <2>6, <2>7, <3>1, <3>2 DEF Settled, OneOpen, GoneBut
      <3>4. mgr' = i /\ routes' = <<inst'[i].bin>> /\ Permitted(i)'
        BY <3>2, <3>3 DEF Settled, ManagerFollows, TriggersOnce, PermissionsFollow, Permitted
      <3>5. o.old = i
        BY <2>0, <2>4, <3>1
      <3> QED
        BY <2>0, <2>4, <3>3, <3>4, <3>5 DEF Stage, ReloadStage
    <2> QED
      BY <2>0, <2>4, <2>5, <2>6, <2>9, BeginsAlone
  <1>5. CASE BeginUnload(a)
    <2> DEFINE r == [IdleOp EXCEPT !.pc = "revoke", !.kind = "unload", !.old = loaded]
    <2>1. r.pc = "revoke" /\ r.kind = "unload" /\ r.old = loaded
      BY DEF IdleOp
    <2>2. /\ op' = [op EXCEPT ![a] = r] /\ overlap' = (overlap \/ ~Quiet)
          /\ UNCHANGED <<inst, mgr, routes>> /\ loaded' = 0 /\ loaded # 0
      BY <1>5 DEF BeginUnload, Start
    <2>3. r \in Op
      BY <1>1, <1>2 DEF Op, OpPcs
    <2> HIDE DEF r
    <2>0. PICK o \in Op : o = r
      BY <2>3
    <2>4. ASSUME Settled
          PROVE  Stage(o)'
      <3>1. PICK i : i = loaded
        OBVIOUS
      <3>2. GoneBut({i})'
        BY <2>2, <2>4, <3>1 DEF Settled, OneOpen, GoneBut
      <3> QED
        BY <2>0, <2>1, <2>2, <2>4, <3>1, <3>2 DEF Settled, ManagerFollows, TriggersOnce, Stage, UnloadStage
    <2> QED
      BY <2>0, <2>1, <2>2, <2>4, BeginsAlone
  <1>6. CASE c \in Configs /\ BeginReconfigure(a, c)
    <2> DEFINE r == [IdleOp EXCEPT !.pc = "reconfigure", !.kind = "reconfigure", !.cfg = c, !.old = loaded]
    <2>1. r.pc = "reconfigure" /\ r.kind = "reconfigure" /\ r.old = loaded
      BY DEF IdleOp
    <2>2. /\ op' = [op EXCEPT ![a] = r] /\ overlap' = (overlap \/ ~Quiet)
          /\ UNCHANGED <<inst, loaded, mgr, routes, perms, hurt>> /\ loaded # 0
      BY <1>6 DEF BeginReconfigure, where
    <2>3. r \in Op
      BY <1>1, <1>2, <1>6 DEF Op, OpPcs
    <2> HIDE DEF r
    <2>0. PICK o \in Op : o = r
      BY <2>3
    <2>4. ASSUME Settled
          PROVE  Stage(o)'
      <3>1. Settled'
        BY <2>2, <2>4 DEF Settled, OneOpen, ManagerFollows, TriggersOnce, PermissionsFollow
      <3> QED
        BY <2>0, <2>1, <2>2, <3>1 DEF Stage
    <2> QED
      BY <2>0, <2>1, <2>2, <2>4, BeginsAlone
  <1> QED
    BY <1>3, <1>4, <1>5, <1>6

\* Every step keeps the invariant.
LEMMA NextSettles ==
  ASSUME LoaderInv, SettlingInv, [Next]_vars
  PROVE  SettlingInv'
  <1>1. CASE UNCHANGED vars
    <2>1. Reshaped /\ SameBins /\ SamePools /\ UNCHANGED <<op, overlap, loaded, mgr, routes, perms, hurt>>
      BY <1>1, Unreshaped DEF vars, where, store, history, SameBins, SamePools
    <2> QED
      BY <2>1, OperationsKept
  <1>2. CASE Next
    BY <1>2, NextCases, CallSettles, BeginSettles, StepSettles
  <1> QED
    BY <1>1, <1>2

\* So does a process that starts with a plugin loaded, or with none.
LEMMA InitSettles == Init => SettlingInv
  <1> SUFFICES ASSUME Init
               PROVE  SettlingInv
    OBVIOUS
  <1>1. \A a \in Admins : op[a].pc = "idle"
    BY DEF Init, IdleOp
  <1>2. loaded = Len(inst) /\ mgr = loaded
    BY DEF Init
  <1>3. Settled
    <2>1. CASE inst = <<>> /\ routes = <<>> /\ perms = None
      BY <1>2, <2>1 DEF Settled, OneOpen, ManagerFollows, TriggersOnce, PermissionsFollow
    <2>2. ASSUME NEW b \in Binaries, NEW c \in Configs \cup {None},
                 inst = <<NewInstance(b, c)>>, routes = <<b>>, perms = b
          PROVE  Settled
      <3>1. Len(inst) = 1 /\ inst[1].bin = b
        BY <2>2 DEF NewInstance
      <3> QED
        BY <1>2, <2>2, <3>1 DEF Settled, OneOpen, ManagerFollows, TriggersOnce, PermissionsFollow
    <2> QED
      BY <2>1, <2>2 DEF Init
  <1> QED
    BY <1>1, <1>3 DEF SettlingInv, Alone

(* Operations that did not overlap leave the loader's map, the pools, the  *)
(* plugin manager, the trigger registry and the permissions on one         *)
(* version, whether they succeeded, failed or timed out.  What is true     *)
(* between operations is not inductive: the invariant says of each stage   *)
(* of the operation in progress which of the five it has moved, from what  *)
(* to what, so that the last stage is where they agree again.              *)
THEOREM OneVersionSettles == Spec => []SettledOnOneVersion
  <1> DEFINE I == LoaderInv /\ SettlingInv
  <1>1. Init => I
    BY LoaderInitInv, InitSettles
  <1>2. I /\ [Next]_vars => I'
    BY NextLoaderInv, NextSettles
  <1>3. I => SettledOnOneVersion
    BY DEF SettlingInv, Settled, SettledOnOneVersion
  <1> QED
    BY <1>1, <1>2, <1>3, PTL DEF Spec

===============================================================================
