---------------------------- MODULE AuthzOutbox ----------------------------
(***************************************************************************)
(* The authorization outbox: transactions that change the university's     *)
(* data enqueue relationship updates (internal/authz/outbox/store.go,      *)
(* university/sync.go, admin/api/position_store.go, the triggers of        *)
(* migration 000030), and a worker per replica applies them to SpiceDB     *)
(* (outbox/worker.go, authz/tuples/writer.go).                             *)
(*                                                                         *)
(* A relationship is <<relation, object, subject>>.  SpiceDB calls are     *)
(* atomic one by one; what a worker writes to its rows becomes visible     *)
(* with its commit, what it writes to SpiceDB at once.                     *)
(***************************************************************************)
EXTENDS Naturals, Sequences, FiniteSets, Functions

CONSTANTS
    Teachers, Students, Groups, Depts, Nodes, Parents,
    Workers,
    BatchSize,
    MaxAttempts,
    MaxRows,    \* bound on the rows ever inserted
    MaxFaults,  \* bound on failed calls and rolled back transactions
    NoGroup

ASSUME AuthzOutboxAssumption ==
    /\ BatchSize \in Nat \ {0} /\ MaxAttempts \in Nat \ {0}
    /\ MaxRows \in Nat /\ MaxFaults \in Nat
    /\ NoGroup \notin Groups /\ IsFiniteSet(Depts)

VARIABLES
    staff,   \* staff[d]: teachers with an active teacher position, Postgres
    member,  \* member[u]: (sub)groups of u's active positions, Postgres
    parent,  \* parent[n]: parent of a hierarchy node, Postgres
    rows,    \* authz_outbox in the order of id
    spice,   \* relationships in SpiceDB: <<relation, object, subject>>
    tx,      \* tx[w]: the transaction of worker w
    faults,
    \* history, read by the properties only
    reordered, \* keys of which a row overtook an older one
    narrowed   \* students whose last synchronized position left others out

vars == <<staff, member, parent, rows, spice, tx, faults, reordered, narrowed>>
dbVars == <<staff, member, parent, narrowed>>

(* A transaction of a worker.  batch: rows locked and not settled yet, the *)
(* one with the least id being dispatched; phase: the next call for it;    *)
(* out: the relationships it writes; ok, failed: outcomes; locks: advisory *)
(* locks.                                                                  *)
NoTx == [batch |-> {}, phase |-> "next", out |-> {}, ok |-> {}, failed |-> {}, locks |-> {}]

-----------------------------------------------------------------------------
(* key: what the row is about, the relation and its object or subject.     *)
NewRow(op, key, tuples) ==
    [op |-> op, key |-> key, tuples |-> tuples, done |-> FALSE, attempts |-> 0, backoff |-> FALSE]

Sync(d) == NewRow("SYNC_DEPARTMENT_STAFF", <<"staff", d>>, {})

(* After migration 000030, which enqueues every department: teachers have  *)
(* positions that SpiceDB does not know of.                                *)
Init ==
    /\ staff = [d \in Depts |-> Teachers]
    /\ member = [u \in Students |-> {}]
    /\ parent \in [Nodes -> Parents]
    /\ \E s \in [1..Cardinality(Depts) -> Depts] :
          Range(s) = Depts /\ rows = [i \in DOMAIN s |-> Sync(s[i])]
    /\ spice = {<<"parent", n, parent[n]>> : n \in Nodes}
    /\ tx = [w \in Workers |-> NoTx]
    /\ faults = 0
    /\ reordered = {} /\ narrowed = {}

-----------------------------------------------------------------------------
(* Producers: the data and the rows are written in one transaction.        *)

Enqueue(new) ==
    /\ Len(rows) + Len(new) <= MaxRows
    /\ rows' = rows \o new
    /\ UNCHANGED <<spice, tx, faults, reordered>>

(* A teacher position is inserted or deleted (one department), or updated  *)
(* (the old and the new one, maybe the same), or a teacher's external_id   *)
(* changes (the departments of the positions): triggers enqueue them.      *)
ChangeStaff(ds, S) ==
    /\ Enqueue([i \in DOMAIN ds |-> Sync(ds[i])])
    /\ \A d \in Depts \ Range(ds) : S[d] = staff[d]
    /\ staff' = S
    /\ UNCHANGED <<member, parent, narrowed>>

Membership(u, S) == {<<"member", g, u>> : g \in S}

(* DELETE_BY_SUBJECT of all memberships, and a TOUCH of those in S.        *)
RewriteMembership(u, S) ==
    Enqueue(<<NewRow("DELETE_BY_SUBJECT", <<"member", u>>, {})>> \o
            IF S = {} THEN <<>> ELSE <<NewRow("TOUCH", <<"member", u>>, Membership(u, S))>>)

(* Mutant: the memberships given up are not removed.                       *)
SyncStudentMemberTupleOnlyAdds(u, S) ==
    /\ member' = [member EXCEPT ![u] = S]
    /\ Enqueue(IF S = {} THEN <<>> ELSE <<NewRow("TOUCH", <<"member", u>>, Membership(u, S))>>)
    /\ narrowed' = narrowed \ {u}
    /\ UNCHANGED <<staff, parent>>

(* The admin API saves a student's positions: syncStudentMemberTuple       *)
(* enqueues the groups and subgroups of all active ones.  Students here    *)
(* have an external_id; for a person without one it does nothing.          *)
SyncStudentMemberTuple(u, S) ==
    /\ RewriteMembership(u, S)
    /\ member' = [member EXCEPT ![u] = S]
    /\ narrowed' = narrowed \ {u}
    /\ UNCHANGED <<staff, parent>>

(* The university sync saves one position, of group g or of none.  The     *)
(* position's subgroups T become active or inactive with it and other      *)
(* positions stay as they are in Postgres, but all memberships are deleted *)
(* and only g is written back.                                             *)
SyncStudentPosition(u, g, T, active) ==
    LET written == IF active THEN {g} \ {NoGroup} ELSE {} IN
    /\ RewriteMembership(u, written)
    /\ member' = [member EXCEPT ![u] = IF active THEN @ \cup written \cup T ELSE @ \ ({g} \cup T)]
    /\ narrowed' = IF member'[u] = written THEN narrowed \ {u} ELSE narrowed \cup {u}
    /\ UNCHANGED <<staff, parent>>

(* The university sync adds a subgroup to an active position.              *)
SyncStudentSubgroup(u, g) ==
    /\ Enqueue(<<NewRow("TOUCH", <<"member", u>>, Membership(u, {g}))>>)
    /\ member' = [member EXCEPT ![u] = @ \cup {g}]
    /\ UNCHANGED <<staff, parent, narrowed>>

(* SyncHierarchyNode: an upsert, whether the parent changes or not.        *)
SyncHierarchyNode(n, p) ==
    /\ Enqueue(<<NewRow("REPLACE", <<"parent", n>>, {<<"parent", n, p>>})>>)
    /\ parent' = [parent EXCEPT ![n] = p]
    /\ UNCHANGED <<staff, member, narrowed>>

-----------------------------------------------------------------------------
(* The worker.                                                             *)
Locked == UNION {tx[w].batch \cup tx[w].ok \cup tx[w].failed : w \in Workers}

(* Mutant: a row that once had locked_until set is not selected again.     *)
SelectableOnce(r) ==
    /\ ~rows[r].done /\ rows[r].attempts = 0
    /\ r \notin Locked

(* The WHERE clause of processOnce, with SKIP LOCKED.                      *)
Selectable(r) ==
    /\ ~rows[r].done /\ ~rows[r].backoff
    /\ rows[r].attempts < MaxAttempts
    /\ r \notin Locked

(* ORDER BY id LIMIT                                                       *)
Batch ==
    LET ids == {r \in DOMAIN rows : Selectable(r)}
    IN  {r \in ids : Cardinality({q \in ids : q <= r}) <= BatchSize}

(* SELECT ... FOR UPDATE                                                   *)
Select(w) ==
    /\ tx[w] = NoTx
    /\ Batch # {}
    /\ tx' = [tx EXCEPT ![w].batch = Batch]
    /\ UNCHANGED <<dbVars, rows, spice, faults, reordered>>

(* Row r is the one w dispatches: the loop goes by id.                     *)
Turn(w, r) == r \in tx[w].batch /\ \A q \in tx[w].batch : r <= q

(* w has a department to synchronize next; waits: it is in the lock queue. *)
Wants(w, r) ==
    /\ Turn(w, r) /\ tx[w].phase \in {"next", "wait"}
    /\ rows[r].op = "SYNC_DEPARTMENT_STAFF"
Waits(w, d) == \E r \in tx[w].batch : Wants(w, r) /\ tx[w].phase = "wait" /\ rows[r].key[2] = d

(* pg_advisory_xact_lock: held until the transaction ends, granted to the  *)
(* one in the queue first.                                                 *)
LockFree(w, d) == \A v \in Workers \ {w} : d \notin tx[v].locks
MayLock(w, d) ==
    \/ d \in tx[w].locks
    \/ LockFree(w, d) /\ (tx[w].phase = "wait" \/ \A v \in Workers \ {w} : ~Waits(v, d))

AwaitLock(w, r) ==
    /\ Wants(w, r) /\ tx[w].phase = "next" /\ ~LockFree(w, rows[r].key[2])
    /\ tx' = [tx EXCEPT ![w].phase = "wait"]
    /\ UNCHANGED <<dbVars, rows, spice, faults, reordered>>

(* The key of row r is overtaken if an older row of the key is neither     *)
(* processed nor applied by this transaction.                              *)
NoteOrder(w, r) ==
    LET older == {q \in 1..(r - 1) : rows[q].key = rows[r].key /\ ~rows[q].done}
    IN  reordered' = IF older \subseteq tx[w].ok THEN reordered
                     ELSE reordered \cup {rows[r].key}

(* Mutant: replicas do not exclude each other.                             *)
BeginSyncUnlocked(w, r) ==
    LET d == rows[r].key[2] IN
    /\ Wants(w, r)
    /\ tx' = [tx EXCEPT ![w].phase = "erase", ![w].locks = @ \cup {d},
                        ![w].out = {<<"staff", d, u>> : u \in staff[d]}]
    /\ UNCHANGED <<dbVars, rows, spice, faults, reordered>>

(* SYNC_DEPARTMENT_STAFF: the advisory lock of the department, then the    *)
(* current positions.                                                      *)
BeginSync(w, r) ==
    LET d == rows[r].key[2] IN
    /\ Wants(w, r) /\ MayLock(w, d)
    /\ tx' = [tx EXCEPT ![w].phase = "erase", ![w].locks = @ \cup {d},
                        ![w].out = {<<"staff", d, u>> : u \in staff[d]}]
    /\ UNCHANGED <<dbVars, rows, spice, faults, reordered>>

BeginStored(w, r) ==
    /\ Turn(w, r) /\ tx[w].phase = "next" /\ rows[r].op # "SYNC_DEPARTMENT_STAFF"
    /\ tx' = [tx EXCEPT ![w].phase = IF rows[r].op = "TOUCH" THEN "write" ELSE "erase",
                        ![w].out = rows[r].tuples]
    /\ NoteOrder(w, r)
    /\ UNCHANGED <<dbVars, rows, spice, faults>>

(* What DeleteByObject or DeleteBySubject of the row removes.              *)
Erased(row) ==
    {t \in spice : /\ t[1] = row.key[1]
                   /\ row.key[2] = IF row.op = "DELETE_BY_SUBJECT" THEN t[3] ELSE t[2]}

(* SpiceDB after the call in progress.                                     *)
Applied(w, r) == IF tx[w].phase = "erase" THEN spice \ Erased(rows[r]) ELSE spice \cup tx[w].out

(* One SpiceDB call; ReplaceForObject makes two, unless there is nothing   *)
(* to write.                                                               *)
CallOK(w, r) ==
    /\ Turn(w, r) /\ tx[w].phase \in {"erase", "write"}
    /\ spice' = Applied(w, r)
    /\ tx' = IF tx[w].phase = "erase" /\ tx[w].out # {}
             THEN [tx EXCEPT ![w].phase = "write"]
             ELSE [tx EXCEPT ![w].batch = @ \ {r}, ![w].phase = "next", ![w].out = {},
                             ![w].ok = @ \cup {r}]
    /\ UNCHANGED <<dbVars, rows, faults, reordered>>

(* The call fails, with or without effect.                                 *)
CallError(w, r) ==
    /\ Turn(w, r) /\ tx[w].phase \in {"erase", "write"}
    /\ faults < MaxFaults
    /\ faults' = faults + 1
    /\ spice' \in {spice, Applied(w, r)}
    /\ tx' = [tx EXCEPT ![w].batch = @ \ {r}, ![w].phase = "next", ![w].out = {},
                        ![w].failed = @ \cup {r}]
    /\ UNCHANGED <<dbVars, rows, reordered>>

(* The outcomes become visible; locks are released.                        *)
Commit(w) ==
    /\ tx[w] # NoTx /\ tx[w].batch = {}
    /\ rows' = [r \in DOMAIN rows |->
                  IF r \in tx[w].ok THEN [rows[r] EXCEPT !.done = TRUE]
                  ELSE IF r \in tx[w].failed
                  THEN [rows[r] EXCEPT !.attempts = @ + 1, !.backoff = TRUE]
                  ELSE rows[r]]
    /\ tx' = [tx EXCEPT ![w] = NoTx]
    /\ UNCHANGED <<dbVars, spice, faults, reordered>>

(* The process dies, a statement or the commit fails: rolled back.         *)
Rollback(w) ==
    /\ tx[w] # NoTx
    /\ faults < MaxFaults
    /\ faults' = faults + 1
    /\ tx' = [tx EXCEPT ![w] = NoTx]
    /\ UNCHANGED <<dbVars, rows, spice, reordered>>

WaitsFor(w, v) == \E d \in tx[v].locks : v # w /\ Waits(w, d)

(* Two replicas wait for each other's departments: Postgres aborts one.    *)
DeadlockAbort(w) ==
    /\ \E v \in Workers : WaitsFor(w, v) /\ WaitsFor(v, w)
    /\ tx' = [tx EXCEPT ![w] = NoTx]
    /\ UNCHANGED <<dbVars, rows, spice, faults, reordered>>

BackoffEnds(r) ==
    /\ rows[r].backoff
    /\ rows' = [rows EXCEPT ![r].backoff = FALSE]
    /\ UNCHANGED <<dbVars, spice, tx, faults, reordered>>

-----------------------------------------------------------------------------
WorkerStep(w) ==
    \/ Select(w) \/ Commit(w)
    \/ \E r \in tx[w].batch :
          \/ AwaitLock(w, r) \/ BeginSync(w, r) \/ BeginStored(w, r)
          \/ CallOK(w, r) \/ CallError(w, r)

Next ==
    \/ \E ds \in {<<d>> : d \in Depts} \cup (Depts \X Depts), S \in [Depts -> SUBSET Teachers] :
          ChangeStaff(ds, S)
    \/ \E u \in Students :
          \/ \E S \in SUBSET Groups : SyncStudentMemberTuple(u, S)
          \/ \E g \in Groups \cup {NoGroup}, T \in SUBSET Groups, active \in BOOLEAN :
                SyncStudentPosition(u, g, T, active)
          \/ \E g \in Groups : SyncStudentSubgroup(u, g)
    \/ \E n \in Nodes, p \in Parents : SyncHierarchyNode(n, p)
    \/ \E w \in Workers : WorkerStep(w) \/ Rollback(w) \/ DeadlockAbort(w)
    \/ \E r \in DOMAIN rows : BackoffEnds(r)

Spec == Init /\ [][Next]_vars

(* The worker polls every 5 seconds, back-offs end, and Postgres breaks    *)
(* deadlocks.  A call answers, with success or with an error.              *)
Fairness ==
    /\ \A w \in Workers : WF_vars(WorkerStep(w))
    /\ WF_vars(\E w \in Workers : DeadlockAbort(w))
    /\ WF_vars(\E r \in DOMAIN rows : BackoffEnds(r))

FairSpec == Spec /\ Fairness

-----------------------------------------------------------------------------
AllDone(key) == \A r \in DOMAIN rows : rows[r].key = key => rows[r].done

(* Once the rows of a department are processed, SpiceDB has exactly its    *)
(* active staff: rows carry no snapshot, so neither the order in which     *)
(* they are retried nor the replica that applies them matters.             *)
StaffConverges ==
    \A d \in Depts : AllDone(<<"staff", d>>) =>
        {t \in spice : t[1] = "staff" /\ t[2] = d} = {<<"staff", d, u>> : u \in staff[d]}

(* Rows that carry their data converge as well, provided that no row of    *)
(* the student or node was applied before an older one, and that the sync  *)
(* did not leave out other positions of the student.                       *)
StoredConverge ==
    /\ \A u \in Students \ narrowed :
          AllDone(<<"member", u>>) /\ <<"member", u>> \notin reordered =>
             {t \in spice : t[1] = "member" /\ t[3] = u} = Membership(u, member[u])
    /\ \A n \in Nodes :
          AllDone(<<"parent", n>>) /\ <<"parent", n>> \notin reordered =>
             {t \in spice : t[1] = "parent" /\ t[2] = n} = {<<"parent", n, parent[n]>>}

(* ReplaceForObject: "atomically replaces all relationships for an         *)
(* object/relation": a node never loses its parent on the way.             *)
ReplaceIsAtomic ==
    \A n \in Nodes : \E p \in Parents : <<"parent", n, p>> \in spice

Settled(r) == r \in DOMAIN rows /\ (rows[r].done \/ rows[r].attempts = MaxAttempts)

(* Every row is processed or has used up its attempts in the end, although *)
(* replicas wait for each other's departments.                             *)
EventuallySettled ==
    \A r \in 1..MaxRows : r \in DOMAIN rows ~> Settled(r)
=============================================================================
