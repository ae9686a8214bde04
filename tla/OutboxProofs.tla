----------------------------- MODULE OutboxProofs -----------------------------
(***************************************************************************)
(* Proofs about the authorization outbox, for any number of replicas,      *)
(* rows, faults, departments, students and nodes, and any batch size.      *)
(***************************************************************************)
EXTENDS AuthzOutbox, SequenceTheorems, FiniteSetTheorems, TLAPS

StaffKeys == {<<"staff", d>> : d \in Depts}
MemberKeys == {<<"member", u>> : u \in Students}
ParentKeys == {<<"parent", n>> : n \in Nodes}
Keys == StaffKeys \cup MemberKeys \cup ParentKeys

(* Relationships that the rows of key k are about, in SpiceDB and as       *)
(* Postgres has them.                                                      *)
Belongs(t, k) == t[1] = k[1] /\ k[2] = IF k[1] = "member" THEN t[3] ELSE t[2]
At(k) == {t \in spice : Belongs(t, k)}
Goal(k) ==
    IF k[1] = "staff" THEN {<<"staff", k[2], u>> : u \in staff[k[2]]}
    ELSE IF k[1] = "member" THEN Membership(k[2], member[k[2]])
    ELSE {<<"parent", k[2], parent[k[2]]>>}

Relationships ==
    {<<"staff", d, u>> : d \in Depts, u \in Teachers} \cup
    {<<"member", g, u>> : g \in Groups, u \in Students} \cup
    {<<"parent", n, p>> : n \in Nodes, p \in Parents}
Rows == [op : {"SYNC_DEPARTMENT_STAFF", "DELETE_BY_SUBJECT", "TOUCH", "REPLACE"}, key : Keys,
         tuples : SUBSET Relationships, done : BOOLEAN, attempts : Nat, backoff : BOOLEAN]
Transactions ==
    [batch : SUBSET Nat, phase : {"next", "wait", "erase", "write"}, out : SUBSET Relationships,
     ok : SUBSET Nat, failed : SUBSET Nat, locks : SUBSET Depts]

RowOK(x) ==
    /\ \A t \in x.tuples : Belongs(t, x.key)
    /\ \/ x.op = "SYNC_DEPARTMENT_STAFF" /\ x.key \in StaffKeys
       \/ x.op \in {"DELETE_BY_SUBJECT", "TOUCH"} /\ x.key \in MemberKeys
       \/ x.op = "REPLACE" /\ x.key \in ParentKeys
    /\ x.op = "DELETE_BY_SUBJECT" => x.tuples = {}

Typed ==
    /\ staff \in [Depts -> SUBSET Teachers] /\ member \in [Students -> SUBSET Groups]
    /\ parent \in [Nodes -> Parents]
    /\ rows \in Seq(Rows) /\ \A r \in DOMAIN rows : RowOK(rows[r])
    /\ tx \in [Workers -> Transactions]
    /\ reordered \cap StaffKeys = {}

(* Who has which rows and departments. *)
Holds(t) == t.batch \cup t.ok \cup t.failed
Apart(s, t) == Holds(s) \cap Holds(t) = {} /\ s.locks \cap t.locks = {}
TxOK(t) ==
    /\ \A r \in Holds(t) : r \in DOMAIN rows /\ ~rows[r].done
    /\ t.batch \cap t.ok = {} /\ t.batch \cap t.failed = {} /\ t.ok \cap t.failed = {}
    /\ \A r \in t.ok : rows[r].key \in StaffKeys => rows[r].key[2] \in t.locks
Owned ==
    \A w \in Workers : TxOK(tx[w]) /\ \A v \in Workers \ {w} : Apart(tx[v], tx[w])

(* Calls are being made for row r. *)
Acting(t, r) == r \in t.batch /\ (\A q \in t.batch : r <= q) /\ t.phase \in {"erase", "write"}
Applies(t, r) ==
    /\ rows[r].key \in StaffKeys => rows[r].key[2] \in t.locks
    /\ \A x \in t.out : Belongs(x, rows[r].key)
    /\ rows[r].op = "TOUCH" => t.phase = "write"
    /\ rows[r].op = "DELETE_BY_SUBJECT" => t.phase = "erase"
    /\ rows[r].op # "SYNC_DEPARTMENT_STAFF" => t.out = rows[r].tuples
    /\ t.phase = "write" /\ rows[r].op # "TOUCH" /\ rows[r].key \notin reordered => At(rows[r].key) = {}

(* Row r is processed, or a transaction under way has applied it. *)
App(r) == rows[r].done \/ \E w \in Workers : r \in tx[w].ok

(* Nothing overtook: what is older than a row that is processed, applied   *)
(* or being applied, is processed or applied by the same transaction.      *)
After(t, r, q) == q < r /\ rows[q].key = rows[r].key => rows[q].done \/ q \in t.ok
Ordered ==
    \A r \in DOMAIN rows : rows[r].key \notin reordered /\ rows[r].key \notin StaffKeys =>
        \A q \in DOMAIN rows :
            /\ q < r /\ rows[q].key = rows[r].key /\ rows[r].done => rows[q].done
            /\ \A w \in Workers : r \in tx[w].ok \/ Acting(tx[w], r) => After(tx[w], r, q)

(* A department that SpiceDB does not agree on has a row that is still to  *)
(* be applied, and so has one whose current staff is not what is written.  *)
Waiting(k, b) == \E r \in DOMAIN rows : rows[r].key = k /\ ~App(r) /\ r \notin b
StaffInv ==
    /\ \A k \in StaffKeys : At(k) = Goal(k) \/ Waiting(k, {})
    /\ \A w \in Workers : \A r \in DOMAIN rows : Acting(tx[w], r) /\ rows[r].key \in StaffKeys =>
          tx[w].out = Goal(rows[r].key) \/ Waiting(rows[r].key, tx[w].batch)

(* e is the last row that erases the relationships of k, 0 if there is     *)
(* none.  The rows from e on bring what Postgres has; once e is applied,   *)
(* SpiceDB has nothing else, and everything that was applied.              *)
Last(k, e) ==
    /\ e \in Nat
    /\ e # 0 => e \in DOMAIN rows /\ rows[e].key = k /\ rows[e].op # "TOUCH"
    /\ \A r \in DOMAIN rows : r > e /\ rows[r].key = k => rows[r].op = "TOUCH"
Brings(k, e) == \A t : t \in Goal(k) <=> \E r \in DOMAIN rows : r >= e /\ rows[r].key = k /\ t \in rows[r].tuples
Agrees(k, e) ==
    /\ At(k) \subseteq Goal(k)
    /\ \A r \in DOMAIN rows : r >= e /\ rows[r].key = k /\ App(r) => rows[r].tuples \subseteq At(k)
Follows(k, e) ==
    /\ Last(k, e)
    /\ e = 0 /\ k \in ParentKeys => At(k) = Goal(k) /\ \A r \in DOMAIN rows : rows[r].key # k
    /\ e # 0 \/ k \in MemberKeys => Brings(k, e)
    /\ e = 0 \/ App(e) => Agrees(k, e)
Followed(k) == k \notin reordered /\ (k \in MemberKeys => k[2] \notin narrowed)
StoredInv == \A k \in MemberKeys \cup ParentKeys : Followed(k) => \E e \in Nat : Follows(k, e)

(* The inductive invariant. *)
OutboxInv ==
    /\ Typed
    /\ Owned
    /\ \A w \in Workers : \A r \in DOMAIN rows : Acting(tx[w], r) => Applies(tx[w], r)
    /\ Ordered
    /\ StaffInv
    /\ StoredInv

-----------------------------------------------------------------------------
(* Keys, and what a call of SpiceDB does to the relationships of one. *)
LEMMA KeyKinds ==
  /\ \A k \in StaffKeys : k[1] = "staff" /\ k[2] \in Depts /\ k = <<"staff", k[2]>>
  /\ \A k \in MemberKeys : k[1] = "member" /\ k[2] \in Students /\ k = <<"member", k[2]>>
  /\ \A k \in ParentKeys : k[1] = "parent" /\ k[2] \in Nodes /\ k = <<"parent", k[2]>>
  /\ \A k \in Keys : k[1] = "staff" <=> k \in StaffKeys
  /\ \A k \in Keys : k[1] = "member" <=> k \in MemberKeys
  /\ \A k \in Keys : k[1] = "parent" <=> k \in ParentKeys
  BY DEF StaffKeys, MemberKeys, ParentKeys, Keys

LEMMA OneKey ==
  ASSUME NEW k \in Keys, NEW m \in Keys, NEW t, Belongs(t, k), Belongs(t, m)
  PROVE  k = m
  <1>1. k[1] = m[1] /\ k[2] = m[2]
    BY DEF Belongs
  <1>2. k = <<k[1], k[2]>> /\ m = <<m[1], m[2]>>
    BY DEF Keys, StaffKeys, MemberKeys, ParentKeys
  <1> QED
    BY <1>1, <1>2

LEMMA GoalBelongs ==
  ASSUME NEW k \in Keys, NEW t \in Goal(k)
  PROVE  Belongs(t, k)
  BY KeyKinds DEF Goal, Belongs, Membership, Keys

LEMMA ErasedAll ==
  ASSUME NEW x \in Rows, RowOK(x), x.op # "TOUCH"
  PROVE  Erased(x) = At(x.key)
  <1>1. x.op = "DELETE_BY_SUBJECT" <=> x.key[1] = "member"
    BY KeyKinds DEF RowOK, Rows
  <1> QED
    BY <1>1 DEF Erased, At, Belongs

LEMMA TxTyped ==
  ASSUME Typed, NEW w \in Workers
  PROVE  /\ tx[w] \in Transactions
         /\ \A v \in Workers : \A t : tx' = [tx EXCEPT ![w] = t] => tx'[v] = IF v = w THEN t ELSE tx[v]
  BY DEF Typed

LEMMA RowTyped ==
  ASSUME Typed, NEW r \in DOMAIN rows
  PROVE  r \in Nat /\ r # 0 /\ rows[r] \in Rows /\ RowOK(rows[r]) /\ rows[r].key \in Keys
  <1>1. rows[r] \in Rows /\ r \in 1..Len(rows)
    BY ElementOfSeq DEF Typed
  <1> QED
    BY <1>1 DEF Typed, Rows

-----------------------------------------------------------------------------
(* Steps that leave SpiceDB alone. *)
SameRows ==
    /\ DOMAIN rows' = DOMAIN rows
    /\ \A r \in DOMAIN rows :
          rows'[r].key = rows[r].key /\ rows'[r].op = rows[r].op /\ rows'[r].tuples = rows[r].tuples

(* The transaction of w becomes t, and its rows in S become processed.     *)
Becomes(w, t, S) ==
    /\ \A v \in Workers : tx'[v] = IF v = w THEN t ELSE tx[v]
    /\ S \in {{}, tx[w].ok} /\ t.ok \in {{}, tx[w].ok} /\ (S = {} \/ t.ok = {})
    /\ SameRows /\ \A r \in DOMAIN rows : rows'[r].done <=> rows[r].done \/ (w \in Workers /\ r \in S)
    /\ UNCHANGED <<staff, member, parent, narrowed, spice>>
    /\ reordered \subseteq reordered'

LEMMA AppShrinks ==
  ASSUME NEW w, NEW t, NEW S, Becomes(w, t, S), NEW r \in DOMAIN rows, App(r)'
  PROVE  App(r)
  <1>1. CASE rows'[r].done
    BY <1>1 DEF Becomes, App
  <1>2. CASE ~rows'[r].done
    <2>1. PICK v \in Workers : r \in tx'[v].ok
      BY <1>2 DEF App
    <2> QED
      BY <2>1 DEF Becomes, App
  <1> QED
    BY <1>1, <1>2

LEMMA QuietOrder ==
  ASSUME Ordered, NEW w, NEW t, NEW S, Becomes(w, t, S),
         \A r, q \in DOMAIN rows : w \in Workers /\ Acting(t, r) /\ rows[r].key \notin reordered' \cup StaffKeys =>
            After(t, r, q)
  PROVE  Ordered'
  <1> SUFFICES ASSUME NEW r \in DOMAIN rows, NEW q \in DOMAIN rows,
                      rows[r].key \notin reordered', rows[r].key \notin StaffKeys,
                      q < r, rows[q].key = rows[r].key
               PROVE  /\ rows'[r].done => rows'[q].done
                      /\ \A v \in Workers : r \in tx'[v].ok \/ Acting(tx'[v], r) => rows'[q].done \/ q \in tx'[v].ok
    BY DEF Ordered, Becomes, SameRows, After, StaffKeys
  <1>1. /\ rows[r].done => rows[q].done
        /\ \A v \in Workers : r \in tx[v].ok \/ Acting(tx[v], r) => rows[q].done \/ q \in tx[v].ok
    BY DEF Ordered, Becomes, After
  <1>2. rows[q].done => rows'[q].done
    BY DEF Becomes
  <1>3. rows'[r].done => rows'[q].done
    BY <1>1 DEF Becomes
  <1>4. ASSUME NEW v \in Workers, r \in tx'[v].ok \/ Acting(tx'[v], r)
        PROVE  rows'[q].done \/ q \in tx'[v].ok
    <2>1. CASE v # w
      BY <1>1, <1>2, <1>4, <2>1 DEF Becomes
    <2>2. CASE v = w
      <3>1. tx'[v] = t
        BY <2>2 DEF Becomes
      <3>2. CASE r \in t.ok
        BY <1>1, <1>2, <2>2, <3>1, <3>2 DEF Becomes
      <3>3. CASE Acting(t, r)
        BY <1>2, <2>2, <3>1, <3>3 DEF After
      <3> QED
        BY <1>4, <3>1, <3>2, <3>3
    <2> QED
      BY <2>1, <2>2
  <1> QED
    BY <1>3, <1>4

LEMMA QuietStaff ==
  ASSUME StaffInv, NEW w, NEW t, NEW S, Becomes(w, t, S),
         \A r \in DOMAIN rows : w \in Workers /\ Acting(t, r) /\ rows[r].key \in StaffKeys =>
            t.out = Goal(rows[r].key) \/ Waiting(rows[r].key, t.batch)
  PROVE  StaffInv'
  <1>1. ASSUME NEW k
        PROVE  At(k)' = At(k) /\ Goal(k)' = Goal(k)
    BY DEF Becomes, At, Goal
  <1>2. ASSUME NEW k, NEW b, Waiting(k, b)
        PROVE  Waiting(k, b)'
    <2>1. PICK r \in DOMAIN rows : rows[r].key = k /\ ~App(r) /\ r \notin b
      BY <1>2 DEF Waiting
    <2>2. ~App(r)'
      BY <2>1, AppShrinks
    <2>3. r \in DOMAIN rows' /\ rows'[r].key = k
      BY <2>1 DEF Becomes, SameRows
    <2> QED
      BY <2>1, <2>2, <2>3 DEF Waiting
  <1>3. ASSUME NEW k \in StaffKeys
        PROVE  At(k)' = Goal(k)' \/ Waiting(k, {})'
    BY <1>1, <1>2 DEF StaffInv
  <1>4. ASSUME NEW v \in Workers, NEW r \in DOMAIN rows, Acting(tx'[v], r), rows[r].key \in StaffKeys
        PROVE  tx'[v].out = Goal(rows[r].key) \/ Waiting(rows[r].key, tx'[v].batch)
    BY <1>4 DEF StaffInv, Becomes
  <1>5. ASSUME NEW v \in Workers, NEW r \in DOMAIN rows', Acting(tx'[v], r), rows'[r].key \in StaffKeys
        PROVE  (tx[v].out = Goal(rows[r].key) \/ Waiting(rows[r].key, tx[v].batch))'
    <2>1. PICK k, b : k = rows[r].key /\ b = tx'[v].batch
      OBVIOUS
    <2>2. r \in DOMAIN rows /\ rows'[r].key = k
      BY <2>1 DEF Becomes, SameRows
    <2>3. tx'[v].out = Goal(k) \/ Waiting(k, b)
      BY <1>4, <1>5, <2>1, <2>2
    <2>4. tx'[v].out = Goal(k)' \/ Waiting(k, b)'
      BY <1>1, <1>2, <2>3
    <2> QED
      BY <2>1, <2>2, <2>4 DEF Waiting, Goal
  <1> QED
    BY <1>3, <1>5 DEF StaffInv, StaffKeys, Acting

LEMMA QuietStored ==
  ASSUME StoredInv, NEW w, NEW t, NEW S, Becomes(w, t, S)
  PROVE  StoredInv'
  <1> SUFFICES ASSUME NEW k \in MemberKeys \cup ParentKeys, Followed(k)'
               PROVE  \E e \in Nat : Follows(k, e)'
    BY DEF StoredInv, MemberKeys, ParentKeys
  <1>1. Followed(k)
    BY DEF Followed, Becomes, MemberKeys
  <1>2. PICK e \in Nat : Follows(k, e)
    BY <1>1 DEF StoredInv
  <1>3. At(k)' = At(k) /\ Goal(k)' = Goal(k)
    BY DEF Becomes, At, Goal
  <1>4. SameRows
    BY DEF Becomes
  <1>5. Last(k, e)'
    BY <1>2, <1>4 DEF Follows, Last, SameRows
  <1>6. e = 0 /\ k \in ParentKeys => At(k)' = Goal(k)' /\ \A r \in DOMAIN rows' : rows'[r].key # k
    BY <1>2, <1>3, <1>4 DEF Follows, SameRows
  <1>7. Brings(k, e) => Brings(k, e)'
    BY <1>3, <1>4 DEF Brings, SameRows
  <1>8. Agrees(k, e) => Agrees(k, e)'
    BY <1>3, <1>4, AppShrinks DEF Agrees, SameRows
  <1>9. e = 0 \/ App(e)' => e = 0 \/ App(e)
    BY <1>2, AppShrinks DEF Follows, Last
  <1> QED
    BY <1>2, <1>5, <1>6, <1>7, <1>8, <1>9 DEF Follows, MemberKeys, ParentKeys

LEMMA QuietStep ==
  ASSUME OutboxInv, NEW w, NEW t, NEW S, Becomes(w, t, S), Typed',
         w \in Workers => TxOK(t)' /\ \A v \in Workers \ {w} : Apart(tx[v], t),
         \A r \in DOMAIN rows : w \in Workers /\ Acting(t, r) =>
            /\ Applies(t, r)'
            /\ rows[r].key \in StaffKeys => t.out = Goal(rows[r].key) \/ Waiting(rows[r].key, t.batch)
            /\ rows[r].key \notin reordered' \cup StaffKeys => \A q \in DOMAIN rows : After(t, r, q)
  PROVE  OutboxInv'
  <1>1. Owned'
    <2>1. ASSUME NEW v \in Workers, v # w
          PROVE  TxOK(tx[v])'
      <3>1. TxOK(tx[v]) /\ tx'[v] = tx[v]
        BY <2>1 DEF OutboxInv, Owned, Becomes
      <3>2. \A r \in Holds(tx[v]) : r \in DOMAIN rows' /\ ~rows'[r].done
        BY <2>1, <3>1 DEF OutboxInv, Owned, TxOK, Apart, Holds, Becomes, SameRows
      <3>3. \A r \in tx[v].ok : rows'[r].key = rows[r].key
        BY <3>1 DEF TxOK, Holds, Becomes, SameRows
      <3> QED
        BY <3>1, <3>2, <3>3 DEF TxOK, StaffKeys
    <2>2. ASSUME NEW v \in Workers, NEW u \in Workers \ {v}
          PROVE  Apart(tx[u], tx[v])'
      <3>1. tx'[v] = (IF v = w THEN t ELSE tx[v]) /\ tx'[u] = IF u = w THEN t ELSE tx[u]
        BY DEF Becomes
      <3>2. Apart(tx[u], tx[v]) /\ (v = w => Apart(tx[u], t)) /\ (u = w => Apart(tx[v], t))
        BY DEF OutboxInv, Owned
      <3> QED
        BY <3>1, <3>2 DEF Apart
    <2>3. w \in Workers => TxOK(tx[w])'
      BY DEF Becomes, TxOK
    <2> QED
      BY <2>1, <2>2, <2>3 DEF Owned
  <1>2. ASSUME NEW v \in Workers, NEW r \in DOMAIN rows', Acting(tx[v], r)'
        PROVE  Applies(tx[v], r)'
    <2>1. r \in DOMAIN rows /\ tx'[v] = IF v = w THEN t ELSE tx[v]
      BY DEF Becomes, SameRows
    <2>2. CASE v = w
      BY <1>2, <2>1, <2>2 DEF Acting, Applies
    <2>3. CASE v # w
      <3>1. Applies(tx[v], r)
        BY <1>2, <2>1, <2>3 DEF OutboxInv, Acting
      <3>2. \A k : At(k)' = At(k)
        BY DEF At, Becomes
      <3>3. /\ rows'[r].key = rows[r].key /\ rows'[r].op = rows[r].op /\ rows'[r].tuples = rows[r].tuples
            /\ tx'[v] = tx[v] /\ reordered \subseteq reordered'
        BY <2>1, <2>3 DEF Becomes, SameRows
      <3>5. At(rows[r].key)' = At(rows[r].key)
        BY <3>2, <3>3 DEF At, Becomes
      <3> QED
        BY <3>1, <3>3, <3>5 DEF Applies, StaffKeys
    <2> QED
      BY <2>2, <2>3
  <1>3. Ordered'
    BY QuietOrder DEF OutboxInv
  <1>4. StaffInv' /\ StoredInv'
    BY QuietStaff, QuietStored DEF OutboxInv
  <1> QED
    BY <1>1, <1>2, <1>3, <1>4 DEF OutboxInv

LEMMA OwnTx ==
  ASSUME OutboxInv, NEW w \in Workers
  PROVE  tx[w] \in Transactions /\ TxOK(tx[w]) /\ \A v \in Workers \ {w} : Apart(tx[v], tx[w])
  BY TxTyped DEF OutboxInv, Owned

LEMMA NoTxOK ==
  /\ NoTx \in Transactions /\ Holds(NoTx) = {} /\ NoTx.locks = {} /\ NoTx.ok = {} /\ NoTx.batch = {}
  /\ \A s : Apart(s, NoTx)
  /\ TxOK(NoTx) /\ TxOK(NoTx)'
  /\ \A r : ~Acting(NoTx, r)
  BY DEF NoTx, Transactions, Holds, Apart, TxOK, Acting

(* The rows stay as they are. *)
LEMMA RowsStay ==
  ASSUME Typed, NEW w \in Workers, NEW t \in Transactions, tx' = [tx EXCEPT ![w] = t], t.ok \in {{}, tx[w].ok},
         UNCHANGED <<dbVars, rows, spice>>, reordered \subseteq reordered', reordered' \cap StaffKeys = {}
  PROVE  Becomes(w, t, {}) /\ Typed'
  <1>1. \A v \in Workers : tx'[v] = IF v = w THEN t ELSE tx[v]
    BY TxTyped, ZenonT(30)
  <1>2. tx' \in [Workers -> Transactions]
    BY DEF Typed
  <1> QED
    BY <1>1, <1>2 DEF Becomes, SameRows, Typed, dbVars, RowOK, Belongs

LEMMA AbortStep ==
  ASSUME OutboxInv, NEW w \in Workers, Rollback(w) \/ DeadlockAbort(w)
  PROVE  OutboxInv'
  <1>1. tx' = [tx EXCEPT ![w] = NoTx] /\ UNCHANGED <<dbVars, rows, spice, reordered>>
    BY DEF Rollback, DeadlockAbort
  <1>2. Becomes(w, NoTx, {}) /\ Typed'
    BY <1>1, NoTxOK, RowsStay DEF OutboxInv, Typed
  <1> HIDE DEF NoTx
  <1> QED
    BY <1>2, NoTxOK, QuietStep

LEMMA BackoffStep ==
  ASSUME OutboxInv, NEW p \in DOMAIN rows, BackoffEnds(p)
  PROVE  OutboxInv'
  <1>1. PICK x : x = [rows[p] EXCEPT !.backoff = FALSE] /\ rows' = [rows EXCEPT ![p] = x]
    BY DEF BackoffEnds
  <1>2. /\ x \in Rows /\ x.key = rows[p].key /\ x.op = rows[p].op /\ x.tuples = rows[p].tuples
        /\ x.done = rows[p].done
    BY <1>1, RowTyped DEF OutboxInv, Rows
  <1>3. rows' \in Seq(Rows) /\ DOMAIN rows' = DOMAIN rows
    BY <1>1, <1>2 DEF OutboxInv, Typed
  <1>4. \A r \in DOMAIN rows : rows'[r] = IF r = p THEN x ELSE rows[r]
    BY <1>1 DEF OutboxInv, Typed
  <1>5. SameRows /\ \A r \in DOMAIN rows : rows'[r].done = rows[r].done
    BY <1>2, <1>3, <1>4 DEF SameRows
  <1>6. UNCHANGED <<staff, member, parent, narrowed, spice, tx, reordered>>
    BY DEF BackoffEnds, dbVars
  <1>7. Typed'
    <2>1. \A r \in DOMAIN rows' : RowOK(rows'[r])
      BY <1>5 DEF OutboxInv, Typed, RowOK, SameRows
    <2> QED
      BY <1>3, <1>6, <2>1 DEF OutboxInv, Typed, StaffKeys, RowOK, Belongs
  <1>8. PICK w, t : t = tx[w]
    OBVIOUS
  <1>9. Becomes(w, t, {})
    BY <1>5, <1>6, <1>8 DEF Becomes
  <1>10. w \in Workers => TxOK(t)' /\ \A v \in Workers \ {w} : Apart(tx[v], t)
    BY <1>5, <1>8, OwnTx DEF TxOK, SameRows, Holds, StaffKeys
  <1>11. ASSUME NEW r \in DOMAIN rows, w \in Workers, Acting(t, r)
         PROVE  /\ Applies(t, r)'
                /\ rows[r].key \in StaffKeys => t.out = Goal(rows[r].key) \/ Waiting(rows[r].key, t.batch)
                /\ rows[r].key \notin reordered' \cup StaffKeys => \A q \in DOMAIN rows : After(t, r, q)
    <2>1. Applies(t, r)
      BY <1>8, <1>11 DEF OutboxInv
    <2>2. At(rows[r].key)' = At(rows[r].key)
      BY <1>5, <1>6 DEF At, SameRows
    <2>3. Applies(t, r)'
      BY <1>5, <1>6, <2>1, <2>2 DEF Applies, SameRows, StaffKeys
    <2> QED
      BY <1>6, <1>8, <1>11, <2>3 DEF OutboxInv, StaffInv, Ordered
  <1> QED
    BY <1>7, <1>9, <1>10, <1>11, QuietStep

LEMMA CommitStep ==
  ASSUME OutboxInv, NEW w \in Workers, Commit(w)
  PROVE  OutboxInv'
  <1>1. /\ tx' = [tx EXCEPT ![w] = NoTx] /\ DOMAIN rows' = DOMAIN rows
        /\ UNCHANGED <<staff, member, parent, narrowed, spice, reordered>>
    BY DEF Commit, dbVars
  <1>2. ASSUME NEW r \in DOMAIN rows
        PROVE  /\ rows'[r] \in Rows /\ rows'[r].key = rows[r].key /\ rows'[r].op = rows[r].op
               /\ rows'[r].tuples = rows[r].tuples /\ (rows'[r].done <=> rows[r].done \/ r \in tx[w].ok)
    <2>1. PICK x : x = rows[r]
      OBVIOUS
    <2>2. x \in Rows
      BY <2>1, RowTyped DEF OutboxInv
    <2>3. rows'[r] = IF r \in tx[w].ok THEN [x EXCEPT !.done = TRUE]
                     ELSE IF r \in tx[w].failed THEN [x EXCEPT !.attempts = @ + 1, !.backoff = TRUE] ELSE x
      BY <2>1 DEF Commit
    <2>4. PICK a : a = [x EXCEPT !.done = TRUE]
      OBVIOUS
    <2>5. a \in Rows /\ a.key = x.key /\ a.op = x.op /\ a.tuples = x.tuples /\ a.done = TRUE
      BY <2>2, <2>4 DEF Rows
    <2>6. PICK n \in Nat : n = x.attempts + 1
      BY <2>2 DEF Rows
    <2>7. PICK b : b = [x EXCEPT !.attempts = n, !.backoff = TRUE]
      OBVIOUS
    <2>8. b \in Rows /\ b.key = x.key /\ b.op = x.op /\ b.tuples = x.tuples /\ b.done = x.done
      BY <2>2, <2>7 DEF Rows
    <2>9. rows'[r] = IF r \in tx[w].ok THEN a ELSE IF r \in tx[w].failed THEN b ELSE x
      BY <2>3, <2>4, <2>6, <2>7
    <2> QED
      BY <2>1, <2>2, <2>5, <2>8, <2>9
  <1>3. SameRows
    BY <1>1, <1>2 DEF SameRows
  <1>4. rows' \in Seq(Rows)
    <2>1. PICK n \in Nat : DOMAIN rows = 1..n
      BY DEF OutboxInv, Typed
    <2>2. rows' = [r \in 1..n |-> rows'[r]]
      BY <2>1 DEF Commit
    <2>3. rows' \in [1..n -> Rows]
      BY <1>2, <2>1, <2>2
    <2> QED
      BY <2>3, SeqDef
  <1>5. Typed'
    <2>1. \A r \in DOMAIN rows' : RowOK(rows'[r])
      BY <1>3 DEF OutboxInv, Typed, RowOK, SameRows
    <2>2. tx' \in [Workers -> Transactions]
      BY <1>1, NoTxOK DEF OutboxInv, Typed
    <2> QED
      BY <1>1, <1>4, <2>1, <2>2 DEF OutboxInv, Typed, StaffKeys, RowOK, Belongs
  <1>6. Becomes(w, NoTx, tx[w].ok)
    <2>1. \A v \in Workers : tx'[v] = IF v = w THEN NoTx ELSE tx[v]
      BY <1>1, TxTyped DEF OutboxInv
    <2> HIDE DEF NoTx
    <2> QED
      BY <1>1, <1>2, <1>3, <2>1, NoTxOK DEF Becomes
  <1> HIDE DEF NoTx
  <1> QED
    BY <1>5, <1>6, NoTxOK, QuietStep

-----------------------------------------------------------------------------
(* A worker selects its rows, waits for a department or begins a row. *)
LEMMA SameHolds ==
  ASSUME OutboxInv, NEW w \in Workers, NEW t, rows' = rows,
         t.batch = tx[w].batch, t.ok = tx[w].ok, t.failed = tx[w].failed, tx[w].locks \subseteq t.locks,
         \A v \in Workers \ {w} : t.locks \cap tx[v].locks = {}
  PROVE  TxOK(t)' /\ \A v \in Workers \ {w} : Apart(tx[v], t)
  <1>1. Holds(t) = Holds(tx[w])
    BY DEF Holds
  <1>2. TxOK(t)'
    BY <1>1, OwnTx DEF TxOK, StaffKeys
  <1>3. \A v \in Workers \ {w} : Apart(tx[v], t)
    BY <1>1, OwnTx DEF Apart
  <1> QED
    BY <1>2, <1>3

LEMMA OneActs ==
  ASSUME Typed, NEW t \in Transactions, NEW r \in DOMAIN rows, NEW q \in DOMAIN rows, Acting(t, q),
         r \in t.batch, \A p \in t.batch : r <= p
  PROVE  q = r
  BY RowTyped DEF Acting

LEMMA SelectStep ==
  ASSUME OutboxInv, NEW w \in Workers, Select(w)
  PROVE  OutboxInv'
  <1>1. PICK b : b = Batch
    OBVIOUS
  <1>2. PICK t : t = [NoTx EXCEPT !.batch = b]
    OBVIOUS
  <1>3. tx' = [tx EXCEPT ![w] = t] /\ UNCHANGED <<dbVars, rows, spice, reordered>> /\ tx[w] = NoTx
    BY <1>1, <1>2 DEF Select
  <1>4. b \subseteq {r \in DOMAIN rows : Selectable(r)}
    BY <1>1 DEF Batch
  <1>5. /\ t.batch = b /\ t.phase = "next" /\ t.out = {} /\ t.ok = {} /\ t.failed = {} /\ t.locks = {}
        /\ Holds(t) = b
    BY <1>2 DEF NoTx, Holds
  <1>6. b \subseteq Nat
    BY <1>4, RowTyped DEF OutboxInv
  <1>7. t \in Transactions
    BY <1>2, <1>6 DEF NoTx, Transactions
  <1>8. Becomes(w, t, {}) /\ Typed'
    BY <1>3, <1>5, <1>7, RowsStay DEF OutboxInv, Typed
  <1>9. TxOK(t)'
    BY <1>3, <1>4, <1>5 DEF TxOK, Selectable
  <1>10. \A v \in Workers \ {w} : Apart(tx[v], t)
    BY <1>4, <1>5 DEF Apart, Selectable, Locked, Holds
  <1>11. \A r : ~Acting(t, r)
    BY <1>5 DEF Acting
  <1> QED
    BY <1>8, <1>9, <1>10, <1>11, QuietStep

LEMMA AwaitStep ==
  ASSUME OutboxInv, NEW w \in Workers, NEW r \in tx[w].batch, AwaitLock(w, r)
  PROVE  OutboxInv'
  <1>1. PICK s : s = tx[w]
    OBVIOUS
  <1>2. s \in Transactions
    BY <1>1, OwnTx
  <1>3. PICK t : t = [s EXCEPT !.phase = "wait"]
    OBVIOUS
  <1>4. tx' = [tx EXCEPT ![w] = t] /\ UNCHANGED <<dbVars, rows, spice, reordered>>
    BY <1>1, <1>3 DEF AwaitLock
  <1>5. /\ t \in Transactions /\ t.batch = s.batch /\ t.ok = s.ok /\ t.failed = s.failed
        /\ t.locks = s.locks /\ t.phase = "wait"
    BY <1>2, <1>3 DEF Transactions
  <1>6. Becomes(w, t, {}) /\ Typed'
    BY <1>1, <1>4, <1>5, RowsStay DEF OutboxInv, Typed
  <1>7. \A v \in Workers \ {w} : t.locks \cap tx[v].locks = {}
    BY <1>1, <1>5, OwnTx DEF Apart
  <1>8. TxOK(t)' /\ \A v \in Workers \ {w} : Apart(tx[v], t)
    BY <1>1, <1>4, <1>5, <1>7, SameHolds
  <1>9. \A q : ~Acting(t, q)
    BY <1>5 DEF Acting
  <1> QED
    BY <1>6, <1>8, <1>9, QuietStep

LEMMA BeginSyncStep ==
  ASSUME OutboxInv, NEW w \in Workers, NEW r \in tx[w].batch, BeginSync(w, r)
  PROVE  OutboxInv'
  <1>1. PICK s, d, o : s = tx[w] /\ d = rows[r].key[2] /\ o = {<<"staff", d, u>> : u \in staff[d]}
    OBVIOUS
  <1>2. s \in Transactions /\ Typed
    BY <1>1, OwnTx DEF OutboxInv
  <1>3. r \in DOMAIN rows /\ RowOK(rows[r]) /\ rows[r].key \in Keys
    BY <1>2, OwnTx, RowTyped DEF TxOK, Holds
  <1>4. Wants(w, r) /\ MayLock(w, d)
    BY <1>1 DEF BeginSync
  <1>5. rows[r].op = "SYNC_DEPARTMENT_STAFF" /\ rows[r].key \in StaffKeys
    BY <1>3, <1>4 DEF Wants, RowOK
  <1>6. d \in Depts /\ o = Goal(rows[r].key) /\ o \in SUBSET Relationships /\ rows[r].key[1] = "staff"
    <2>1. d \in Depts /\ rows[r].key[1] = "staff"
      BY <1>1, <1>5, KeyKinds
    <2>2. o = Goal(rows[r].key)
      BY <1>1, <2>1 DEF Goal
    <2>3. staff[d] \subseteq Teachers
      BY <1>2, <2>1 DEF Typed
    <2> QED
      BY <1>1, <2>1, <2>2, <2>3 DEF Relationships
  <1>7. PICK t : t = [s EXCEPT !.phase = "erase", !.locks = s.locks \cup {d}, !.out = o]
    OBVIOUS
  <1>8. tx' = [tx EXCEPT ![w] = t] /\ UNCHANGED <<dbVars, rows, spice, reordered>>
    <2>1. tx' = [tx EXCEPT ![w].phase = "erase", ![w].locks = @ \cup {d}, ![w].out = o]
      BY <1>1 DEF BeginSync
    <2>2. tx' = [tx EXCEPT ![w] = t]
      BY <1>1, <1>2, <1>7, <2>1 DEF Typed
    <2> QED
      BY <2>2 DEF BeginSync
  <1>9. /\ t \in Transactions /\ t.batch = s.batch /\ t.ok = s.ok /\ t.failed = s.failed
        /\ t.locks = s.locks \cup {d} /\ t.phase = "erase" /\ t.out = o
    BY <1>2, <1>6, <1>7 DEF Transactions
  <1>10. Becomes(w, t, {}) /\ Typed'
    BY <1>1, <1>8, <1>9, RowsStay DEF OutboxInv, Typed
  <1>11. \A v \in Workers \ {w} : t.locks \cap tx[v].locks = {}
    <2>1. ASSUME NEW v \in Workers \ {w}
          PROVE  d \notin tx[v].locks /\ s.locks \cap tx[v].locks = {}
      BY <1>1, <1>4, OwnTx DEF Apart, MayLock, LockFree
    <2> QED
      BY <1>9, <2>1
  <1>12. TxOK(t)' /\ \A v \in Workers \ {w} : Apart(tx[v], t)
    <2>1. s.locks \subseteq t.locks
      BY <1>9
    <2> QED
      BY <1>1, <1>8, <1>9, <1>11, <2>1, SameHolds
  <1>13. ASSUME NEW q \in DOMAIN rows, Acting(t, q)
         PROVE  q = r
    BY <1>1, <1>2, <1>3, <1>4, <1>9, <1>13, OneActs DEF Wants, Turn
  <1>14. Applies(t, r)'
    <2>1. \A x \in o : Belongs(x, rows[r].key)
      BY <1>3, <1>6, GoalBelongs
    <2> QED
      BY <1>1, <1>5, <1>8, <1>9, <2>1 DEF Applies, Belongs, StaffKeys
  <1> QED
    BY <1>5, <1>6, <1>9, <1>10, <1>12, <1>13, <1>14, QuietStep

LEMMA BeginStoredStep ==
  ASSUME OutboxInv, NEW w \in Workers, NEW r \in tx[w].batch, BeginStored(w, r)
  PROVE  OutboxInv'
  <1>1. PICK s, x, p : s = tx[w] /\ x = rows[r] /\ p = IF x.op = "TOUCH" THEN "write" ELSE "erase"
    OBVIOUS
  <1>2. s \in Transactions /\ Typed
    BY <1>1, OwnTx DEF OutboxInv
  <1>3. r \in DOMAIN rows /\ RowOK(x) /\ x \in Rows /\ r \in Nat
    BY <1>1, <1>2, OwnTx, RowTyped DEF TxOK, Holds
  <1>4. Turn(w, r) /\ x.op # "SYNC_DEPARTMENT_STAFF" /\ NoteOrder(w, r)
    BY <1>1 DEF BeginStored
  <1>5. x.key \notin StaffKeys /\ x.key \in Keys /\ x.tuples \in SUBSET Relationships
    BY <1>3, <1>4 DEF RowOK, Rows, StaffKeys, MemberKeys, ParentKeys
  <1>6. PICK t : t = [s EXCEPT !.phase = p, !.out = x.tuples]
    OBVIOUS
  <1>7. tx' = [tx EXCEPT ![w] = t] /\ UNCHANGED <<dbVars, rows, spice>>
    <2>1. tx' = [tx EXCEPT ![w].phase = p, ![w].out = x.tuples]
      BY <1>1 DEF BeginStored
    <2>2. tx' = [tx EXCEPT ![w] = t]
      BY <1>1, <1>2, <1>6, <2>1 DEF Typed
    <2> QED
      BY <2>2 DEF BeginStored
  <1>8. /\ t \in Transactions /\ t.batch = s.batch /\ t.ok = s.ok /\ t.failed = s.failed
        /\ t.locks = s.locks /\ t.phase = p /\ t.out = x.tuples
    BY <1>1, <1>2, <1>5, <1>6 DEF Transactions
  <1>9. reordered \subseteq reordered' /\ reordered' \cap StaffKeys = {}
    BY <1>1, <1>2, <1>4, <1>5 DEF NoteOrder, Typed
  <1>10. Becomes(w, t, {}) /\ Typed'
    BY <1>1, <1>2, <1>7, <1>8, <1>9, RowsStay
  <1>11. \A v \in Workers \ {w} : t.locks \cap tx[v].locks = {}
    BY <1>1, <1>8, OwnTx DEF Apart
  <1>12. TxOK(t)' /\ \A v \in Workers \ {w} : Apart(tx[v], t)
    BY <1>1, <1>7, <1>8, <1>11, SameHolds
  <1>13. ASSUME NEW q \in DOMAIN rows, Acting(t, q)
         PROVE  q = r
    BY <1>1, <1>2, <1>3, <1>4, <1>8, <1>13, OneActs DEF Turn
  <1>14. Applies(t, r)'
    BY <1>1, <1>3, <1>4, <1>5, <1>7, <1>8 DEF Applies, Belongs, StaffKeys, RowOK
  <1>15. ASSUME x.key \notin reordered', NEW q \in DOMAIN rows
         PROVE  After(t, r, q)
    <2>1. {y \in 1..(r - 1) : rows[y].key = x.key /\ ~rows[y].done} \subseteq s.ok
      BY <1>1, <1>4, <1>15 DEF NoteOrder
    <2>2. q \in Nat /\ q # 0
      BY <1>2, RowTyped
    <2>3. q < r => q \in 1..(r - 1)
      BY <1>3, <2>2
    <2> QED
      BY <1>1, <1>8, <2>1, <2>3 DEF After
  <1> QED
    BY <1>1, <1>5, <1>10, <1>12, <1>13, <1>14, <1>15, QuietStep

-----------------------------------------------------------------------------
(* Calls.  The calls for one key that nothing overtook do not interleave.  *)
LEMMA Exclusive ==
  ASSUME OutboxInv, NEW w \in Workers, NEW v \in Workers \ {w}, NEW r \in DOMAIN rows, NEW q \in DOMAIN rows,
         Acting(tx[w], r), Acting(tx[v], q), rows[q].key = rows[r].key, rows[r].key \notin reordered
  PROVE  FALSE
  <1>1. TxOK(tx[w]) /\ TxOK(tx[v]) /\ Apart(tx[v], tx[w])
    BY OwnTx
  <1>2. ~rows[r].done /\ ~rows[q].done /\ q # r /\ q \notin tx[w].ok /\ r \notin tx[v].ok
    BY <1>1 DEF Acting, TxOK, Apart, Holds
  <1>3. CASE rows[r].key \in StaffKeys
    BY <1>1, <1>3 DEF OutboxInv, Applies, Apart
  <1>4. CASE rows[r].key \notin StaffKeys
    <2>1. After(tx[w], r, q) /\ After(tx[v], q, r)
      BY <1>4 DEF OutboxInv, Ordered
    <2>2. q < r \/ r < q
      BY <1>2, RowTyped DEF OutboxInv
    <2> QED
      BY <1>2, <2>1, <2>2 DEF After
  <1> QED
    BY <1>3, <1>4

LEMMA NotApplied ==
  ASSUME OutboxInv, NEW w \in Workers, NEW r \in DOMAIN rows, r \in tx[w].batch \cup tx[w].failed
  PROVE  ~App(r)
  <1>1. TxOK(tx[w]) /\ \A v \in Workers \ {w} : Apart(tx[v], tx[w])
    BY OwnTx
  <1> QED
    BY <1>1 DEF TxOK, Apart, Holds, App

LEMMA NoneAfter ==
  ASSUME OutboxInv, NEW w \in Workers, NEW r \in DOMAIN rows, NEW q \in DOMAIN rows,
         Acting(tx[w], r), r < q, rows[q].key = rows[r].key, rows[r].key \notin reordered \cup StaffKeys
  PROVE  ~App(q)
  <1>1. ~App(r)
    BY NotApplied DEF Acting
  <1>2. \A v \in Workers : q \in tx[v].ok => After(tx[v], q, r)
    BY DEF OutboxInv, Ordered
  <1>3. rows[q].done => rows[r].done
    BY DEF OutboxInv, Ordered
  <1> QED
    BY <1>1, <1>2, <1>3 DEF App, After

LEMMA CallEffect ==
  ASSUME OutboxInv, NEW w \in Workers, NEW r \in DOMAIN rows, Acting(tx[w], r), spice' = Applied(w, r),
         NEW k, k = rows[r].key
  PROVE  /\ \A m \in Keys : m # k => At(m)' = At(m)
         /\ At(k)' = IF tx[w].phase = "erase" THEN {} ELSE At(k) \cup tx[w].out
  <1>1. rows[r] \in Rows /\ RowOK(rows[r]) /\ k \in Keys
    BY RowTyped DEF OutboxInv
  <1>2. Applies(tx[w], r)
    BY DEF OutboxInv
  <1>3. CASE tx[w].phase = "erase"
    <2>1. Erased(rows[r]) = At(k)
      BY <1>1, <1>2, <1>3, ErasedAll DEF Applies
    <2>2. spice' = spice \ At(k)
      BY <1>3, <2>1 DEF Applied
    <2>3. \A m \in Keys : m # k => At(m)' = At(m)
      BY <1>1, <2>2, OneKey DEF At
    <2> QED
      BY <1>3, <2>2, <2>3 DEF At
  <1>4. CASE tx[w].phase # "erase"
    <2>1. spice' = spice \cup tx[w].out
      BY <1>4 DEF Applied
    <2>2. \A x \in tx[w].out : Belongs(x, k)
      BY <1>2 DEF Applies
    <2>3. \A m \in Keys : m # k => At(m)' = At(m)
      BY <1>1, <2>1, <2>2, OneKey DEF At
    <2> QED
      BY <1>4, <2>1, <2>2, <2>3 DEF At
  <1> QED
    BY <1>3, <1>4

(* A call for row r of key k takes the transaction of w from s to t.       *)
Answered(s, k) == IF s.phase = "erase" THEN {} ELSE At(k) \cup s.out
Called(w, s, t, r, k) ==
    /\ s = tx[w] /\ k = rows[r].key /\ Acting(s, r)
    /\ tx' = [tx EXCEPT ![w] = t] /\ UNCHANGED <<dbVars, rows, reordered>>
    /\ Holds(t) = Holds(s) /\ t.locks = s.locks
    /\ t.batch \cap t.ok = {} /\ t.batch \cap t.failed = {} /\ t.ok \cap t.failed = {}
    /\ t.ok \in {s.ok, s.ok \cup {r}}
    /\ \A m \in Keys : m # k => At(m)' = At(m)
    /\ At(k)' \in {At(k), Answered(s, k)}
    /\ r \in t.ok => At(k)' = Answered(s, k) /\ (s.phase = "erase" => s.out = {})
    /\ \/ \A q : ~Acting(t, q)
       \/ /\ t.batch = s.batch /\ t.out = s.out /\ t.ok = s.ok
          /\ s.phase = "erase" /\ t.phase = "write" /\ s.out # {} /\ At(k)' = {}

LEMMA CalledTx ==
  ASSUME OutboxInv, NEW w \in Workers, NEW s, NEW t \in Transactions, NEW r \in DOMAIN rows, NEW k,
         Called(w, s, t, r, k)
  PROVE  /\ Typed' /\ Owned' /\ \A v \in Workers : tx'[v] = IF v = w THEN t ELSE tx[v]
         /\ \A q \in DOMAIN rows : App(q)' <=> App(q) \/ (q = r /\ r \in t.ok)
         /\ \A q \in DOMAIN rows : Acting(t, q) => q = r
         /\ k \in Keys /\ Applies(s, r)
  <1>1. \A v \in Workers : tx'[v] = IF v = w THEN t ELSE tx[v]
    <2>1. tx' = [tx EXCEPT ![w] = t]
      BY DEF Called
    <2> QED
      BY <2>1, TxTyped DEF OutboxInv
  <1>2. UNCHANGED <<staff, member, parent, narrowed, rows, reordered>>
    BY DEF Called, dbVars
  <1>3. k \in Keys /\ Applies(s, r) /\ s \in Transactions /\ TxOK(s)
    BY RowTyped, OwnTx DEF OutboxInv, Called
  <1>4. tx' \in [Workers -> Transactions]
    BY DEF OutboxInv, Typed, Called
  <1>5. Typed'
    BY <1>2, <1>4 DEF OutboxInv, Typed, RowOK, Belongs, StaffKeys
  <1>6. TxOK(t)'
    <2>1. \A q \in Holds(t) : q \in DOMAIN rows /\ ~rows[q].done
      BY <1>3 DEF Called, TxOK
    <2>2. \A q \in t.ok : rows[q].key \in StaffKeys => rows[q].key[2] \in t.locks
      BY <1>3 DEF Called, TxOK, Applies
    <2> QED
      BY <1>2, <2>1, <2>2 DEF TxOK, StaffKeys, Called
  <1>7. \A v \in Workers \ {w} : TxOK(tx[v])' /\ Apart(tx[v], t)
    <2>1. \A v \in Workers \ {w} : tx'[v] = tx[v] /\ TxOK(tx[v]) /\ Apart(tx[v], s)
      BY <1>1, OwnTx DEF Called
    <2> QED
      BY <1>2, <2>1 DEF TxOK, StaffKeys, Apart, Called
  <1>8. Owned'
    <2>1. \A v \in Workers : TxOK(tx[v])'
      BY <1>1, <1>6, <1>7 DEF TxOK
    <2>2. ASSUME NEW v \in Workers, NEW u \in Workers \ {v}
          PROVE  Apart(tx[u], tx[v])'
      <3>1. Apart(tx[u], tx[v]) /\ (v = w => Apart(tx[u], t)) /\ (u = w => Apart(tx[v], t))
        BY <1>7 DEF OutboxInv, Owned
      <3> QED
        BY <1>1, <3>1 DEF Apart
    <2> QED
      BY <2>1, <2>2 DEF Owned
  <1>9. ASSUME NEW q \in DOMAIN rows
        PROVE  App(q)' <=> App(q) \/ (q = r /\ r \in t.ok)
    BY <1>1, <1>2 DEF App, Called
  <1>10. ASSUME NEW q \in DOMAIN rows, Acting(t, q)
         PROVE  q = r
    <2>1. t.batch = s.batch /\ Acting(s, r)
      BY <1>10 DEF Called
    <2> QED
      BY <1>10, <2>1, OneActs DEF OutboxInv, Acting
  <1> QED
    BY <1>1, <1>3, <1>5, <1>8, <1>9, <1>10

LEMMA CalledApplies ==
  ASSUME OutboxInv, NEW w \in Workers, NEW s, NEW t \in Transactions, NEW r \in DOMAIN rows, NEW k,
         Called(w, s, t, r, k)
  PROVE  /\ \A v \in Workers : \A q \in DOMAIN rows' : Acting(tx[v], q)' => Applies(tx[v], q)'
         /\ Ordered'
  <1>1. UNCHANGED <<rows, reordered>> /\ s = tx[w] /\ k = rows[r].key /\ Acting(s, r)
    BY DEF Called
  <1>2. \A v \in Workers : tx'[v] = IF v = w THEN t ELSE tx[v]
    BY CalledTx
  <1>3. ASSUME NEW v \in Workers, NEW q \in DOMAIN rows', Acting(tx[v], q)'
        PROVE  Applies(tx[v], q)'
    <2>1. PICK u, m : u = tx'[v] /\ m = rows[q].key
      OBVIOUS
    <2>2. q \in DOMAIN rows /\ Acting(u, q) /\ rows'[q].key = m /\ m \in Keys
      BY <1>1, <1>3, <2>1, RowTyped DEF Acting, OutboxInv
    <2>3. CASE v = w
      <3>1. u = t /\ q = r /\ m = k
        <4>1. u = t
          BY <1>2, <2>1, <2>3
        <4>2. q = r
          BY <2>2, <4>1, CalledTx
        <4> QED
          BY <1>1, <2>1, <4>1, <4>2
      <3>2. /\ t.out = s.out /\ s.phase = "erase" /\ t.phase = "write" /\ s.out # {} /\ At(k)' = {}
            /\ t.locks = s.locks
        BY <2>2, <3>1 DEF Called
      <3>3. Applies(s, r) /\ RowOK(rows[r])
        BY CalledTx, RowTyped DEF OutboxInv
      <3>4. /\ rows[q].key \in StaffKeys => rows[q].key[2] \in u.locks
            /\ \A x \in u.out : Belongs(x, rows[q].key)
            /\ rows[q].op # "SYNC_DEPARTMENT_STAFF" => u.out = rows[q].tuples
            /\ rows[q].op # "TOUCH" /\ rows[q].op # "DELETE_BY_SUBJECT"
        BY <3>1, <3>2, <3>3 DEF Applies, RowOK
      <3> QED
        BY <1>1, <2>1, <2>2, <3>1, <3>2, <3>4 DEF Applies, StaffKeys, Belongs, At
    <2>4. CASE v # w
      <3>1. u = tx[v] /\ Applies(u, q)
        BY <1>2, <2>1, <2>2, <2>4 DEF OutboxInv
      <3>2. m \in reordered \/ m # k
        BY <1>1, <2>1, <2>2, <2>4, <3>1, Exclusive
      <3>3. m \in reordered \/ At(m)' = At(m)
        BY <2>2, <3>2 DEF Called
      <3> QED
        BY <1>1, <2>1, <2>2, <3>1, <3>3 DEF Applies, StaffKeys, Belongs, At
    <2> QED
      BY <2>3, <2>4
  <1>4. Ordered'
    <2> SUFFICES ASSUME NEW p \in DOMAIN rows, NEW q \in DOMAIN rows, rows[p].key \notin reordered \cup StaffKeys,
                        q < p, rows[q].key = rows[p].key
                 PROVE  /\ rows[p].done => rows[q].done
                        /\ \A v \in Workers : p \in tx'[v].ok \/ Acting(tx'[v], p) => rows[q].done \/ q \in tx'[v].ok
      BY <1>1 DEF Ordered, After, StaffKeys
    <2>1. /\ rows[p].done => rows[q].done
          /\ \A v \in Workers : p \in tx[v].ok \/ Acting(tx[v], p) => rows[q].done \/ q \in tx[v].ok
      BY DEF OutboxInv, Ordered, After
    <2>2. ASSUME NEW v \in Workers, p \in tx'[v].ok \/ Acting(tx'[v], p)
          PROVE  rows[q].done \/ q \in tx'[v].ok
      <3>1. CASE v # w
        BY <1>2, <2>1, <2>2, <3>1
      <3>2. CASE v = w
        <4>1. s.ok \subseteq t.ok /\ (p \in t.ok => p \in s.ok \/ p = r)
          BY DEF Called
        <4>2. p \in s.ok \/ p = r
          BY <1>2, <2>2, <3>2, <4>1, CalledTx
        <4> QED
          BY <1>1, <1>2, <2>1, <3>2, <4>1, <4>2
      <3> QED
        BY <3>1, <3>2
    <2> QED
      BY <2>1, <2>2
  <1> QED
    BY <1>3, <1>4

LEMMA CalledStaff ==
  ASSUME OutboxInv, NEW w \in Workers, NEW s, NEW t \in Transactions, NEW r \in DOMAIN rows, NEW k,
         Called(w, s, t, r, k)
  PROVE  StaffInv'
  <1>1. /\ UNCHANGED <<staff, member, parent, rows, reordered>> /\ s = tx[w] /\ k = rows[r].key /\ Acting(s, r)
        /\ \A v \in Workers : tx'[v] = IF v = w THEN t ELSE tx[v]
    <2>1. \A v \in Workers : tx'[v] = IF v = w THEN t ELSE tx[v]
      BY CalledTx
    <2> QED
      BY <2>1 DEF Called, dbVars
  <1>2. \A m : Goal(m)' = Goal(m)
    BY <1>1 DEF Goal
  <1>3. ASSUME NEW m, NEW b, Waiting(m, b), m # k \/ r \in b \/ t.ok = s.ok
        PROVE  Waiting(m, b)'
    <2>1. PICK q \in DOMAIN rows : rows[q].key = m /\ ~App(q) /\ q \notin b
      BY <1>3 DEF Waiting
    <2>2. r \notin s.ok
      BY <1>1, NotApplied DEF Acting, App
    <2>3. ~App(q)'
      <3>1. App(q)' <=> App(q) \/ (q = r /\ r \in t.ok)
        BY CalledTx
      <3> QED
        BY <1>1, <1>3, <2>1, <2>2, <3>1
    <2> QED
      BY <1>1, <2>1, <2>3 DEF Waiting
  <1>4. ASSUME NEW m \in StaffKeys
        PROVE  At(m)' = Goal(m)' \/ Waiting(m, {})'
    <2>1. CASE m # k
      <3>1. At(m)' = At(m)
        BY <2>1 DEF Called, Keys
      <3> QED
        BY <1>2, <1>3, <2>1, <3>1 DEF OutboxInv, StaffInv
    <2>2. CASE m = k /\ r \notin t.ok
      <3>1. ~App(r)'
        BY <1>1, <2>2, NotApplied, CalledTx DEF Acting
      <3> QED
        BY <1>1, <2>2, <3>1 DEF Waiting
    <2>3. CASE m = k /\ r \in t.ok
      <3>1. CASE Waiting(k, s.batch)
        <4>1. Waiting(k, s.batch)'
          BY <1>1, <1>3, <3>1 DEF Acting
        <4> QED
          BY <2>3, <4>1 DEF Waiting
      <3>2. CASE s.out = Goal(k)
        <4>1. At(k)' = Answered(s, k) /\ (s.phase = "erase" => s.out = {})
          BY <2>3 DEF Called
        <4>2. Applies(s, r) /\ RowOK(rows[r]) /\ k \notin reordered /\ k \in StaffKeys
          BY <2>3, CalledTx, RowTyped DEF OutboxInv, Typed
        <4>3. s.phase # "erase" => At(k) = {}
          <5>1. rows[r].op # "TOUCH"
            BY <1>1, <4>2 DEF RowOK, StaffKeys, MemberKeys, ParentKeys
          <5> QED
            BY <1>1, <4>2, <5>1 DEF Applies, Acting
        <4> QED
          BY <1>2, <2>3, <3>2, <4>1, <4>3 DEF Answered
      <3> QED
        BY <1>1, <2>3, <3>1, <3>2 DEF OutboxInv, StaffInv
    <2> QED
      BY <2>1, <2>2, <2>3
  <1>5. ASSUME NEW v \in Workers, NEW q \in DOMAIN rows', Acting(tx[v], q)', rows'[q].key \in StaffKeys
        PROVE  (tx[v].out = Goal(rows[q].key) \/ Waiting(rows[q].key, tx[v].batch))'
    <2>1. PICK u, m : u = tx'[v] /\ m = rows[q].key
      OBVIOUS
    <2>2. q \in DOMAIN rows /\ rows'[q].key = m /\ m \in StaffKeys /\ m \notin reordered /\ Acting(u, q)
      BY <1>1, <1>5, <2>1 DEF Acting, OutboxInv, Typed
    <2>3. u.out = Goal(m) \/ Waiting(m, u.batch)'
      <3>1. CASE v # w
        <4>1. u = tx[v] /\ m # k
          BY <1>1, <2>1, <2>2, <3>1, Exclusive
        <4> QED
          BY <1>3, <2>1, <2>2, <4>1 DEF OutboxInv, StaffInv
      <3>2. CASE v = w
        <4>1. u = t /\ q = r /\ m = k
          <5>1. u = t
            BY <1>1, <2>1, <3>2
          <5>2. q = r
            BY <2>2, <5>1, CalledTx
          <5> QED
            BY <1>1, <2>1, <5>1, <5>2
        <4>2. t.batch = s.batch /\ t.out = s.out /\ t.ok = s.ok
          BY <2>2, <4>1 DEF Called
        <4> QED
          BY <1>1, <1>3, <2>2, <4>1, <4>2 DEF OutboxInv, StaffInv
      <3> QED
        BY <3>1, <3>2
    <2>4. u.out = Goal(m)' \/ Waiting(m, u.batch)'
      BY <1>2, <2>3
    <2> QED
      BY <2>1, <2>2, <2>4 DEF Waiting, Goal
  <1> QED
    BY <1>4, <1>5 DEF StaffInv, StaffKeys, Acting

LEMMA CalledStored ==
  ASSUME OutboxInv, NEW w \in Workers, NEW s, NEW t \in Transactions, NEW r \in DOMAIN rows, NEW k,
         Called(w, s, t, r, k)
  PROVE  StoredInv'
  <1>1. /\ UNCHANGED <<staff, member, parent, narrowed, rows, reordered>>
        /\ s = tx[w] /\ k = rows[r].key /\ Acting(s, r) /\ r \in s.batch
    BY DEF Called, dbVars, Acting
  <1>2. \A q \in DOMAIN rows : App(q)' <=> App(q) \/ (q = r /\ r \in t.ok)
    BY CalledTx
  <1> SUFFICES ASSUME NEW m \in MemberKeys \cup ParentKeys, Followed(m)'
               PROVE  \E e \in Nat : Follows(m, e)'
    BY DEF StoredInv, MemberKeys, ParentKeys
  <1>3. Followed(m) /\ m \in Keys /\ m \notin StaffKeys
    BY <1>1 DEF Followed, MemberKeys, ParentKeys, StaffKeys, Keys
  <1>4. PICK e \in Nat : Follows(m, e)
    BY <1>3 DEF OutboxInv, StoredInv
  <1>5. Goal(m)' = Goal(m)
    BY <1>1 DEF Goal
  <1>6. Last(m, e) /\ Last(m, e)'
    BY <1>1, <1>4 DEF Follows, Last
  <1>7. Brings(m, e) => Brings(m, e)'
    BY <1>1, <1>5 DEF Brings
  <1>8. CASE m # k
    <2>1. At(m)' = At(m)
      BY <1>3, <1>8 DEF Called
    <2>2. \A q \in DOMAIN rows : rows[q].key = m => (App(q)' <=> App(q))
      BY <1>1, <1>2, <1>8
    <2>3. Agrees(m, e) => Agrees(m, e)'
      BY <1>1, <1>5, <2>1, <2>2 DEF Agrees
    <2>4. e = 0 \/ App(e)' => e = 0 \/ App(e)
      BY <1>6, <2>2 DEF Last
    <2>5. e = 0 /\ m \in ParentKeys => At(m)' = Goal(m)' /\ \A q \in DOMAIN rows : rows[q].key # m
      BY <1>4, <1>5, <2>1 DEF Follows
    <2> QED
      BY <1>1, <1>4, <1>6, <1>7, <2>3, <2>4, <2>5 DEF Follows, MemberKeys, ParentKeys
  <1>9. CASE m = k
    <2>1. ~(e = 0 /\ m \in ParentKeys)
      BY <1>1, <1>4, <1>9 DEF Follows
    <2>2. Brings(m, e)
      BY <1>4, <2>1 DEF Follows
    <2>3. /\ Applies(s, r) /\ RowOK(rows[r]) /\ rows[r].op # "SYNC_DEPARTMENT_STAFF" /\ s.out = rows[r].tuples
          /\ r \in Nat /\ r # 0 /\ ~App(r)
      <3>1. Applies(s, r) /\ RowOK(rows[r]) /\ r \in Nat /\ r # 0 /\ ~App(r)
        BY <1>1, CalledTx, RowTyped, NotApplied DEF OutboxInv
      <3>2. rows[r].op # "SYNC_DEPARTMENT_STAFF"
        BY <1>1, <1>3, <1>9, <3>1 DEF RowOK, StaffKeys, MemberKeys, ParentKeys
      <3> QED
        BY <3>1, <3>2 DEF Applies
    <2>4. \A q \in DOMAIN rows : q > r /\ rows[q].key = m => ~App(q)
      <3>1. rows[r].key \notin reordered \cup StaffKeys
        BY <1>1, <1>3, <1>9 DEF Followed
      <3> QED
        BY <1>1, <1>9, <2>3, <3>1, RowTyped, NoneAfter DEF OutboxInv
    <2>5. /\ At(m)' \in {At(m), Answered(s, m)}
          /\ r \in t.ok => At(m)' = Answered(s, m) /\ (s.phase = "erase" => s.out = {})
      BY <1>9 DEF Called
    <2>6. ASSUME e = 0 \/ App(e)'
          PROVE  Agrees(m, e)'
      <3>1. CASE r > e
        <4>1. rows[r].op = "TOUCH"
          BY <1>1, <1>6, <1>9, <3>1 DEF Last
        <4>2. s.phase = "write" /\ Answered(s, m) = At(m) \cup rows[r].tuples
          BY <2>3, <4>1 DEF Applies, Answered
        <4>3. Agrees(m, e)
          <5>1. e # 0 => e \in DOMAIN rows /\ e # r
            BY <1>6, <3>1, <2>3 DEF Last
          <5>2. e = 0 \/ App(e)
            BY <1>2, <2>6, <5>1
          <5> QED
            BY <1>4, <5>2 DEF Follows
        <4>4. rows[r].tuples \subseteq Goal(m)
          BY <1>1, <1>9, <2>2, <2>3, <3>1 DEF Brings
        <4>5. At(m)' \subseteq Goal(m) /\ At(m) \subseteq At(m)'
          BY <2>5, <4>2, <4>3, <4>4 DEF Agrees
        <4>6. ASSUME NEW q \in DOMAIN rows, q >= e, rows[q].key = m, App(q)'
              PROVE  rows[q].tuples \subseteq At(m)'
          <5>1. CASE App(q)
            BY <4>3, <4>5, <4>6, <5>1 DEF Agrees
          <5>2. CASE q = r /\ r \in t.ok
            BY <2>5, <4>2, <5>2
          <5> QED
            BY <1>2, <4>6, <5>1, <5>2
        <4> QED
          BY <1>1, <1>5, <4>5, <4>6 DEF Agrees
      <3>2. CASE r = e
        <4>1. e # 0 /\ rows[r].op # "TOUCH" /\ r \in t.ok
          BY <1>2, <1>6, <2>3, <2>6, <3>2 DEF Last
        <4>2. s.phase # "erase" => At(m) = {}
          BY <1>1, <1>3, <1>9, <2>3, <4>1 DEF Applies, Acting, Followed
        <4>3. At(m)' = rows[r].tuples
          BY <2>3, <2>5, <4>1, <4>2 DEF Answered
        <4>4. rows[r].tuples \subseteq Goal(m)
          BY <1>1, <1>9, <2>2, <2>3, <3>2 DEF Brings
        <4>5. ASSUME NEW q \in DOMAIN rows, q >= e, rows[q].key = m, App(q)'
              PROVE  q = r
          <5>1. q \in Nat /\ (q > r \/ q = r)
            BY <3>2, <4>5, <2>3, RowTyped DEF OutboxInv
          <5> QED
            BY <1>2, <2>4, <4>5, <5>1
        <4> QED
          BY <1>1, <1>5, <4>3, <4>4, <4>5 DEF Agrees
      <3>3. CASE r < e
        <4>1. e \in DOMAIN rows /\ rows[e].key = m /\ e > r
          BY <1>6, <2>3, <3>3 DEF Last
        <4>2. App(e)
          BY <1>2, <2>3, <2>6, <3>3, <4>1
        <4> QED
          BY <2>4, <4>1, <4>2
      <3> QED
        BY <2>3, <3>1, <3>2, <3>3
    <2> QED
      BY <1>6, <1>7, <2>1, <2>2, <2>6 DEF Follows, ParentKeys, MemberKeys
  <1> QED
    BY <1>8, <1>9

LEMMA CalledStep ==
  ASSUME OutboxInv, NEW w \in Workers, NEW s, NEW t \in Transactions, NEW r \in DOMAIN rows, NEW k,
         Called(w, s, t, r, k)
  PROVE  OutboxInv'
  BY CalledTx, CalledApplies, CalledStaff, CalledStored DEF OutboxInv

LEMMA CallOKStep ==
  ASSUME OutboxInv, NEW w \in Workers, NEW r \in tx[w].batch, CallOK(w, r)
  PROVE  OutboxInv'
  <1>1. PICK s, k : s = tx[w] /\ k = rows[r].key
    OBVIOUS
  <1>2. s \in Transactions /\ TxOK(s) /\ r \in DOMAIN rows /\ Acting(s, r)
    BY <1>1, OwnTx DEF TxOK, Holds, CallOK, Turn, Acting
  <1>3. /\ \A m \in Keys : m # k => At(m)' = At(m)
        /\ At(k)' = Answered(s, k)
    <2>1. spice' = Applied(w, r)
      BY DEF CallOK
    <2>2. /\ \A m \in Keys : m # k => At(m)' = At(m)
          /\ At(k)' = IF tx[w].phase = "erase" THEN {} ELSE At(k) \cup tx[w].out
      BY <1>1, <1>2, <2>1, CallEffect
    <2> QED
      BY <1>1, <2>2 DEF Answered
  <1>4. UNCHANGED <<dbVars, rows, reordered>>
    BY DEF CallOK
  <1>5. CASE s.phase = "erase" /\ s.out # {}
    <2>1. PICK t : t = [s EXCEPT !.phase = "write"]
      OBVIOUS
    <2>2. tx' = [tx EXCEPT ![w] = t]
      BY <1>1, <1>5, <2>1 DEF CallOK
    <2>3. /\ t \in Transactions /\ t.batch = s.batch /\ t.ok = s.ok /\ t.failed = s.failed
          /\ t.locks = s.locks /\ t.phase = "write" /\ t.out = s.out
      BY <1>2, <2>1 DEF Transactions
    <2>4. Called(w, s, t, r, k)
      BY <1>1, <1>2, <1>3, <1>4, <1>5, <2>2, <2>3 DEF Called, Holds, Answered, TxOK
    <2> QED
      BY <1>2, <2>3, <2>4, CalledStep
  <1>6. CASE ~(s.phase = "erase" /\ s.out # {})
    <2>1. PICK t : t = [s EXCEPT !.batch = s.batch \ {r}, !.phase = "next", !.out = {}, !.ok = s.ok \cup {r}]
      OBVIOUS
    <2>2. tx' = [tx EXCEPT ![w] = t]
      <3>1. tx' = [tx EXCEPT ![w].batch = @ \ {r}, ![w].phase = "next", ![w].out = {}, ![w].ok = @ \cup {r}]
        BY <1>1, <1>6 DEF CallOK
      <3> QED
        BY <1>1, <1>2, <2>1, <3>1 DEF OutboxInv, Typed
    <2>3. /\ t \in Transactions /\ t.batch = s.batch \ {r} /\ t.ok = s.ok \cup {r} /\ t.failed = s.failed
          /\ t.locks = s.locks /\ t.phase = "next"
      <3>1. r \in Nat
        BY <1>2, RowTyped DEF OutboxInv
      <3> QED
        BY <1>2, <2>1, <3>1 DEF Transactions
    <2>4. Holds(t) = Holds(s) /\ \A q : ~Acting(t, q)
      BY <1>1, <2>3 DEF Holds, Acting
    <2>5. t.batch \cap t.ok = {} /\ t.batch \cap t.failed = {} /\ t.ok \cap t.failed = {}
      BY <1>1, <1>2, <2>3 DEF TxOK
    <2>6. Called(w, s, t, r, k)
      BY <1>1, <1>2, <1>3, <1>4, <1>6, <2>2, <2>3, <2>4, <2>5 DEF Called
    <2> QED
      BY <1>2, <2>3, <2>6, CalledStep
  <1> QED
    BY <1>5, <1>6

LEMMA CallErrorStep ==
  ASSUME OutboxInv, NEW w \in Workers, NEW r \in tx[w].batch, CallError(w, r)
  PROVE  OutboxInv'
  <1>1. PICK s, k : s = tx[w] /\ k = rows[r].key
    OBVIOUS
  <1>2. s \in Transactions /\ TxOK(s) /\ r \in DOMAIN rows /\ Acting(s, r)
    BY <1>1, OwnTx DEF TxOK, Holds, CallError, Turn, Acting
  <1>3. /\ \A m \in Keys : m # k => At(m)' = At(m)
        /\ At(k)' \in {At(k), Answered(s, k)}
    <2>1. CASE spice' = Applied(w, r)
      <3>1. /\ \A m \in Keys : m # k => At(m)' = At(m)
            /\ At(k)' = IF tx[w].phase = "erase" THEN {} ELSE At(k) \cup tx[w].out
        BY <1>1, <1>2, <2>1, CallEffect
      <3> QED
        BY <1>1, <3>1 DEF Answered
    <2>2. CASE spice' = spice
      BY <2>2 DEF At
    <2> QED
      BY <2>1, <2>2 DEF CallError
  <1>4. UNCHANGED <<dbVars, rows, reordered>>
    BY DEF CallError
  <1>5. PICK t : t = [s EXCEPT !.batch = s.batch \ {r}, !.phase = "next", !.out = {}, !.failed = s.failed \cup {r}]
    OBVIOUS
  <1>6. tx' = [tx EXCEPT ![w] = t]
    <2>1. tx' = [tx EXCEPT ![w].batch = @ \ {r}, ![w].phase = "next", ![w].out = {}, ![w].failed = @ \cup {r}]
      BY DEF CallError
    <2> QED
      BY <1>1, <1>2, <1>5, <2>1 DEF OutboxInv, Typed
  <1>7. /\ t \in Transactions /\ t.batch = s.batch \ {r} /\ t.ok = s.ok /\ t.failed = s.failed \cup {r}
        /\ t.locks = s.locks /\ t.phase = "next"
    <2>1. r \in Nat
      BY <1>2, RowTyped DEF OutboxInv
    <2> QED
      BY <1>2, <1>5, <2>1 DEF Transactions
  <1>8. Holds(t) = Holds(s) /\ \A q : ~Acting(t, q)
    BY <1>1, <1>7 DEF Holds, Acting
  <1>9. t.batch \cap t.ok = {} /\ t.batch \cap t.failed = {} /\ t.ok \cap t.failed = {} /\ r \notin t.ok
    BY <1>1, <1>2, <1>7 DEF TxOK
  <1>10. Called(w, s, t, r, k)
    BY <1>1, <1>2, <1>3, <1>4, <1>6, <1>7, <1>8, <1>9 DEF Called
  <1> QED
    BY <1>2, <1>7, <1>10, CalledStep

-----------------------------------------------------------------------------
(* Producers append rows to the outbox. *)
Appends(new) ==
    /\ new \in Seq(Rows) /\ \A i \in DOMAIN new : RowOK(new[i]) /\ new[i].done = FALSE
    /\ rows' = rows \o new
    /\ UNCHANGED <<spice, tx, reordered>>

LEMMA AppendedRows ==
  ASSUME Typed, NEW new, Appends(new), NEW n, n = Len(rows)
  PROVE  /\ n \in Nat /\ DOMAIN rows = 1..n /\ rows' \in Seq(Rows)
         /\ \A r \in DOMAIN rows : r \in DOMAIN rows' /\ rows'[r] = rows[r]
         /\ \A i \in DOMAIN new : i \in Nat /\ i # 0 /\ n + i \in DOMAIN rows' /\ rows'[n + i] = new[i]
         /\ \A r \in DOMAIN rows' : r \in Nat /\ (r \in DOMAIN rows \/ \E i \in DOMAIN new : r = n + i)
  <1>1. rows \in Seq(Rows) /\ new \in Seq(Rows) /\ rows' = rows \o new
    BY DEF Typed, Appends
  <1>2. n \in Nat /\ DOMAIN rows = 1..n /\ rows' \in Seq(Rows)
    BY <1>1
  <1>3. PICK m \in Nat : DOMAIN new = 1..m /\ m = Len(new)
    BY <1>1
  <1>4. DOMAIN rows' = 1..(n + m)
    BY <1>1, <1>2, <1>3
  <1>5. \A r \in DOMAIN rows : r \in DOMAIN rows' /\ rows'[r] = rows[r]
    BY <1>1, <1>2, <1>4
  <1>6. ASSUME NEW i \in DOMAIN new
        PROVE  i \in Nat /\ i # 0 /\ n + i \in DOMAIN rows' /\ rows'[n + i] = new[i]
    <2>1. i \in 1..m /\ i \in Nat
      BY <1>3
    <2>2. n + i \in 1..(n + m) /\ n + i > n /\ (n + i) - n = i
      BY <1>2, <2>1
    <2> QED
      BY <1>1, <1>2, <1>3, <1>4, <2>1, <2>2
  <1>7. ASSUME NEW r \in DOMAIN rows'
        PROVE  r \in Nat /\ (r \in DOMAIN rows \/ \E i \in DOMAIN new : r = n + i)
    <2>1. r \in 1..(n + m)
      BY <1>4
    <2>2. r \in 1..n \/ (r - n \in 1..m /\ r = n + (r - n))
      BY <1>2, <2>1
    <2> QED
      BY <1>2, <1>3, <2>1, <2>2
  <1> QED
    BY <1>2, <1>5, <1>6, <1>7

LEMMA AppendedApp ==
  ASSUME OutboxInv, NEW new, Appends(new), NEW n, n = Len(rows)
  PROVE  /\ \A r \in DOMAIN rows : r <= n /\ (App(r)' <=> App(r))
         /\ \A i \in DOMAIN new : ~App(n + i)' /\ n + i \notin DOMAIN rows
         /\ \A w \in Workers : Holds(tx[w]) \subseteq DOMAIN rows
         /\ \A k : At(k)' = At(k)
  <1>1. /\ n \in Nat /\ DOMAIN rows = 1..n
        /\ \A r \in DOMAIN rows : r \in DOMAIN rows' /\ rows'[r] = rows[r]
        /\ \A i \in DOMAIN new : i \in Nat /\ i # 0 /\ n + i \in DOMAIN rows' /\ rows'[n + i] = new[i]
    BY AppendedRows DEF OutboxInv
  <1>2. tx' = tx /\ spice' = spice /\ \A i \in DOMAIN new : new[i].done = FALSE
    BY DEF Appends
  <1>3. \A w \in Workers : Holds(tx[w]) \subseteq DOMAIN rows
    BY OwnTx DEF TxOK
  <1>4. \A r \in DOMAIN rows : r <= n /\ (App(r)' <=> App(r))
    BY <1>1, <1>2 DEF App
  <1>5. ASSUME NEW i \in DOMAIN new
        PROVE  ~App(n + i)' /\ n + i \notin DOMAIN rows
    <2>1. PICK r : r = n + i
      OBVIOUS
    <2>2. r \notin DOMAIN rows /\ ~rows'[r].done
      BY <1>1, <1>2, <2>1
    <2>3. ~App(r)'
      BY <1>2, <1>3, <2>2 DEF App, Holds
    <2> QED
      BY <2>1, <2>2, <2>3 DEF App
  <1>6. \A k : At(k)' = At(k)
    BY <1>2 DEF At
  <1> QED
    BY <1>3, <1>4, <1>5, <1>6

LEMMA AppendedKeeps ==
  ASSUME OutboxInv, NEW new, Appends(new), staff' \in [Depts -> SUBSET Teachers],
         member' \in [Students -> SUBSET Groups], parent' \in [Nodes -> Parents]
  PROVE  /\ Typed' /\ Owned' /\ Ordered'
         /\ \A w \in Workers : \A r \in DOMAIN rows' : Acting(tx[w], r)' => Applies(tx[w], r)'
  <1>1. PICK n : n = Len(rows)
    OBVIOUS
  <1>2. /\ n \in Nat /\ DOMAIN rows = 1..n /\ rows' \in Seq(Rows)
        /\ \A r \in DOMAIN rows : r \in DOMAIN rows' /\ rows'[r] = rows[r]
        /\ \A i \in DOMAIN new : i \in Nat /\ i # 0 /\ n + i \in DOMAIN rows' /\ rows'[n + i] = new[i]
        /\ \A r \in DOMAIN rows' : r \in Nat /\ (r \in DOMAIN rows \/ \E i \in DOMAIN new : r = n + i)
    BY <1>1, AppendedRows DEF OutboxInv
  <1>3. /\ \A i \in DOMAIN new : ~App(n + i)' /\ n + i \notin DOMAIN rows
        /\ \A w \in Workers : Holds(tx[w]) \subseteq DOMAIN rows
        /\ \A k : At(k)' = At(k)
    BY <1>1, AppendedApp
  <1>4. tx' = tx /\ reordered' = reordered /\ \A i \in DOMAIN new : RowOK(new[i])
    BY DEF Appends
  <1>5. Typed'
    <2>1. \A r \in DOMAIN rows' : RowOK(rows'[r])
      BY <1>2, <1>4 DEF OutboxInv, Typed
    <2> QED
      BY <1>2, <1>4, <2>1 DEF OutboxInv, Typed, RowOK, Belongs, StaffKeys
  <1>6. Owned'
    <2>1. \A w \in Workers : TxOK(tx[w]) /\ \A v \in Workers \ {w} : Apart(tx[v], tx[w])
      BY DEF OutboxInv, Owned
    <2>2. ASSUME NEW w \in Workers
          PROVE  TxOK(tx[w])'
      <3>1. \A r \in Holds(tx[w]) : r \in DOMAIN rows' /\ rows'[r] = rows[r]
        BY <1>2, <1>3
      <3>2. tx[w].ok \subseteq Holds(tx[w])
        BY DEF Holds
      <3> QED
        BY <1>4, <2>1, <3>1, <3>2 DEF TxOK, StaffKeys
    <2> QED
      BY <1>4, <2>1, <2>2 DEF Owned, Apart
  <1>7. ASSUME NEW w \in Workers, NEW r \in DOMAIN rows', Acting(tx[w], r)'
        PROVE  Applies(tx[w], r)'
    <2>1. r \in DOMAIN rows /\ Acting(tx[w], r)
      BY <1>3, <1>4, <1>7 DEF Acting, Holds
    <2>2. PICK k : k = rows[r].key
      OBVIOUS
    <2>3. Applies(tx[w], r) /\ rows'[r] = rows[r] /\ At(k)' = At(k)
      BY <1>2, <1>3, <2>1 DEF OutboxInv
    <2> QED
      BY <1>4, <2>2, <2>3 DEF Applies, StaffKeys, Belongs, At
  <1>8. Ordered'
    <2> SUFFICES ASSUME NEW r \in DOMAIN rows', rows'[r].key \notin reordered, rows'[r].key \notin StaffKeys,
                        NEW q \in DOMAIN rows', q < r, rows'[q].key = rows'[r].key
                 PROVE  /\ rows'[r].done => rows'[q].done
                        /\ \A w \in Workers : r \in tx[w].ok \/ Acting(tx[w], r) => rows'[q].done \/ q \in tx[w].ok
      BY <1>4 DEF Ordered, After, StaffKeys
    <2>1. CASE r \in DOMAIN rows
      <3>1. q \in 1..n
        BY <1>2, <2>1
      <3>2. q \in DOMAIN rows /\ rows'[q] = rows[q] /\ rows'[r] = rows[r]
        BY <1>2, <2>1, <3>1
      <3> QED
        BY <2>1, <3>2 DEF OutboxInv, Ordered, After
    <2>2. CASE r \notin DOMAIN rows
      <3>1. PICK i \in DOMAIN new : r = n + i
        BY <1>2, <2>2
      <3>2. ~App(r)'
        BY <1>3, <3>1
      <3>3. \A w \in Workers : r \notin tx[w].ok /\ ~Acting(tx[w], r)
        BY <1>3, <2>2 DEF Holds, Acting
      <3> QED
        BY <3>2, <3>3 DEF App
    <2> QED
      BY <2>1, <2>2
  <1> QED
    BY <1>5, <1>6, <1>7, <1>8

(* A department whose staff changes gets a row. *)
LEMMA AppendedStaff ==
  ASSUME OutboxInv, NEW new, Appends(new),
         \A k \in StaffKeys : Goal(k)' = Goal(k) \/ \E i \in DOMAIN new : new[i].key = k
  PROVE  StaffInv'
  <1>1. PICK n : n = Len(rows)
    OBVIOUS
  <1>2. /\ \A r \in DOMAIN rows : r \in DOMAIN rows' /\ rows'[r] = rows[r]
        /\ \A i \in DOMAIN new : n + i \in DOMAIN rows' /\ rows'[n + i] = new[i]
    BY <1>1, AppendedRows DEF OutboxInv
  <1>3. /\ \A r \in DOMAIN rows : App(r)' <=> App(r)
        /\ \A i \in DOMAIN new : ~App(n + i)' /\ n + i \notin DOMAIN rows
        /\ \A w \in Workers : Holds(tx[w]) \subseteq DOMAIN rows
        /\ \A k : At(k)' = At(k)
    BY <1>1, AppendedApp
  <1>4. tx' = tx
    BY DEF Appends
  <1>5. ASSUME NEW k \in StaffKeys, NEW b, b \subseteq DOMAIN rows
        PROVE  Goal(k)' = Goal(k) \/ Waiting(k, b)'
    <2> SUFFICES ASSUME NEW i \in DOMAIN new, new[i].key = k
                 PROVE  Waiting(k, b)'
      OBVIOUS
    <2>1. PICK r : r = n + i
      OBVIOUS
    <2>2. r \in DOMAIN rows' /\ rows'[r].key = k /\ r \notin b
      BY <1>2, <1>3, <1>5, <2>1
    <2>3. ~App(r)'
      BY <1>3, <2>1 DEF App
    <2> QED
      BY <2>2, <2>3 DEF Waiting
  <1>6. ASSUME NEW k, NEW b, Waiting(k, b)
        PROVE  Waiting(k, b)'
    <2>1. PICK r \in DOMAIN rows : rows[r].key = k /\ ~App(r) /\ r \notin b
      BY <1>6 DEF Waiting
    <2> QED
      BY <1>2, <1>3, <2>1 DEF Waiting
  <1>7. ASSUME NEW k \in StaffKeys
        PROVE  At(k)' = Goal(k)' \/ Waiting(k, {})'
    <2>1. At(k)' = At(k) /\ (At(k) = Goal(k) \/ Waiting(k, {}))
      BY <1>3 DEF OutboxInv, StaffInv
    <2>2. Goal(k)' = Goal(k) \/ Waiting(k, {})'
      BY <1>5
    <2>3. Waiting(k, {}) => Waiting(k, {})'
      BY <1>6
    <2> QED
      BY <2>1, <2>2, <2>3
  <1>8. ASSUME NEW w \in Workers, NEW r \in DOMAIN rows', Acting(tx[w], r)', rows'[r].key \in StaffKeys
        PROVE  (tx[w].out = Goal(rows[r].key) \/ Waiting(rows[r].key, tx[w].batch))'
    <2>1. PICK k, t : k = rows[r].key /\ t = tx[w]
      OBVIOUS
    <2>2. r \in DOMAIN rows /\ Acting(t, r) /\ t.batch \subseteq DOMAIN rows
      BY <1>3, <1>4, <1>8, <2>1 DEF Acting, Holds
    <2>3. rows'[r].key = k /\ k \in StaffKeys /\ tx'[w] = t
      BY <1>2, <1>4, <1>8, <2>1, <2>2
    <2>4. t.out = Goal(k) \/ Waiting(k, t.batch)
      BY <2>1, <2>2, <2>3 DEF OutboxInv, StaffInv
    <2>5. Goal(k)' = Goal(k) \/ Waiting(k, t.batch)'
      BY <1>5, <2>2, <2>3
    <2>6. Waiting(k, t.batch) => Waiting(k, t.batch)'
      BY <1>6
    <2>7. t.out = Goal(k)' \/ Waiting(k, t.batch)'
      BY <2>4, <2>5, <2>6
    <2> QED
      BY <2>3, <2>7 DEF Waiting, Goal
  <1> QED
    BY <1>7, <1>8 DEF StaffInv, StaffKeys, Acting

(* The new rows of key k add their relationships to those the older rows   *)
(* bring, or the first of them erases the key and the rest writes all.     *)
Adds(k, new) ==
    /\ \A i \in DOMAIN new : new[i].key = k => new[i].op = "TOUCH" /\ k \in MemberKeys
    /\ \A t : t \in Goal(k)' <=> t \in Goal(k) \/ \E i \in DOMAIN new : new[i].key = k /\ t \in new[i].tuples
Rewrites(k, new) ==
    /\ 1 \in DOMAIN new /\ new[1].key = k /\ new[1].op # "TOUCH"
    /\ \A i \in DOMAIN new : i # 1 /\ new[i].key = k => new[i].op = "TOUCH"
    /\ \A t : t \in Goal(k)' <=> \E i \in DOMAIN new : new[i].key = k /\ t \in new[i].tuples

LEMMA AppendedStored ==
  ASSUME OutboxInv, NEW new, Appends(new),
         \A k \in MemberKeys \cup ParentKeys : Followed(k)' => (Followed(k) /\ Adds(k, new)) \/ Rewrites(k, new)
  PROVE  StoredInv'
  <1>1. PICK n : n = Len(rows)
    OBVIOUS
  <1>2. /\ n \in Nat /\ DOMAIN rows = 1..n
        /\ \A r \in DOMAIN rows : r \in DOMAIN rows' /\ rows'[r] = rows[r]
        /\ \A i \in DOMAIN new : i \in Nat /\ i # 0 /\ n + i \in DOMAIN rows' /\ rows'[n + i] = new[i]
        /\ \A r \in DOMAIN rows' : r \in Nat /\ (r \in DOMAIN rows \/ \E i \in DOMAIN new : r = n + i)
    BY <1>1, AppendedRows DEF OutboxInv
  <1>3. /\ \A r \in DOMAIN rows : App(r)' <=> App(r)
        /\ \A i \in DOMAIN new : ~App(n + i)' /\ n + i \notin DOMAIN rows
        /\ \A k : At(k)' = At(k)
    BY <1>1, AppendedApp
  <1> SUFFICES ASSUME NEW k \in MemberKeys \cup ParentKeys, Followed(k)'
               PROVE  \E e \in Nat : Follows(k, e)'
    BY DEF StoredInv, MemberKeys, ParentKeys
  <1>4. CASE Followed(k) /\ Adds(k, new)
    <2>1. PICK e \in Nat : Follows(k, e)
      BY <1>4 DEF OutboxInv, StoredInv
    <2>2. e <= n /\ (e # 0 => e \in DOMAIN rows)
      BY <1>2, <2>1 DEF Follows, Last
    <2>3. ASSUME NEW r \in DOMAIN rows', r \notin DOMAIN rows
          PROVE  \E i \in DOMAIN new : r = n + i /\ rows'[r] = new[i] /\ r >= e
      BY <1>2, <2>2, <2>3
    <2>4. Last(k, e)'
      <3>1. e # 0 => e \in DOMAIN rows' /\ rows'[e].key = k /\ rows'[e].op # "TOUCH"
        BY <1>2, <2>1, <2>2 DEF Follows, Last
      <3>2. ASSUME NEW r \in DOMAIN rows', r > e, rows'[r].key = k
            PROVE  rows'[r].op = "TOUCH"
        <4>1. CASE r \in DOMAIN rows
          BY <1>2, <2>1, <3>2, <4>1 DEF Follows, Last
        <4>2. CASE r \notin DOMAIN rows
          BY <1>4, <2>3, <3>2, <4>2 DEF Adds
        <4> QED
          BY <4>1, <4>2
      <3> QED
        BY <3>1, <3>2 DEF Last
    <2>5. Brings(k, e) => Brings(k, e)'
      <3> SUFFICES ASSUME Brings(k, e), NEW t
                   PROVE  t \in Goal(k)' <=> \E r \in DOMAIN rows' : r >= e /\ rows'[r].key = k /\ t \in rows'[r].tuples
        BY DEF Brings
      <3>1. t \in Goal(k)' <=> t \in Goal(k) \/ \E i \in DOMAIN new : new[i].key = k /\ t \in new[i].tuples
        BY <1>4 DEF Adds
      <3>2. t \in Goal(k) <=> \E r \in DOMAIN rows : r >= e /\ rows[r].key = k /\ t \in rows[r].tuples
        BY DEF Brings
      <3>3. ASSUME NEW r \in DOMAIN rows', r >= e, rows'[r].key = k, t \in rows'[r].tuples
            PROVE  t \in Goal(k)'
        <4>1. CASE r \in DOMAIN rows
          BY <1>2, <3>1, <3>2, <3>3, <4>1
        <4>2. CASE r \notin DOMAIN rows
          BY <2>3, <3>1, <3>3, <4>2
        <4> QED
          BY <4>1, <4>2
      <3>4. ASSUME NEW i \in DOMAIN new, new[i].key = k, t \in new[i].tuples
            PROVE  \E r \in DOMAIN rows' : r >= e /\ rows'[r].key = k /\ t \in rows'[r].tuples
        <4>1. n + i >= e
          BY <1>2, <2>2
        <4> QED
          BY <1>2, <3>4, <4>1
      <3>5. ASSUME NEW r \in DOMAIN rows, r >= e, rows[r].key = k, t \in rows[r].tuples
            PROVE  \E q \in DOMAIN rows' : q >= e /\ rows'[q].key = k /\ t \in rows'[q].tuples
        BY <1>2, <3>5
      <3> QED
        BY <3>1, <3>2, <3>3, <3>4, <3>5
    <2>6. Goal(k) \subseteq Goal(k)'
      BY <1>4 DEF Adds
    <2>7. Agrees(k, e) => Agrees(k, e)'
      <3> SUFFICES ASSUME Agrees(k, e)
                   PROVE  Agrees(k, e)'
        OBVIOUS
      <3>1. At(k)' \subseteq Goal(k)'
        BY <1>3, <2>6 DEF Agrees
      <3>2. ASSUME NEW r \in DOMAIN rows', r >= e, rows'[r].key = k, App(r)'
            PROVE  rows'[r].tuples \subseteq At(k)'
        <4>1. r \in DOMAIN rows
          <5> SUFFICES ASSUME r \notin DOMAIN rows
                       PROVE  FALSE
            OBVIOUS
          <5>1. PICK i \in DOMAIN new : r = n + i
            BY <2>3
          <5> QED
            BY <1>3, <3>2, <5>1
        <4> QED
          BY <1>2, <1>3, <3>2, <4>1 DEF Agrees
      <3> QED
        BY <3>1, <3>2 DEF Agrees
    <2>8. e = 0 \/ App(e)' => e = 0 \/ App(e)
      BY <1>3, <2>2
    <2>9. e = 0 /\ k \in ParentKeys => At(k)' = Goal(k)' /\ \A r \in DOMAIN rows' : rows'[r].key # k
      <3> SUFFICES ASSUME e = 0, k \in ParentKeys
                   PROVE  At(k)' = Goal(k)' /\ \A r \in DOMAIN rows' : rows'[r].key # k
        OBVIOUS
      <3>1. At(k) = Goal(k) /\ \A r \in DOMAIN rows : rows[r].key # k
        BY <2>1 DEF Follows
      <3>2. \A i \in DOMAIN new : new[i].key # k
        BY <1>4 DEF Adds, MemberKeys, ParentKeys
      <3>3. Goal(k)' = Goal(k)
        BY <1>4, <3>2 DEF Adds
      <3>4. \A r \in DOMAIN rows' : rows'[r].key # k
        BY <1>2, <2>3, <3>1, <3>2
      <3> QED
        BY <1>3, <3>1, <3>3, <3>4
    <2> QED
      BY <2>1, <2>4, <2>5, <2>7, <2>8, <2>9 DEF Follows, MemberKeys, ParentKeys
  <1>5. CASE Rewrites(k, new)
    <2>1. PICK e \in Nat : e = n + 1
      BY <1>2
    <2>2. e # 0 /\ e \in DOMAIN rows' /\ rows'[e].key = k /\ rows'[e].op # "TOUCH"
      BY <1>2, <1>5, <2>1 DEF Rewrites
    <2>3. ASSUME NEW r \in DOMAIN rows', r >= e
          PROVE  \E i \in DOMAIN new : r = n + i /\ rows'[r] = new[i] /\ (i = 1 <=> r = e)
      <3>1. r \notin DOMAIN rows
        BY <1>2, <2>1, <2>3
      <3>2. PICK i \in DOMAIN new : r = n + i
        BY <1>2, <3>1
      <3> QED
        BY <1>2, <2>1, <3>2
    <2>4. Last(k, e)'
      <3>1. ASSUME NEW r \in DOMAIN rows', r > e, rows'[r].key = k
            PROVE  rows'[r].op = "TOUCH"
        <4>1. r \in Nat /\ r >= e /\ r # e
          BY <1>2, <2>1, <3>1
        <4>2. PICK i \in DOMAIN new : rows'[r] = new[i] /\ i # 1
          BY <2>3, <4>1
        <4> QED
          BY <1>5, <3>1, <4>2 DEF Rewrites
      <3> QED
        BY <2>2, <3>1 DEF Last
    <2>5. Brings(k, e)'
      <3> SUFFICES ASSUME NEW t
                   PROVE  t \in Goal(k)' <=> \E r \in DOMAIN rows' : r >= e /\ rows'[r].key = k /\ t \in rows'[r].tuples
        BY DEF Brings
      <3>1. t \in Goal(k)' <=> \E i \in DOMAIN new : new[i].key = k /\ t \in new[i].tuples
        BY <1>5 DEF Rewrites
      <3>2. \A i \in DOMAIN new : n + i >= e
        BY <1>2, <2>1
      <3>3. ASSUME NEW i \in DOMAIN new, new[i].key = k, t \in new[i].tuples
            PROVE  \E r \in DOMAIN rows' : r >= e /\ rows'[r].key = k /\ t \in rows'[r].tuples
        BY <1>2, <3>2, <3>3
      <3>4. ASSUME NEW r \in DOMAIN rows', r >= e, rows'[r].key = k, t \in rows'[r].tuples
            PROVE  \E i \in DOMAIN new : new[i].key = k /\ t \in new[i].tuples
        BY <2>3, <3>4
      <3> QED
        BY <3>1, <3>3, <3>4
    <2>6. ~App(e)'
      <3>1. 1 \in DOMAIN new
        BY <1>5 DEF Rewrites
      <3> QED
        BY <1>3, <2>1, <3>1 DEF App
    <2>7. Follows(k, e)'
      BY <2>2, <2>4, <2>5, <2>6 DEF Follows, MemberKeys, ParentKeys
    <2> QED
      BY <2>7
  <1> QED
    BY <1>4, <1>5

LEMMA AppendStep ==
  ASSUME OutboxInv, NEW new, Appends(new), staff' \in [Depts -> SUBSET Teachers],
         member' \in [Students -> SUBSET Groups], parent' \in [Nodes -> Parents],
         \A k \in StaffKeys : Goal(k)' = Goal(k) \/ \E i \in DOMAIN new : new[i].key = k,
         \A k \in MemberKeys \cup ParentKeys : Followed(k)' => (Followed(k) /\ Adds(k, new)) \/ Rewrites(k, new)
  PROVE  OutboxInv'
  <1>1. Typed' /\ Owned' /\ Ordered'
    BY AppendedKeeps
  <1>2. \A w \in Workers : \A r \in DOMAIN rows' : Acting(tx[w], r)' => Applies(tx[w], r)'
    BY AppendedKeeps
  <1>3. StaffInv' /\ StoredInv'
    BY AppendedStaff, AppendedStored
  <1> QED
    BY <1>1, <1>2, <1>3 DEF OutboxInv

LEMMA SyncRows ==
  ASSUME NEW s \in Seq(Depts), NEW new, new = [i \in DOMAIN s |-> Sync(s[i])]
  PROVE  /\ new \in Seq(Rows) /\ DOMAIN new = DOMAIN s
         /\ \A i \in DOMAIN new : /\ RowOK(new[i]) /\ new[i].done = FALSE /\ new[i].key = <<"staff", s[i]>>
                                  /\ new[i].key \in StaffKeys /\ s[i] \in Depts
  <1>1. PICK n \in Nat : DOMAIN s = 1..n
    OBVIOUS
  <1>2. ASSUME NEW i \in 1..n
        PROVE  /\ new[i] \in Rows /\ RowOK(new[i]) /\ new[i].done = FALSE /\ new[i].key = <<"staff", s[i]>>
               /\ new[i].key \in StaffKeys /\ s[i] \in Depts
    <2>1. s[i] \in Depts /\ <<"staff", s[i]>> \in StaffKeys /\ <<"staff", s[i]>> \in Keys
      BY <1>1 DEF StaffKeys, Keys
    <2>2. PICK k, x : k = <<"staff", s[i]>> /\ x = NewRow("SYNC_DEPARTMENT_STAFF", k, {})
      OBVIOUS
    <2>3. new[i] = x /\ k \in Keys
      BY <1>1, <2>1, <2>2 DEF Sync
    <2>4. x \in Rows /\ x.op = "SYNC_DEPARTMENT_STAFF" /\ x.key = k /\ x.tuples = {} /\ x.done = FALSE
      BY <2>2, <2>3 DEF NewRow, Rows
    <2>5. /\ new[i] \in Rows /\ new[i].op = "SYNC_DEPARTMENT_STAFF" /\ new[i].key = <<"staff", s[i]>>
          /\ new[i].tuples = {} /\ new[i].done = FALSE
      BY <2>2, <2>3, <2>4
    <2> QED
      BY <2>1, <2>5 DEF RowOK
  <1>3. new \in [1..n -> Rows]
    BY <1>1, <1>2
  <1>4. new \in Seq(Rows)
    BY <1>3, SeqDef
  <1> QED
    BY <1>1, <1>2, <1>4

LEMMA ChangeStaffStep ==
  ASSUME OutboxInv, NEW ds \in Seq(Depts), NEW S \in [Depts -> SUBSET Teachers], ChangeStaff(ds, S)
  PROVE  OutboxInv'
  <1>1. PICK new : new = [i \in DOMAIN ds |-> Sync(ds[i])]
    OBVIOUS
  <1>2. Enqueue(new) /\ staff' = S /\ UNCHANGED <<member, parent, narrowed>>
    BY <1>1 DEF ChangeStaff
  <1>3. /\ new \in Seq(Rows) /\ DOMAIN new = DOMAIN ds
        /\ \A i \in DOMAIN new : /\ RowOK(new[i]) /\ new[i].done = FALSE /\ new[i].key = <<"staff", ds[i]>>
                                 /\ new[i].key \in StaffKeys
    BY <1>1, SyncRows
  <1>4. Appends(new)
    BY <1>2, <1>3 DEF Appends, Enqueue
  <1>5. ASSUME NEW k \in StaffKeys
        PROVE  Goal(k)' = Goal(k) \/ \E i \in DOMAIN new : new[i].key = k
    <2>1. PICK d \in Depts : k = <<"staff", d>>
      BY DEF StaffKeys
    <2>2. CASE d \in Range(ds)
      BY <1>3, <2>1, <2>2 DEF Range
    <2>3. CASE d \notin Range(ds)
      <3>1. staff'[d] = staff[d]
        BY <1>2, <2>3 DEF ChangeStaff
      <3> QED
        BY <2>1, <3>1 DEF Goal
    <2> QED
      BY <2>2, <2>3
  <1>6. ASSUME NEW k \in MemberKeys \cup ParentKeys, Followed(k)'
        PROVE  Followed(k) /\ Adds(k, new)
    <2>1. \A i \in DOMAIN new : new[i].key # k
      BY <1>3 DEF StaffKeys, MemberKeys, ParentKeys
    <2>2. Goal(k)' = Goal(k)
      BY <1>2 DEF Goal, MemberKeys, ParentKeys
    <2>3. Followed(k)
      BY <1>2, <1>4, <1>6 DEF Followed, Appends, MemberKeys
    <2> QED
      BY <2>1, <2>2, <2>3 DEF Adds
  <1> QED
    BY <1>2, <1>4, <1>5, <1>6, AppendStep DEF OutboxInv, Typed

(* What a change of the memberships of one student leaves alone. *)
LEMMA OtherStudents ==
  ASSUME OutboxInv, NEW u \in Students, NEW M \in SUBSET Groups, member' = [member EXCEPT ![u] = M],
         UNCHANGED <<staff, parent>>, NEW new, Appends(new), narrowed' \in {narrowed, narrowed \ {u}, narrowed \cup {u}},
         \A i \in DOMAIN new : new[i].key = <<"member", u>>
  PROVE  /\ \A k \in StaffKeys : Goal(k)' = Goal(k)
         /\ \A k \in MemberKeys \cup ParentKeys : Followed(k)' /\ k # <<"member", u>> => Followed(k) /\ Adds(k, new)
         /\ Goal(<<"member", u>>)' = Membership(u, M) /\ Goal(<<"member", u>>) = Membership(u, member[u])
         /\ member' \in [Students -> SUBSET Groups]
  <1>1. member \in [Students -> SUBSET Groups]
    BY DEF OutboxInv, Typed
  <1>2. \A k \in StaffKeys : Goal(k)' = Goal(k)
    BY DEF Goal, StaffKeys
  <1>3. ASSUME NEW k \in MemberKeys \cup ParentKeys, Followed(k)', k # <<"member", u>>
        PROVE  Followed(k) /\ Adds(k, new)
    <2>1. Goal(k)' = Goal(k)
      <3>1. CASE k \in MemberKeys
        <4>1. PICK v \in Students : k = <<"member", v>>
          BY <3>1 DEF MemberKeys
        <4>2. member'[v] = member[v]
          BY <1>1, <1>3, <4>1
        <4> QED
          BY <4>1, <4>2 DEF Goal
      <3>2. CASE k \in ParentKeys
        BY <3>2 DEF Goal, ParentKeys
      <3> QED
        BY <3>1, <3>2
    <2>2. \A i \in DOMAIN new : new[i].key # k
      BY <1>3
    <2>3. Followed(k)
      BY <1>3 DEF Followed, Appends, MemberKeys
    <2> QED
      BY <2>1, <2>2, <2>3 DEF Adds
  <1>4. Goal(<<"member", u>>)' = Membership(u, M) /\ Goal(<<"member", u>>) = Membership(u, member[u])
    <2>1. PICK k : k = <<"member", u>>
      OBVIOUS
    <2>2. k[1] = "member" /\ k[2] = u
      BY <2>1
    <2>3. Goal(k)' = Membership(u, M) /\ Goal(k) = Membership(u, member[u])
      BY <1>1, <2>2 DEF Goal, Membership
    <2> QED
      BY <2>1, <2>3 DEF Goal
  <1> QED
    BY <1>1, <1>2, <1>3, <1>4

LEMMA RewriteStep ==
  ASSUME OutboxInv, NEW u \in Students, NEW S \in SUBSET Groups, NEW M \in SUBSET Groups,
         RewriteMembership(u, S), member' = [member EXCEPT ![u] = M], UNCHANGED <<staff, parent>>,
         narrowed' \in {narrowed, narrowed \ {u}, narrowed \cup {u}}, M = S \/ u \in narrowed'
  PROVE  OutboxInv'
  <1>1. PICK k, a, b : /\ k = <<"member", u>> /\ a = NewRow("DELETE_BY_SUBJECT", k, {})
                       /\ b = NewRow("TOUCH", k, Membership(u, S))
    OBVIOUS
  <1>2. PICK new : new = <<a>> \o IF S = {} THEN <<>> ELSE <<b>>
    OBVIOUS
  <1>3. Enqueue(new)
    BY <1>1, <1>2 DEF RewriteMembership
  <1>4. k \in MemberKeys /\ k \in Keys /\ Membership(u, S) \in SUBSET Relationships /\ k[1] = "member" /\ k[2] = u
    BY <1>1 DEF MemberKeys, Keys, Membership, Relationships
  <1>5. /\ a \in Rows /\ a.op = "DELETE_BY_SUBJECT" /\ a.key = k /\ a.tuples = {} /\ a.done = FALSE
        /\ b \in Rows /\ b.op = "TOUCH" /\ b.key = k /\ b.tuples = Membership(u, S) /\ b.done = FALSE
    BY <1>1, <1>4 DEF NewRow, Rows
  <1>6. RowOK(a) /\ RowOK(b)
    <2>1. \A t \in Membership(u, S) : Belongs(t, k)
      BY <1>4 DEF Membership, Belongs
    <2> QED
      BY <1>4, <1>5, <2>1 DEF RowOK
  <1>7. /\ new \in Seq(Rows) /\ 1 \in DOMAIN new /\ new[1] = a
        /\ \A i \in DOMAIN new : i # 1 => new[i] = b /\ S # {}
        /\ S # {} => 2 \in DOMAIN new /\ new[2] = b
    <2>1. CASE S = {}
      <3>1. new = <<a>>
        BY <1>2, <1>5, <2>1
      <3> QED
        BY <1>5, <2>1, <3>1
    <2>2. CASE S # {}
      <3>1. <<a>> \in Seq(Rows) /\ <<b>> \in Seq(Rows) /\ Len(<<a>>) = 1 /\ Len(<<b>>) = 1
        BY <1>5
      <3>2. new = <<a>> \o <<b>>
        BY <1>2, <2>2
      <3>3. new \in Seq(Rows) /\ Len(new) = 2 /\ new[1] = a /\ new[2] = b
        BY <3>1, <3>2
      <3> QED
        BY <1>5, <2>2, <3>3
    <2> QED
      BY <2>1, <2>2
  <1>8. \A i \in DOMAIN new : new[i] \in {a, b}
    BY <1>7
  <1>9. Appends(new)
    BY <1>3, <1>5, <1>6, <1>7, <1>8 DEF Appends, Enqueue
  <1>10. /\ \A m \in StaffKeys : Goal(m)' = Goal(m)
         /\ \A m \in MemberKeys \cup ParentKeys : Followed(m)' /\ m # <<"member", u>> => Followed(m) /\ Adds(m, new)
         /\ Goal(<<"member", u>>)' = Membership(u, M) /\ member' \in [Students -> SUBSET Groups]
    <2>1. \A i \in DOMAIN new : new[i].key = <<"member", u>>
      BY <1>1, <1>5, <1>8
    <2> QED
      BY <1>9, <2>1, OtherStudents
  <1>11. Goal(k)' = Membership(u, M)
    BY <1>1, <1>10 DEF Goal
  <1>12. ASSUME Followed(k)'
         PROVE  Rewrites(k, new)
    <2>1. M = S
      BY <1>4, <1>12 DEF Followed
    <2>2. \A t : t \in Membership(u, S) <=> \E i \in DOMAIN new : new[i].key = k /\ t \in new[i].tuples
      <3>1. S = {} => Membership(u, S) = {}
        BY DEF Membership
      <3> QED
        BY <1>5, <1>7, <3>1
    <2> QED
      BY <1>5, <1>7, <1>11, <2>1, <2>2 DEF Rewrites
  <1>13. \A m \in MemberKeys \cup ParentKeys : Followed(m)' => (Followed(m) /\ Adds(m, new)) \/ Rewrites(m, new)
    BY <1>1, <1>10, <1>12 DEF Followed, Rewrites
  <1> QED
    BY <1>9, <1>10, <1>13, AppendStep DEF OutboxInv, Typed

LEMMA SubgroupStep ==
  ASSUME OutboxInv, NEW u \in Students, NEW g \in Groups, SyncStudentSubgroup(u, g)
  PROVE  OutboxInv'
  <1>1. PICK k, a, M : /\ k = <<"member", u>> /\ a = NewRow("TOUCH", k, Membership(u, {g}))
                       /\ M = member[u] \cup {g}
    OBVIOUS
  <1>2. PICK new : new = <<a>>
    OBVIOUS
  <1>3. Enqueue(new) /\ member' = [member EXCEPT ![u] = M] /\ UNCHANGED <<staff, parent, narrowed>>
    BY <1>1, <1>2 DEF SyncStudentSubgroup
  <1>4. k \in MemberKeys /\ k \in Keys /\ Membership(u, {g}) \in SUBSET Relationships /\ k[1] = "member" /\ k[2] = u
    BY <1>1 DEF MemberKeys, Keys, Membership, Relationships
  <1>5. a \in Rows /\ a.op = "TOUCH" /\ a.key = k /\ a.tuples = Membership(u, {g}) /\ a.done = FALSE
    BY <1>1, <1>4 DEF NewRow, Rows
  <1>6. RowOK(a)
    <2>1. \A t \in Membership(u, {g}) : Belongs(t, k)
      BY <1>4 DEF Membership, Belongs
    <2> QED
      BY <1>4, <1>5, <2>1 DEF RowOK
  <1>7. new \in Seq(Rows) /\ DOMAIN new = {1} /\ new[1] = a
    BY <1>2, <1>5
  <1>8. Appends(new)
    BY <1>3, <1>5, <1>6, <1>7 DEF Appends, Enqueue
  <1>9. M \in SUBSET Groups
    BY <1>1 DEF OutboxInv, Typed
  <1>10. /\ \A m \in StaffKeys : Goal(m)' = Goal(m)
         /\ \A m \in MemberKeys \cup ParentKeys : Followed(m)' /\ m # <<"member", u>> => Followed(m) /\ Adds(m, new)
         /\ Goal(<<"member", u>>)' = Membership(u, M) /\ Goal(<<"member", u>>) = Membership(u, member[u])
         /\ member' \in [Students -> SUBSET Groups]
    <2>1. \A i \in DOMAIN new : new[i].key = <<"member", u>>
      BY <1>1, <1>5, <1>7
    <2> QED
      BY <1>3, <1>8, <1>9, <2>1, OtherStudents
  <1>11. Goal(k)' = Membership(u, M) /\ Goal(k) = Membership(u, member[u])
    BY <1>1, <1>10 DEF Goal
  <1>12. ASSUME Followed(k)'
         PROVE  Followed(k) /\ Adds(k, new)
    <2>1. Followed(k)
      BY <1>3, <1>8, <1>12 DEF Followed, Appends, MemberKeys
    <2>2. Membership(u, M) = Membership(u, member[u]) \cup Membership(u, {g})
      BY <1>1 DEF Membership
    <2>3. \A t : t \in Goal(k)' <=> t \in Goal(k) \/ \E i \in DOMAIN new : new[i].key = k /\ t \in new[i].tuples
      BY <1>5, <1>7, <1>11, <2>2
    <2>4. \A i \in DOMAIN new : new[i].op = "TOUCH"
      BY <1>5, <1>7
    <2> QED
      BY <1>4, <2>1, <2>3, <2>4 DEF Adds
  <1>13. \A m \in MemberKeys \cup ParentKeys : Followed(m)' => (Followed(m) /\ Adds(m, new)) \/ Rewrites(m, new)
    BY <1>1, <1>10, <1>12 DEF Followed, Adds
  <1> QED
    BY <1>3, <1>8, <1>10, <1>13, AppendStep DEF OutboxInv, Typed

LEMMA NodeStep ==
  ASSUME OutboxInv, NEW n \in Nodes, NEW p \in Parents, SyncHierarchyNode(n, p)
  PROVE  OutboxInv'
  <1>1. PICK k, a, G : /\ k = <<"parent", n>> /\ G = {<<"parent", n, p>>} /\ a = NewRow("REPLACE", k, G)
    OBVIOUS
  <1>2. PICK new : new = <<a>>
    OBVIOUS
  <1>3. Enqueue(new) /\ parent' = [parent EXCEPT ![n] = p] /\ UNCHANGED <<staff, member, narrowed>>
    BY <1>1, <1>2 DEF SyncHierarchyNode
  <1>4. k \in ParentKeys /\ k \in Keys /\ G \in SUBSET Relationships /\ k[1] = "parent" /\ k[2] = n
    BY <1>1 DEF ParentKeys, Keys, Relationships
  <1>5. a \in Rows /\ a.op = "REPLACE" /\ a.key = k /\ a.tuples = G /\ a.done = FALSE
    BY <1>1, <1>4 DEF NewRow, Rows
  <1>6. RowOK(a)
    <2>1. \A t \in G : Belongs(t, k)
      BY <1>1, <1>4 DEF Belongs
    <2> QED
      BY <1>4, <1>5, <2>1 DEF RowOK
  <1>7. new \in Seq(Rows) /\ DOMAIN new = {1} /\ new[1] = a
    BY <1>2, <1>5
  <1>8. Appends(new)
    BY <1>3, <1>5, <1>6, <1>7 DEF Appends, Enqueue
  <1>9. parent \in [Nodes -> Parents] /\ parent' \in [Nodes -> Parents] /\ parent'[n] = p
    BY <1>3 DEF OutboxInv, Typed
  <1>10. \A m \in StaffKeys : Goal(m)' = Goal(m)
    BY <1>3 DEF Goal, StaffKeys
  <1>11. ASSUME NEW m \in MemberKeys \cup ParentKeys, Followed(m)'
         PROVE  (Followed(m) /\ Adds(m, new)) \/ Rewrites(m, new)
    <2>1. CASE m = k
      <3>1. Goal(k)' = G
        BY <1>1, <1>4, <1>9 DEF Goal
      <3>2. \A t : t \in Goal(k)' <=> \E i \in DOMAIN new : new[i].key = k /\ t \in new[i].tuples
        BY <1>5, <1>7, <3>1
      <3> QED
        BY <1>5, <1>7, <2>1, <3>2 DEF Rewrites, Goal
    <2>2. CASE m # k
      <3>1. Goal(m)' = Goal(m)
        <4>1. CASE m \in MemberKeys
          BY <1>3, <4>1 DEF Goal, MemberKeys
        <4>2. CASE m \in ParentKeys
          <5>1. PICK q \in Nodes : m = <<"parent", q>>
            BY <4>2 DEF ParentKeys
          <5>2. parent'[q] = parent[q]
            BY <1>1, <1>3, <1>9, <2>2, <5>1
          <5> QED
            BY <5>1, <5>2 DEF Goal
        <4> QED
          BY <4>1, <4>2
      <3>2. Followed(m)
        BY <1>3, <1>8, <1>11 DEF Followed, Appends, MemberKeys
      <3>3. \A i \in DOMAIN new : new[i].key # m
        BY <1>5, <1>7, <2>2
      <3> QED
        BY <3>1, <3>2, <3>3 DEF Adds
    <2> QED
      BY <2>1, <2>2
  <1> QED
    BY <1>3, <1>8, <1>9, <1>10, <1>11, AppendStep DEF OutboxInv, Typed

LEMMA MemberTupleStep ==
  ASSUME OutboxInv, NEW u \in Students, NEW S \in SUBSET Groups, SyncStudentMemberTuple(u, S)
  PROVE  OutboxInv'
  BY RewriteStep DEF SyncStudentMemberTuple

LEMMA PositionStep ==
  ASSUME OutboxInv, NEW u \in Students, NEW g \in Groups \cup {NoGroup}, NEW T \in SUBSET Groups,
         NEW active \in BOOLEAN, SyncStudentPosition(u, g, T, active)
  PROVE  OutboxInv'
  <1>1. PICK S, M : /\ S = (IF active THEN {g} \ {NoGroup} ELSE {})
                    /\ M = IF active THEN member[u] \cup S \cup T ELSE member[u] \ ({g} \cup T)
    OBVIOUS
  <1>2. member \in [Students -> SUBSET Groups]
    BY DEF OutboxInv, Typed
  <1>3. S \in SUBSET Groups /\ M \in SUBSET Groups
    BY <1>1, <1>2
  <1>4. /\ RewriteMembership(u, S) /\ member' = [member EXCEPT ![u] = M] /\ UNCHANGED <<staff, parent>>
        /\ narrowed' = IF member'[u] = S THEN narrowed \ {u} ELSE narrowed \cup {u}
    BY <1>1 DEF SyncStudentPosition
  <1>5. member'[u] = M
    BY <1>2, <1>4
  <1> QED
    BY <1>3, <1>4, <1>5, RewriteStep

-----------------------------------------------------------------------------
LEMMA OutboxInit == Init => OutboxInv
  <1> SUFFICES ASSUME Init
               PROVE  OutboxInv
    OBVIOUS
  <1>1. PICK s \in [1..Cardinality(Depts) -> Depts] : Range(s) = Depts /\ rows = [i \in DOMAIN s |-> Sync(s[i])]
    BY DEF Init
  <1>2. s \in Seq(Depts)
    <2>1. Cardinality(Depts) \in Nat
      BY AuthzOutboxAssumption, FS_CardinalityType
    <2> QED
      BY <2>1, SeqDef
  <1>3. /\ rows \in Seq(Rows) /\ DOMAIN rows = DOMAIN s
        /\ \A i \in DOMAIN rows : /\ RowOK(rows[i]) /\ rows[i].done = FALSE /\ rows[i].key = <<"staff", s[i]>>
                                  /\ rows[i].key \in StaffKeys
    BY <1>1, <1>2, SyncRows, ZenonT(30)
  <1>4. tx = [w \in Workers |-> NoTx] /\ \A w \in Workers : tx[w] = NoTx
    BY DEF Init
  <1>5. Typed
    <2>1. tx \in [Workers -> Transactions]
      BY <1>4, NoTxOK
    <2> QED
      BY <1>3, <2>1 DEF Init, Typed
  <1> HIDE DEF NoTx
  <1>6. Owned
    BY <1>4, NoTxOK DEF Owned
  <1>7. \A w \in Workers : \A r : ~Acting(tx[w], r) /\ r \notin tx[w].ok
    BY <1>4, NoTxOK
  <1>8. \A r \in DOMAIN rows : ~App(r)
    BY <1>3, <1>7 DEF App
  <1>9. Ordered
    BY <1>3 DEF Ordered
  <1>10. StaffInv
    <2>1. ASSUME NEW k \in StaffKeys
          PROVE  Waiting(k, {})
      <3>1. PICK d \in Range(s) : k = <<"staff", d>>
        BY <1>1 DEF StaffKeys
      <3>2. PICK i \in DOMAIN s : s[i] = d
        BY <3>1 DEF Range
      <3> QED
        BY <1>3, <1>8, <3>1, <3>2 DEF Waiting
    <2> QED
      BY <1>7, <2>1 DEF StaffInv
  <1>11. StoredInv
    <2> SUFFICES ASSUME NEW k \in MemberKeys \cup ParentKeys
                 PROVE  Follows(k, 0)
      BY DEF StoredInv
    <2>1. \A r \in DOMAIN rows : rows[r].key # k
      BY <1>3 DEF StaffKeys, MemberKeys, ParentKeys
    <2>2. At(k) = Goal(k)
      <3>1. CASE k \in MemberKeys
        <4>1. PICK u \in Students : k = <<"member", u>>
          BY <3>1 DEF MemberKeys
        <4>2. Goal(k) = {}
          BY <4>1 DEF Goal, Membership, Init
        <4>3. At(k) = {}
          BY <4>1 DEF At, Belongs, Init
        <4> QED
          BY <4>2, <4>3
      <3>2. CASE k \in ParentKeys
        <4>1. PICK n \in Nodes : k = <<"parent", n>>
          BY <3>2 DEF ParentKeys
        <4>2. Goal(k) = {<<"parent", n, parent[n]>>}
          BY <4>1 DEF Goal
        <4>3. \A t : t \in At(k) <=> t = <<"parent", n, parent[n]>>
          BY <4>1 DEF At, Belongs, Init
        <4> QED
          BY <4>2, <4>3
      <3> QED
        BY <3>1, <3>2
    <2>3. k \in MemberKeys => Goal(k) = {}
      BY DEF MemberKeys, Goal, Membership, Init
    <2> QED
      BY <2>1, <2>2, <2>3 DEF Follows, Last, Brings, Agrees
  <1> QED
    BY <1>5, <1>6, <1>7, <1>9, <1>10, <1>11 DEF OutboxInv

LEMMA OutboxUnchanged ==
  ASSUME OutboxInv, UNCHANGED vars
  PROVE  OutboxInv'
  <1>1. UNCHANGED <<staff, member, parent, rows, spice, tx, reordered, narrowed>>
    BY DEF vars
  <1>2. Typed' /\ Owned'
    BY <1>1 DEF OutboxInv, Typed, RowOK, Belongs, Owned, TxOK, Apart, Holds
  <1>3. Ordered' /\ StaffInv'
    <2>1. Ordered'
      BY <1>1 DEF OutboxInv, Ordered, After, Acting
    <2>2. StaffInv'
      <3>1. \A k, b : Waiting(k, b)' <=> Waiting(k, b)
        BY <1>1 DEF Waiting, App
      <3>2. \A k : At(k)' = At(k) /\ Goal(k)' = Goal(k)
        BY <1>1 DEF At, Goal
      <3>3. \A k \in StaffKeys : At(k)' = Goal(k)' \/ Waiting(k, {})'
        BY <3>1, <3>2 DEF OutboxInv, StaffInv
      <3>4. ASSUME NEW w \in Workers, NEW r \in DOMAIN rows', Acting(tx[w], r)', rows'[r].key \in StaffKeys
            PROVE  (tx[w].out = Goal(rows[r].key) \/ Waiting(rows[r].key, tx[w].batch))'
        <4>1. PICK k, t : k = rows[r].key /\ t = tx[w]
          OBVIOUS
        <4>2. t.out = Goal(k) \/ Waiting(k, t.batch)
          BY <1>1, <3>4, <4>1 DEF OutboxInv, StaffInv, Acting
        <4>3. t.out = Goal(k)' \/ Waiting(k, t.batch)'
          BY <3>1, <3>2, <4>2
        <4> QED
          BY <1>1, <4>1, <4>3 DEF Waiting, Goal
      <3> QED
        BY <3>3, <3>4 DEF StaffInv, StaffKeys, Acting
    <2> QED
      BY <2>1, <2>2
  <1>4. StoredInv'
    BY <1>1 DEF OutboxInv, StoredInv, Followed, Follows, Last, Brings, Agrees, App, At, Belongs, Goal, Membership
  <1>5. (\A w \in Workers : \A r \in DOMAIN rows : Acting(tx[w], r) => Applies(tx[w], r))'
    BY <1>1 DEF OutboxInv, Acting, Applies, At, Belongs
  <1> QED
    BY <1>2, <1>3, <1>4, <1>5 DEF OutboxInv

LEMMA OutboxNext == OutboxInv /\ [Next]_vars => OutboxInv'
  <1> SUFFICES ASSUME OutboxInv, [Next]_vars
               PROVE  OutboxInv'
    OBVIOUS
  <1>1. ASSUME NEW ds \in {<<d>> : d \in Depts} \cup (Depts \X Depts), NEW S \in [Depts -> SUBSET Teachers],
               ChangeStaff(ds, S)
        PROVE  OutboxInv'
    <2>1. ds \in Seq(Depts)
      <3>1. CASE \E d \in Depts : ds = <<d>>
        BY <3>1
      <3>2. CASE \E d, e \in Depts : ds = <<d, e>>
        BY <3>2
      <3> QED
        BY <3>1, <3>2
    <2> QED
      BY <1>1, <2>1, ChangeStaffStep
  <1>2. ASSUME NEW w \in Workers, WorkerStep(w)
        PROVE  OutboxInv'
    BY <1>2, SelectStep, CommitStep, AwaitStep, BeginSyncStep, BeginStoredStep, CallOKStep, CallErrorStep
    DEF WorkerStep
  <1>3. CASE UNCHANGED vars
    BY <1>3, OutboxUnchanged
  <1> QED
    BY <1>1, <1>2, <1>3, MemberTupleStep, PositionStep, SubgroupStep, NodeStep, AbortStep, BackoffStep DEF Next

LEMMA OutboxInvariant == Spec => []OutboxInv
  BY OutboxInit, OutboxNext, PTL DEF Spec

(* Once the rows of a department are processed, SpiceDB has exactly its    *)
(* active staff, for any number of replicas, failed calls, rolled back     *)
(* transactions and retries.  (syncDepartmentStaff in tuples/writer.go     *)
(* under the advisory lock, processOnce in outbox/worker.go.)              *)
THEOREM StaffFollowsPostgres == Spec => []StaffConverges
  <1>1. OutboxInv => StaffConverges
    <2> SUFFICES ASSUME OutboxInv, NEW d \in Depts, AllDone(<<"staff", d>>)
                 PROVE  {t \in spice : t[1] = "staff" /\ t[2] = d} = {<<"staff", d, u>> : u \in staff[d]}
      BY DEF StaffConverges
    <2>1. PICK k : k = <<"staff", d>>
      OBVIOUS
    <2>2. k \in StaffKeys /\ k[1] = "staff" /\ k[2] = d
      BY <2>1 DEF StaffKeys
    <2>3. ~Waiting(k, {})
      BY <2>1 DEF AllDone, Waiting, App
    <2>4. At(k) = Goal(k)
      BY <2>2, <2>3 DEF OutboxInv, StaffInv
    <2> QED
      BY <2>2, <2>4 DEF At, Goal, Belongs
  <1> QED
    BY <1>1, OutboxInvariant, PTL

(* Once the rows of a student or node are processed, SpiceDB has exactly   *)
(* the memberships or the parent that Postgres has, unless a row overtook  *)
(* an older one or the sync left memberships out.  (DeleteBySubject, Touch *)
(* and ReplaceForObject applied by processOnce in outbox/worker.go.)       *)
THEOREM StoredRowsConverge == Spec => []StoredConverge
  <1>1. ASSUME OutboxInv, NEW k \in MemberKeys \cup ParentKeys, Followed(k), AllDone(k)
        PROVE  At(k) = Goal(k)
    <2>1. PICK e \in Nat : Follows(k, e)
      BY <1>1 DEF OutboxInv, StoredInv
    <2>2. e = 0 \/ App(e)
      BY <1>1, <2>1 DEF Follows, Last, AllDone, App
    <2>3. CASE e = 0 /\ k \in ParentKeys
      BY <2>1, <2>3 DEF Follows
    <2>4. CASE ~(e = 0 /\ k \in ParentKeys)
      <3>1. Brings(k, e) /\ Agrees(k, e)
        BY <2>1, <2>2, <2>4 DEF Follows
      <3>2. \A r \in DOMAIN rows : rows[r].key = k => App(r)
        BY <1>1 DEF AllDone, App
      <3>3. Goal(k) \subseteq At(k)
        BY <3>1, <3>2 DEF Brings, Agrees
      <3> QED
        BY <3>1, <3>3 DEF Agrees
    <2> QED
      BY <2>3, <2>4
  <1>2. OutboxInv => StoredConverge
    <2> SUFFICES ASSUME OutboxInv
                 PROVE  StoredConverge
      OBVIOUS
    <2>1. ASSUME NEW u \in Students \ narrowed, AllDone(<<"member", u>>), <<"member", u>> \notin reordered
          PROVE  {t \in spice : t[1] = "member" /\ t[3] = u} = Membership(u, member[u])
      <3>1. PICK k : k = <<"member", u>>
        OBVIOUS
      <3>2. k \in MemberKeys /\ k[1] = "member" /\ k[2] = u
        BY <3>1 DEF MemberKeys
      <3>3. At(k) = Goal(k)
        BY <1>1, <2>1, <3>1, <3>2 DEF Followed
      <3> QED
        BY <3>2, <3>3 DEF At, Goal, Belongs
    <2>2. ASSUME NEW n \in Nodes, AllDone(<<"parent", n>>), <<"parent", n>> \notin reordered
          PROVE  {t \in spice : t[1] = "parent" /\ t[2] = n} = {<<"parent", n, parent[n]>>}
      <3>1. PICK k : k = <<"parent", n>>
        OBVIOUS
      <3>2. k \in ParentKeys /\ k \notin MemberKeys /\ k[1] = "parent" /\ k[2] = n
        BY <3>1 DEF ParentKeys, MemberKeys
      <3>3. At(k) = Goal(k)
        BY <1>1, <2>2, <3>1, <3>2 DEF Followed
      <3> QED
        BY <3>2, <3>3 DEF At, Goal, Belongs
    <2> QED
      BY <2>1, <2>2 DEF StoredConverge
  <1> QED
    BY <1>2, OutboxInvariant, PTL

===============================================================================
