----------------------------- MODULE HostProofs -----------------------------
(***************************************************************************)
(* Safety of what the host keeps for plugins: the connections behind their *)
(* SQL handles, the sizes of the values they store, the files they share   *)
(* with users, the dead letters of the bus in memory, and the record,      *)
(* versions and binaries of the plugins themselves with what the replicas  *)
(* run of them, for any number of executions, events, requests and         *)
(* replicas, any limits and any number of failures.                        *)
(***************************************************************************)
EXTENDS HostCalls, FileStore, MemoryBus, PluginLifecycle, Integers, SequenceTheorems,
        FiniteSetTheorems, TLAPS

-----------------------------------------------------------------------------
(* The bus in memory *)

Occurs(e, s) == \E i \in 1..Len(s) : s[i] = e

LEMMA OccursInAppend ==
  ASSUME NEW S, NEW s \in Seq(S), NEW a \in S, NEW e
  PROVE  Append(s, a) \in Seq(S) /\ (Occurs(e, Append(s, a)) <=> Occurs(e, s) \/ e = a)
  <1>1. PICK n \in Nat : n = Len(s)
    OBVIOUS
  <1>2. PICK t : t = Append(s, a)
    OBVIOUS
  <1>3. t \in Seq(S) /\ Len(t) = n + 1 /\ t[n + 1] = a /\ \A i \in 1..n : t[i] = s[i]
    BY <1>1, <1>2
  <1>4. ASSUME Occurs(e, s) \/ e = a
        PROVE  Occurs(e, t)
    <2>1. CASE Occurs(e, s)
      <3>1. PICK i \in 1..n : s[i] = e
        BY <1>1, <2>1 DEF Occurs
      <3>2. i \in 1..(n + 1)
        BY <3>1
      <3> QED
        BY <1>3, <3>1, <3>2 DEF Occurs
    <2>2. CASE e = a
      BY <1>3, <2>2 DEF Occurs
    <2> QED
      BY <1>4, <2>1, <2>2
  <1>5. ASSUME Occurs(e, t)
        PROVE  Occurs(e, s) \/ e = a
    <2>1. PICK i \in 1..(n + 1) : t[i] = e
      BY <1>3, <1>5 DEF Occurs
    <2>2. CASE i = n + 1
      BY <1>3, <2>1, <2>2
    <2>3. CASE i \in 1..n
      BY <1>1, <1>3, <2>1, <2>3 DEF Occurs
    <2> QED
      BY <2>2, <2>3
  <1> QED
    BY <1>2, <1>3, <1>4, <1>5

LEMMA OccursInTail ==
  ASSUME NEW S, NEW s \in Seq(S), s # <<>>, NEW e
  PROVE  /\ Tail(s) \in Seq(S) /\ Head(s) \in S
         /\ Occurs(e, s) <=> Occurs(e, Tail(s)) \/ e = Head(s)
  <1>1. PICK n \in Nat : n = Len(s)
    OBVIOUS
  <1>2. PICK t, h : t = Tail(s) /\ h = Head(s)
    OBVIOUS
  <1>3. n > 0
    BY <1>1
  <1>4. t \in Seq(S) /\ h \in S /\ Len(t) = n - 1 /\ h = s[1] /\ \A i \in 1..(n - 1) : t[i] = s[i + 1]
    BY <1>1, <1>2, <1>3
  <1>5. ASSUME Occurs(e, s)
        PROVE  Occurs(e, t) \/ e = h
    <2>1. PICK i \in 1..n : s[i] = e
      BY <1>1, <1>5 DEF Occurs
    <2>2. CASE i = 1
      BY <1>4, <2>1, <2>2
    <2>3. CASE i # 1
      <3>1. i - 1 \in 1..(n - 1) /\ (i - 1) + 1 = i
        BY <2>1, <2>3
      <3>2. t[i - 1] = e
        BY <1>4, <2>1, <3>1
      <3> QED
        BY <1>4, <3>1, <3>2 DEF Occurs
    <2> QED
      BY <2>2, <2>3
  <1>6. ASSUME Occurs(e, t) \/ e = h
        PROVE  Occurs(e, s)
    <2>1. CASE Occurs(e, t)
      <3>1. PICK i \in 1..(n - 1) : t[i] = e
        BY <1>4, <2>1 DEF Occurs
      <3>2. i + 1 \in 1..n /\ s[i + 1] = e
        BY <1>4, <3>1
      <3> QED
        BY <1>1, <3>2 DEF Occurs
    <2>2. CASE e = h
      BY <1>1, <1>3, <1>4, <2>2 DEF Occurs
    <2> QED
      BY <1>6, <2>1, <2>2
  <1> QED
    BY <1>2, <1>4, <1>5, <1>6

(* Some handler was called with the event, and has not handled it. *)
Missed(call, done) == \E n \in BusHandlers : n < call.at /\ n \notin done

(* Where an event can still be found that a handler refused: in the list, *)
(* or, while a replay is about to overwrite it, with the replay.          *)
Kept(e, letters, r, excused) ==
    \/ e \in excused
    \/ r.pc = "none" /\ Occurs(e, letters)
    \/ r.pc # "none" /\ (Occurs(e, r.todo) \/ Occurs(e, r.remaining))

PublishCall == [pc : {"none", "deliver", "returned"}, at : Nat, tries : Nat, failed : BOOLEAN]

Replay == [pc : {"none", "next", "entry"}, todo : Seq(Events), remaining : Seq(Events)]

BusTyped ==
    /\ dlq \in Seq(Events)
    /\ publishing \in [Events -> PublishCall]
    /\ replay \in Replay
    /\ replay.pc = "entry" => replay.todo # <<>>
    /\ got \in [Events -> SUBSET BusHandlers]

(* A call remembers that a handler refused, and returns after the last.    *)
CallAccounts(call, done) ==
    /\ Missed(call, done) => call.failed
    /\ call.pc = "deliver" => call.at \in BusHandlers
    /\ call.pc = "returned" => call.at # 0 /\ call.at \notin BusHandlers

EventAccounts(e, call, done, letters, r, excused) ==
    /\ CallAccounts(call, done)
    /\ Missed(call, done) => Kept(e, letters, r, excused)

BusInv ==
    /\ BusTyped
    /\ \A e \in Events : EventAccounts(e, publishing[e], got[e], dlq, replay, excusedDead)

(* The handlers are numbered 1..n, so that a call that has passed the last *)
(* one has called them all.                                                *)
LEMMA AllHandlersCalled ==
  ASSUME NEW k \in Nat, k # 0, k \notin BusHandlers, NEW n \in BusHandlers
  PROVE  n < k
  <1>1. n \in Nat /\ 1..n \subseteq BusHandlers
    BY BusAssumption
  <1>2. ~(k <= n)
    BY <1>1
  <1> QED
    BY <1>1, <1>2

(* The call that goes on after a handler that succeeded, or refused. *)
LEMMA NextHandlerCall ==
  ASSUME NEW e \in Events, publishing \in [Events -> PublishCall], publishing[e].at \in BusHandlers,
         NEW p, p = publishing[e]
  PROVE  /\ \E c \in PublishCall :
              /\ NextHandler(e, FALSE) = [publishing EXCEPT ![e] = c]
              /\ c.at = p.at + 1 /\ c.failed = p.failed
              /\ c.pc = "deliver" => c.at \in BusHandlers
              /\ c.pc = "returned" => c.at # 0 /\ c.at \notin BusHandlers
         /\ \E c \in PublishCall :
              /\ NextHandler(e, TRUE) = [publishing EXCEPT ![e] = c]
              /\ c.at = p.at + 1 /\ c.failed
              /\ c.pc = "deliver" => c.at \in BusHandlers
              /\ c.pc = "returned" => c.at # 0 /\ c.at \notin BusHandlers
  <1>1. p \in PublishCall /\ p.at \in Nat /\ p.failed \in BOOLEAN
    BY DEF PublishCall
  <1>2. PICK c : c = [pc |-> IF p.at + 1 \in BusHandlers THEN "deliver" ELSE "returned", at |-> p.at + 1,
                      tries |-> 0, failed |-> p.failed \/ FALSE]
    OBVIOUS
  <1>3. PICK d : d = [pc |-> IF p.at + 1 \in BusHandlers THEN "deliver" ELSE "returned", at |-> p.at + 1,
                      tries |-> 0, failed |-> p.failed \/ TRUE]
    OBVIOUS
  <1>4. c \in PublishCall /\ d \in PublishCall
    BY <1>1, <1>2, <1>3 DEF PublishCall
  <1>5. NextHandler(e, FALSE) = [publishing EXCEPT ![e] = c]
    BY <1>2 DEF NextHandler
  <1>6. NextHandler(e, TRUE) = [publishing EXCEPT ![e] = d]
    BY <1>3 DEF NextHandler
  <1>7. /\ c.at = p.at + 1 /\ c.failed = p.failed
        /\ c.pc = "deliver" => c.at \in BusHandlers
        /\ c.pc = "returned" => c.at # 0 /\ c.at \notin BusHandlers
    BY <1>1, <1>2
  <1>8. /\ d.at = p.at + 1
        /\ d.pc = "deliver" => d.at \in BusHandlers
        /\ d.pc = "returned" => d.at # 0 /\ d.at \notin BusHandlers
    BY <1>1, <1>3
  <1>9. d.failed
    BY <1>3
  <1> QED
    BY <1>4, <1>5, <1>6, <1>7, <1>8, <1>9

(* A dead letter is in the list afterwards, and only the oldest one leaves *)
(* it.                                                                     *)
LEMMA DeadLetterAdded ==
  ASSUME dlq \in Seq(Events), NEW e \in Events
  PROVE  /\ AddToDLQ(e) \in Seq(Events)
         /\ Occurs(e, AddToDLQ(e))
         /\ \A f : Occurs(f, dlq) => \/ Occurs(f, AddToDLQ(e))
                                     \/ Len(dlq) >= DLQMaxSize /\ f = Head(dlq)
  <1>1. CASE Len(dlq) >= DLQMaxSize
    <2>1. dlq # <<>>
      BY <1>1, BusAssumption
    <2>2. PICK t : t = Tail(dlq)
      OBVIOUS
    <2>3. t \in Seq(Events) /\ AddToDLQ(e) = Append(t, e)
      BY <1>1, <2>1, <2>2, OccursInTail DEF AddToDLQ
    <2>4. \A f : Occurs(f, Append(t, e)) <=> Occurs(f, t) \/ f = e
      BY <2>3, OccursInAppend
    <2>5. Append(t, e) \in Seq(Events)
      BY <2>3
    <2>6. \A f : Occurs(f, dlq) <=> Occurs(f, t) \/ f = Head(dlq)
      BY <2>1, <2>2, OccursInTail
    <2> QED
      BY <1>1, <2>3, <2>4, <2>5, <2>6
  <1>2. CASE ~(Len(dlq) >= DLQMaxSize)
    <2>1. AddToDLQ(e) = Append(dlq, e)
      BY <1>2 DEF AddToDLQ
    <2>2. \A f : Occurs(f, Append(dlq, e)) <=> Occurs(f, dlq) \/ f = e
      BY OccursInAppend
    <2> QED
      BY <2>1, <2>2
  <1> QED
    BY <1>1, <1>2


(* A step of the call of one event, while nothing of the other events gets *)
(* lost.                                                                   *)
LEMMA OneCallGoesOn ==
  ASSUME BusInv, NEW e \in Events, NEW c \in PublishCall, NEW d \in SUBSET BusHandlers,
         publishing' = [publishing EXCEPT ![e] = c], got' = [got EXCEPT ![e] = d],
         dlq' \in Seq(Events), replay' \in Replay, replay'.pc = "entry" => replay'.todo # <<>>,
         CallAccounts(c, d),
         Missed(c, d) => Kept(e, dlq', replay', excusedDead'),
         \A f \in Events : Kept(f, dlq, replay, excusedDead) => Kept(f, dlq', replay', excusedDead')
  PROVE  BusInv'
  <1>1. publishing \in [Events -> PublishCall] /\ got \in [Events -> SUBSET BusHandlers]
    BY DEF BusInv, BusTyped
  <1>2. BusTyped'
    BY <1>1 DEF BusTyped
  <1>3. ASSUME NEW f \in Events
        PROVE  EventAccounts(f, publishing'[f], got'[f], dlq', replay', excusedDead')
    <2>1. CASE f = e
      <3>1. publishing'[f] = c /\ got'[f] = d
        BY <1>1, <2>1
      <3> QED
        BY <2>1, <3>1 DEF EventAccounts
    <2>2. CASE f # e
      <3>1. publishing'[f] = publishing[f] /\ got'[f] = got[f]
        BY <1>1, <2>2
      <3>2. EventAccounts(f, publishing[f], got[f], dlq, replay, excusedDead)
        BY DEF BusInv
      <3> QED
        BY <3>1, <3>2 DEF EventAccounts
    <2> QED
      BY <2>1, <2>2
  <1> QED
    BY <1>2, <1>3 DEF BusInv

(* A step of no call. *)
LEMMA NoCallGoesOn ==
  ASSUME BusInv, publishing' = publishing, got' = got,
         dlq' \in Seq(Events), replay' \in Replay, replay'.pc = "entry" => replay'.todo # <<>>,
         \A f \in Events : /\ Kept(f, dlq, replay, excusedDead)
                           /\ Missed(publishing[f], got[f]) => publishing[f].failed
                           => Kept(f, dlq', replay', excusedDead') \/ ~Missed(publishing[f], got[f])
  PROVE  BusInv'
  <1>1. BusTyped'
    BY DEF BusInv, BusTyped
  <1>2. ASSUME NEW f \in Events
        PROVE  EventAccounts(f, publishing[f], got[f], dlq', replay', excusedDead')
    <2>1. EventAccounts(f, publishing[f], got[f], dlq, replay, excusedDead)
      BY DEF BusInv
    <2> QED
      BY <2>1 DEF EventAccounts, CallAccounts
  <1> QED
    BY <1>1, <1>2 DEF BusInv

(* Nothing was called yet in a call that starts, or starts again. *)
LEMMA NothingMissedYet ==
  ASSUME NEW c, NEW d, c.at \in {0, 1}
  PROVE  ~Missed(c, d)
  BY BusAssumption DEF Missed

LEMMA DeliverWithRetryBusInv ==
  ASSUME BusInv, NEW e \in Events, DeliverWithRetry(e)
  PROVE  BusInv'
  <1>1. PICK p, g : p = publishing[e] /\ g = got[e]
    OBVIOUS
  <1>2. /\ publishing \in [Events -> PublishCall] /\ got \in [Events -> SUBSET BusHandlers]
        /\ p \in PublishCall /\ g \in SUBSET BusHandlers
    BY <1>1 DEF BusInv, BusTyped
  <1>3. p.pc = "deliver" /\ replay' = replay /\ replay \in Replay /\ (replay.pc = "entry" => replay.todo # <<>>)
        /\ dlq \in Seq(Events)
    BY <1>1 DEF DeliverWithRetry, Calling, BusInv, BusTyped
  <1>4. EventAccounts(e, p, g, dlq, replay, excusedDead)
    BY <1>1 DEF BusInv
  <1>5. p.at \in BusHandlers /\ p.at \in Nat /\ p.failed \in BOOLEAN
    BY <1>2, <1>3, <1>4 DEF EventAccounts, CallAccounts, PublishCall
  <1>6. ASSUME got' = [got EXCEPT ![e] = @ \cup {publishing[e].at}],
               publishing' = NextHandler(e, FALSE), UNCHANGED <<dlq, excusedDead>>
        PROVE  BusInv'
    <2>1. PICK c \in PublishCall :
            /\ publishing' = [publishing EXCEPT ![e] = c]
            /\ c.at = p.at + 1 /\ c.failed = p.failed
            /\ c.pc = "deliver" => c.at \in BusHandlers
            /\ c.pc = "returned" => c.at # 0 /\ c.at \notin BusHandlers
      <3>1. publishing[e].at \in BusHandlers
        BY <1>1, <1>5
      <3>2. \E c \in PublishCall :
               /\ NextHandler(e, FALSE) = [publishing EXCEPT ![e] = c]
               /\ c.at = p.at + 1 /\ c.failed = p.failed
               /\ c.pc = "deliver" => c.at \in BusHandlers
               /\ c.pc = "returned" => c.at # 0 /\ c.at \notin BusHandlers
        BY <1>1, <1>2, <3>1, NextHandlerCall
      <3> QED
        BY <1>6, <3>2
    <2>2. PICK d : d = g \cup {p.at}
      OBVIOUS
    <2>3. d \in SUBSET BusHandlers /\ got' = [got EXCEPT ![e] = d]
      BY <1>1, <1>2, <1>5, <1>6, <2>2
    <2>4. Missed(c, d) => Missed(p, g)
      <3> SUFFICES ASSUME NEW n \in BusHandlers, n < c.at, n \notin d
                   PROVE  Missed(p, g)
        BY DEF Missed
      <3>1. n \in Nat /\ n # p.at /\ n \notin g
        BY <2>2, BusAssumption
      <3>2. n < p.at
        BY <1>5, <2>1, <3>1
      <3> QED
        BY <3>1, <3>2 DEF Missed
    <2>5. CallAccounts(c, d)
      BY <1>4, <2>1, <2>4 DEF EventAccounts, CallAccounts
    <2>6. Missed(c, d) => Kept(e, dlq, replay, excusedDead)
      BY <1>4, <2>4 DEF EventAccounts
    <2>7. dlq' = dlq /\ excusedDead' = excusedDead
      BY <1>6
    <2> QED
      BY <1>3, <2>1, <2>3, <2>5, <2>6, <2>7, OneCallGoesOn
  <1>7. ASSUME publishing' = [publishing EXCEPT ![e].tries = @ + 1], UNCHANGED <<dlq, got, excusedDead>>
        PROVE  BusInv'
    <2>1. PICK c : c = [p EXCEPT !.tries = @ + 1]
      OBVIOUS
    <2>2. c \in PublishCall /\ c.pc = p.pc /\ c.at = p.at /\ c.failed = p.failed
      BY <1>2, <2>1 DEF PublishCall
    <2>3. publishing' = [publishing EXCEPT ![e] = c]
      BY <1>1, <1>7, <2>1
    <2>4. got' = [got EXCEPT ![e] = g] /\ dlq' = dlq /\ excusedDead' = excusedDead
      BY <1>1, <1>2, <1>7
    <2>5. EventAccounts(e, c, g, dlq, replay, excusedDead)
      BY <1>4, <2>2 DEF EventAccounts, CallAccounts, Missed
    <2> QED
      BY <1>2, <1>3, <2>2, <2>3, <2>4, <2>5, OneCallGoesOn DEF EventAccounts
  <1>8. ASSUME publishing' = NextHandler(e, TRUE), dlq' = AddToDLQ(e), got' = got,
               excusedDead' = excusedDead \cup (IF Len(dlq) >= DLQMaxSize THEN {Head(dlq)} ELSE {})
                                          \cup (IF replay.pc = "none" \/ Replaying(e) THEN {} ELSE {e})
        PROVE  BusInv'
    <2>1. PICK c \in PublishCall :
            /\ publishing' = [publishing EXCEPT ![e] = c]
            /\ c.at = p.at + 1 /\ c.failed
            /\ c.pc = "deliver" => c.at \in BusHandlers
            /\ c.pc = "returned" => c.at # 0 /\ c.at \notin BusHandlers
      <3>1. publishing[e].at \in BusHandlers
        BY <1>1, <1>5
      <3>2. \E c \in PublishCall :
               /\ NextHandler(e, TRUE) = [publishing EXCEPT ![e] = c]
               /\ c.at = p.at + 1 /\ c.failed
               /\ c.pc = "deliver" => c.at \in BusHandlers
               /\ c.pc = "returned" => c.at # 0 /\ c.at \notin BusHandlers
        BY <1>1, <1>2, <3>1, NextHandlerCall
      <3> QED
        BY <1>8, <3>2
    <2>2. got' = [got EXCEPT ![e] = g]
      BY <1>1, <1>2, <1>8
    <2>3. CallAccounts(c, g)
      BY <2>1 DEF CallAccounts
    <2>4. PICK t : t = AddToDLQ(e)
      OBVIOUS
    <2>5. /\ t \in Seq(Events) /\ Occurs(e, t) /\ dlq' = t
          /\ \A f : Occurs(f, dlq) => Occurs(f, t) \/ f \in excusedDead'
      BY <1>3, <1>8, <2>4, DeadLetterAdded
    <2>6. Kept(e, t, replay, excusedDead')
      <3>1. CASE replay.pc = "none"
        BY <2>5, <3>1 DEF Kept
      <3>2. CASE Replaying(e)
        <4>1. replay.todo # <<>> /\ Head(replay.todo) = e /\ replay.pc = "entry" /\ replay.todo \in Seq(Events)
          BY <1>3, <3>2 DEF Replaying, Replay
        <4>2. Occurs(e, replay.todo)
          BY <4>1, OccursInTail
        <4> QED
          BY <4>1, <4>2 DEF Kept
      <3>3. CASE ~(replay.pc = "none" \/ Replaying(e))
        BY <1>8, <3>3 DEF Kept
      <3> QED
        BY <3>1, <3>2, <3>3
    <2>7. ASSUME NEW f \in Events, Kept(f, dlq, replay, excusedDead)
          PROVE  Kept(f, t, replay, excusedDead')
      <3>1. f \in excusedDead => f \in excusedDead'
        BY <1>8
      <3> QED
        BY <2>5, <2>7, <3>1 DEF Kept
    <2> QED
      BY <1>2, <1>3, <2>1, <2>2, <2>3, <2>5, <2>6, <2>7, OneCallGoesOn
  <1> QED
    BY <1>6, <1>7, <1>8 DEF DeliverWithRetry


(* The replay, and a purge. *)
LEMMA ListBusInv ==
  ASSUME BusInv, ReplayDLQ \/ ReplayedEntry \/ ReplayEnds \/ PurgeDLQ
  PROVE  BusInv'
  <1>1. PICK r : r = replay
    OBVIOUS
  <1>2. /\ r \in Replay /\ r.todo \in Seq(Events) /\ r.remaining \in Seq(Events)
        /\ r.pc = "entry" => r.todo # <<>>
        /\ dlq \in Seq(Events) /\ <<>> \in Seq(Events)
    BY <1>1 DEF BusInv, BusTyped, Replay
  <1>3. CASE ReplayDLQ
    <2>1. /\ replay' = [pc |-> "next", todo |-> dlq, remaining |-> <<>>] /\ r.pc = "none"
          /\ dlq' = dlq /\ publishing' = publishing /\ got' = got /\ excusedDead' = excusedDead
      BY <1>1, <1>3 DEF ReplayDLQ
    <2>2. replay' \in Replay /\ replay'.pc = "next" /\ replay'.todo = dlq
      BY <1>2, <2>1 DEF Replay
    <2>3. ASSUME NEW f \in Events, Kept(f, dlq, replay, excusedDead)
          PROVE  Kept(f, dlq', replay', excusedDead')
      BY <1>1, <2>1, <2>2, <2>3 DEF Kept
    <2> QED
      BY <1>2, <2>1, <2>2, <2>3, NoCallGoesOn
  <1>4. CASE ReplayedEntry
    <2>1. PICK h, t, m : h = Head(r.todo) /\ t = Tail(r.todo) /\ m = Remaining(h)
      OBVIOUS
    <2>2. /\ replay' = [pc |-> "next", todo |-> t, remaining |-> m] /\ r.pc = "entry"
          /\ dlq' = dlq /\ publishing' = publishing /\ got' = got /\ excusedDead' = excusedDead
      BY <1>1, <1>4, <2>1 DEF ReplayedEntry
    <2>3. /\ t \in Seq(Events) /\ h \in Events
          /\ \A f \in Events : Occurs(f, r.todo) <=> Occurs(f, t) \/ f = h
      BY <1>2, <2>1, <2>2, OccursInTail
    <2>4. m = IF publishing[h].failed THEN Append(r.remaining, h) ELSE r.remaining
      BY <1>1, <2>1 DEF Remaining
    <2>5. /\ m \in Seq(Events)
          /\ \A f \in Events : Occurs(f, r.remaining) => Occurs(f, m)
          /\ publishing[h].failed => Occurs(h, m)
      BY <1>2, <2>3, <2>4, OccursInAppend
    <2>6. replay' \in Replay /\ replay'.pc = "next" /\ replay'.todo = t /\ replay'.remaining = m
      BY <2>2, <2>3, <2>5 DEF Replay
    <2>7. ASSUME NEW f \in Events, Kept(f, dlq, replay, excusedDead), publishing[f].failed
          PROVE  Kept(f, dlq', replay', excusedDead')
      BY <1>1, <2>2, <2>3, <2>5, <2>6, <2>7 DEF Kept
    <2> QED
      BY <1>2, <2>2, <2>6, <2>7, NoCallGoesOn
  <1>5. CASE ReplayEnds
    <2>1. /\ replay' = NoReplay /\ r.pc = "next" /\ r.todo = <<>>
          /\ dlq' = r.remaining /\ publishing' = publishing /\ got' = got
          /\ excusedDead' = excusedDead \ {r.remaining[i] : i \in DOMAIN r.remaining}
      BY <1>1, <1>5 DEF ReplayEnds
    <2>2. NoReplay \in Replay /\ NoReplay.pc = "none"
      BY <1>2 DEF NoReplay, Replay
    <2>3. ASSUME NEW f \in Events, Kept(f, dlq, replay, excusedDead)
          PROVE  Kept(f, dlq', replay', excusedDead')
      <3>1. ~Occurs(f, r.todo)
        BY <2>1 DEF Occurs
      <3>2. f \in excusedDead \/ Occurs(f, r.remaining)
        BY <1>1, <2>1, <2>3, <3>1 DEF Kept
      <3>3. f \in {r.remaining[i] : i \in DOMAIN r.remaining} => Occurs(f, r.remaining)
        BY <1>2 DEF Occurs
      <3> QED
        BY <2>1, <2>2, <3>2, <3>3 DEF Kept
    <2> QED
      BY <1>2, <2>1, <2>2, <2>3, NoCallGoesOn
  <1>6. CASE PurgeDLQ
    <2>1. /\ replay' = replay /\ dlq' = <<>> /\ publishing' = publishing /\ got' = got
          /\ excusedDead' = excusedDead \cup InDlq
      BY <1>6 DEF PurgeDLQ
    <2>2. ASSUME NEW f \in Events, Kept(f, dlq, replay, excusedDead)
          PROVE  Kept(f, dlq', replay', excusedDead')
      <3>1. Occurs(f, dlq) => f \in InDlq
        BY <1>2 DEF Occurs, InDlq
      <3> QED
        BY <2>1, <2>2, <3>1 DEF Kept
    <2> QED
      BY <1>1, <1>2, <2>1, <2>2, NoCallGoesOn
  <1> QED
    BY <1>3, <1>4, <1>5, <1>6

(* A publisher, or the replay, starts to call the handlers. *)
LEMMA StartsBusInv ==
  ASSUME BusInv, ReplayEntry \/ \E e \in Events : PublishEvent(e)
  PROVE  BusInv'
  <1>1. PICK c : c = [pc |-> "deliver", at |-> 1, tries |-> 0, failed |-> FALSE]
    OBVIOUS
  <1>2. c \in PublishCall /\ c.at = 1 /\ c.pc = "deliver"
    BY <1>1 DEF PublishCall
  <1>3. PICK r \in Replay : r = replay
    BY DEF BusInv, BusTyped
  <1>4. /\ got \in [Events -> SUBSET BusHandlers] /\ dlq \in Seq(Events) /\ r.todo \in Seq(Events)
        /\ r.pc = "entry" => r.todo # <<>>
    BY <1>3 DEF BusInv, BusTyped, Replay
  <1>5. PICK q \in Replay : q = [r EXCEPT !.pc = "entry"]
    BY <1>3 DEF Replay
  <1>6. q.pc = "entry" /\ q.todo = r.todo /\ q.remaining = r.remaining
    BY <1>3, <1>5 DEF Replay
  <1>7. PICK e \in Events :
          /\ publishing' = [publishing EXCEPT ![e] = c] /\ got' = got /\ dlq' = dlq /\ excusedDead' = excusedDead
          /\ replay' = r \/ (r.pc = "next" /\ r.todo # <<>> /\ replay' = q)
    <2>1. CASE ReplayEntry
      <3>1. r.todo # <<>> /\ Head(r.todo) \in Events
        BY <1>3, <1>4, <2>1, OccursInTail DEF ReplayEntry
      <3> QED
        BY <1>1, <1>3, <1>5, <2>1, <3>1 DEF ReplayEntry
    <2>2. ASSUME NEW e \in Events, PublishEvent(e)
          PROVE  /\ publishing' = [publishing EXCEPT ![e] = c] /\ got' = got /\ dlq' = dlq
                 /\ excusedDead' = excusedDead /\ replay' = r
      BY <1>1, <1>3, <2>2 DEF PublishEvent
    <2> QED
      BY <2>1, <2>2
  <1>8. PICK d : d = got[e]
    OBVIOUS
  <1>9. d \in SUBSET BusHandlers /\ got' = [got EXCEPT ![e] = d]
    BY <1>4, <1>7, <1>8
  <1>10. ~Missed(c, d)
    BY <1>2, NothingMissedYet
  <1>11. CallAccounts(c, d)
    BY <1>2, <1>10, BusAssumption DEF CallAccounts
  <1>12. replay' \in Replay /\ (replay'.pc = "entry" => replay'.todo # <<>>)
    BY <1>3, <1>4, <1>6, <1>7
  <1>13. ASSUME NEW f \in Events, Kept(f, dlq, replay, excusedDead)
         PROVE  Kept(f, dlq', replay', excusedDead')
    BY <1>3, <1>6, <1>7, <1>13 DEF Kept
  <1> QED
    BY <1>2, <1>4, <1>7, <1>9, <1>10, <1>11, <1>12, <1>13, OneCallGoesOn

(* No event disappears from the bus in memory: once nothing is under way,  *)
(* an event has reached every handler or is a dead letter, unless it fell  *)
(* off the full list, was purged, or was added while a replay was about to *)
(* overwrite the list.  (deliverWithRetry, addToDLQ, ReplayDLQ and         *)
(* PurgeDLQ in wasm/eventbus/eventbus.go.)                                 *)
THEOREM NoEventDisappears == BusSpec => []DeadLettersKept
  <1>1. BusInit => BusInv
    <2> SUFFICES ASSUME BusInit PROVE BusInv
      OBVIOUS
    <2>1. /\ dlq = <<>> /\ <<>> \in Seq(Events) /\ NoReplay.pc = "none" /\ NoReplay \in Replay
          /\ NotPublished \in PublishCall /\ NotPublished.at = 0 /\ NotPublished.pc = "none"
      BY DEF BusInit, NoReplay, Replay, NotPublished, PublishCall
    <2>2. BusTyped
      BY <2>1 DEF BusInit, BusTyped
    <2>3. ASSUME NEW e \in Events
          PROVE  EventAccounts(e, publishing[e], got[e], dlq, replay, excusedDead)
      <3>1. publishing[e] = NotPublished
        BY DEF BusInit
      <3>2. ~Missed(publishing[e], got[e])
        BY <2>1, <3>1, NothingMissedYet
      <3> QED
        BY <2>1, <3>1, <3>2 DEF EventAccounts, CallAccounts
    <2> QED
      BY <2>2, <2>3 DEF BusInv
  <1>2. BusInv /\ [BusNext]_busVars => BusInv'
    <2> SUFFICES ASSUME BusInv, [BusNext]_busVars PROVE BusInv'
      OBVIOUS
    <2>1. CASE UNCHANGED busVars
      <3>1. UNCHANGED <<dlq, publishing, replay, got, excusedDead>>
        BY <2>1 DEF busVars
      <3> QED
        BY <3>1 DEF BusInv, BusTyped
    <2> QED
      BY <2>1, StartsBusInv, ListBusInv, DeliverWithRetryBusInv DEF BusNext
  <1>3. BusInv => DeadLettersKept
    <2> SUFFICES ASSUME BusInv, replay.pc = "none", NEW e \in Events, publishing[e].pc = "returned"
                 PROVE  got[e] = BusHandlers \/ e \in InDlq \/ e \in excusedDead
      BY DEF DeadLettersKept
    <2>1. EventAccounts(e, publishing[e], got[e], dlq, replay, excusedDead)
      BY DEF BusInv
    <2>2. dlq \in Seq(Events) /\ got[e] \subseteq BusHandlers /\ publishing[e].at \in Nat
      BY DEF BusInv, BusTyped, PublishCall
    <2>3. CASE Missed(publishing[e], got[e])
      <3>1. e \in excusedDead \/ Occurs(e, dlq)
        BY <2>1, <2>3 DEF EventAccounts, Kept
      <3> QED
        BY <2>2, <3>1 DEF Occurs, InDlq
    <2>4. CASE ~Missed(publishing[e], got[e])
      <3>1. publishing[e].at # 0 /\ publishing[e].at \notin BusHandlers
        BY <2>1 DEF EventAccounts, CallAccounts
      <3>2. \A n \in BusHandlers : n < publishing[e].at
        BY <2>2, <3>1, AllHandlersCalled
      <3> QED
        BY <2>2, <2>4, <3>2 DEF Missed
    <2> QED
      BY <2>3, <2>4
  <1> QED
    BY <1>1, <1>2, <1>3, PTL DEF BusSpec


-----------------------------------------------------------------------------
(* Files *)

FileMeta == [state : {"none", "pending", "ready"}, owned : BOOLEAN, size : Nat, expected : Nat, expires : BOOLEAN]

Storing == {"storeMeta", "undoData"}

Completing == {"load", "head", "putMeta", "check"}

FilePcs == {"idle", "deleteData", "deleteMeta"} \cup Storing \cup Completing

FileJob == [pc : FilePcs, seen : FileMeta, size : Nat]

FileTyped ==
    /\ data \in Sizes \cup {Missing}
    /\ meta \in FileMeta
    /\ meta.state = "none" => meta = NoMeta
    /\ filejobs \in [Jobs -> FileJob]
    /\ torn \in BOOLEAN

(* A file is created once, *)
CreatedOnce ==
    url = "none" => meta = NoMeta /\ data = Missing /\ \A j \in Jobs : filejobs[j].pc = "idle"

(* and while a file is being stored nobody else can know of it.            *)
StoringAlone ==
    \A j \in Jobs : filejobs[j].pc \in Storing =>
        /\ meta = NoMeta /\ url = "over"
        /\ \A i \in Jobs : i # j => filejobs[i].pc = "idle"
        /\ filejobs[j].pc = "storeMeta" => data # Missing

(* A request that completes an upload has found the data. *)
SizeKnown ==
    \A j \in Jobs : filejobs[j].pc = "putMeta" => filejobs[j].size # Missing

Acceptable(m) == m.size <= MaxFileSize /\ m.expected \in {0, m.size}

(* A request on its way to remove the file. *)
Removes(f) == f.pc \in {"deleteData", "deleteMeta"} \/ (f.pc = "check" /\ SizeRefused(f))

(* While the objects are not torn apart: *)
Together(d, m, jobs) ==
    /\ m.state = "ready" => d = m.size \/ \E j \in Jobs : jobs[j].pc = "deleteMeta"
    /\ (\E j \in Jobs : jobs[j].pc = "deleteMeta") => d = Missing
    /\ m = NoMeta => d = Missing \/ \E j \in Jobs : jobs[j].pc \in Storing
    /\ m # NoMeta => \A j \in Jobs : jobs[j].pc \in Completing => jobs[j].seen.expected = m.expected
    /\ m.state = "ready" /\ m.owned => Acceptable(m) \/ \E j \in Jobs : Removes(jobs[j])

FileInv ==
    /\ FileTyped /\ CreatedOnce /\ StoringAlone /\ SizeKnown
    /\ ~torn => Together(data, meta, filejobs)

LEMMA NoMetaFacts ==
  /\ NoMeta \in FileMeta /\ NoMeta.state = "none" /\ ~NoMeta.owned /\ ~NoMeta.expires
  /\ NoFileJob \in FileJob /\ NoFileJob.pc = "idle"
  /\ Missing \in Nat /\ Sizes \subseteq Nat /\ Missing \notin Sizes /\ MaxFileSize \in Nat
  BY FileAssumption DEF NoMeta, FileMeta, NoFileJob, FileJob, FilePcs, Missing

(* A request goes on, and neither object changes. *)
LEMMA RequestGoesOn ==
  ASSUME FileInv, NEW j \in Jobs, NEW f \in FileJob, filejobs' = [filejobs EXCEPT ![j] = f],
         data' = data, meta' = meta, torn' = torn,
         url' \in {url, "over"}, url # "none",
         filejobs[j].pc \notin Storing \cup {"deleteMeta"}, f.pc \notin Storing \cup {"deleteMeta"},
         \A i \in Jobs : filejobs[i].pc \notin Storing,
         f.pc = "putMeta" => f.size # Missing,
         f.pc \in Completing /\ ~torn /\ meta # NoMeta => f.seen.expected = meta.expected,
         Removes(filejobs[j]) => Removes(f)
  PROVE  FileInv'
  <1>1. filejobs \in [Jobs -> FileJob]
    BY DEF FileInv, FileTyped
  <1>2. PICK jobs : jobs = filejobs'
    OBVIOUS
  <1>3. jobs \in [Jobs -> FileJob] /\ jobs[j] = f /\ \A i \in Jobs : i # j => jobs[i] = filejobs[i]
    BY <1>1, <1>2
  <1>4. FileTyped'
    BY <1>2, <1>3 DEF FileInv, FileTyped
  <1>5. CreatedOnce'
    BY DEF CreatedOnce
  <1>6. \A i \in Jobs : jobs[i].pc \notin Storing
    BY <1>3
  <1>7. StoringAlone'
    BY <1>2, <1>6 DEF StoringAlone
  <1>8. SizeKnown'
    <2>1. \A i \in Jobs : jobs[i].pc = "putMeta" => jobs[i].size # Missing
      BY <1>3 DEF FileInv, SizeKnown
    <2> QED
      BY <1>2, <2>1 DEF SizeKnown
  <1>9. ASSUME ~torn
        PROVE  Together(data, meta, jobs)
    <2>1. Together(data, meta, filejobs)
      BY <1>9 DEF FileInv
    <2>2. (\E i \in Jobs : jobs[i].pc = "deleteMeta") <=> \E i \in Jobs : filejobs[i].pc = "deleteMeta"
      BY <1>3
    <2>3. meta = NoMeta => data = Missing
      BY <2>1 DEF Together
    <2>4. meta # NoMeta => \A i \in Jobs : jobs[i].pc \in Completing => jobs[i].seen.expected = meta.expected
      BY <1>3, <1>9, <2>1 DEF Together
    <2>5. (\E i \in Jobs : Removes(filejobs[i])) => \E i \in Jobs : Removes(jobs[i])
      BY <1>3
    <2> QED
      BY <2>1, <2>2, <2>3, <2>4, <2>5 DEF Together
  <1> QED
    BY <1>2, <1>4, <1>5, <1>7, <1>8, <1>9 DEF FileInv


LEMMA FileFacts ==
  ASSUME FileInv
  PROVE  /\ filejobs \in [Jobs -> FileJob] /\ meta \in FileMeta /\ data \in Sizes \cup {Missing} /\ data \in Nat
         /\ \A j \in Jobs : filejobs[j] \in FileJob /\ filejobs[j].seen \in FileMeta /\ filejobs[j].pc \in FilePcs
                            /\ filejobs[j].size \in Nat
         /\ meta.state = "none" <=> meta = NoMeta
         /\ \A i, j \in Jobs : filejobs[j].pc \in Storing /\ filejobs[i].pc # "idle" => i = j
         /\ meta # NoMeta => url # "none" /\ \A j \in Jobs : filejobs[j].pc \notin Storing
         /\ \A j \in Jobs : filejobs[j].pc # "idle" => url # "none"
  <1>1. filejobs \in [Jobs -> FileJob] /\ meta \in FileMeta /\ data \in Sizes \cup {Missing}
    BY DEF FileInv, FileTyped
  <1>2. data \in Nat /\ (meta.state = "none" <=> meta = NoMeta)
    BY <1>1, NoMetaFacts DEF FileInv, FileTyped
  <1>3. \A j \in Jobs : filejobs[j] \in FileJob /\ filejobs[j].seen \in FileMeta /\ filejobs[j].pc \in FilePcs
                        /\ filejobs[j].size \in Nat
    BY <1>1 DEF FileJob
  <1>4. \A i, j \in Jobs : filejobs[j].pc \in Storing /\ filejobs[i].pc # "idle" => i = j
    BY DEF FileInv, StoringAlone
  <1>5. meta # NoMeta => url # "none" /\ \A j \in Jobs : filejobs[j].pc \notin Storing
    BY DEF FileInv, StoringAlone, CreatedOnce
  <1>6. \A j \in Jobs : filejobs[j].pc # "idle" => url # "none"
    BY DEF FileInv, CreatedOnce
  <1> QED
    BY <1>1, <1>2, <1>3, <1>4, <1>5, <1>6

(* Requests that only read, and decide. *)
LEMMA ReadersFileInv ==
  ASSUME FileInv, NEW j \in Jobs,
         \/ HandleComplete(j) \/ LoadMeta(j) \/ HeadObject(j) \/ CheckSize(j) \/ HandleDelete(j) \/ Cleanup(j)
  PROVE  FileInv'
  <1>1. PICK k : k = filejobs[j]
    OBVIOUS
  <1>2. k \in FileJob /\ k.seen \in FileMeta /\ k.size \in Nat /\ k.pc \in FilePcs /\ meta \in FileMeta /\ data \in Nat
        /\ meta.size \in Nat
    BY <1>1, FileFacts DEF FileMeta
  <1>3. data' = data /\ meta' = meta /\ torn' = torn /\ url' \in {url, "over"}
    BY DEF HandleComplete, LoadMeta, HeadObject, CheckSize, HandleDelete, Cleanup
  <1>4. /\ k.pc \notin Storing \cup {"deleteMeta"}
        /\ \A i \in Jobs : filejobs[i].pc \notin Storing
        /\ url # "none"
    <2>1. CASE HandleComplete(j) \/ HandleDelete(j) \/ Cleanup(j)
      <3>1. meta # NoMeta /\ k.pc = "idle"
        BY <1>1, <2>1, NoMetaFacts DEF HandleComplete, HandleDelete, Cleanup
      <3> QED
        BY <3>1, <1>1, FileFacts DEF Storing
    <2>2. CASE LoadMeta(j) \/ HeadObject(j) \/ CheckSize(j)
      <3>1. k.pc \in {"load", "head", "check"}
        BY <1>1, <2>2 DEF LoadMeta, HeadObject, CheckSize
      <3> QED
        BY <1>1, <3>1, FileFacts DEF Storing
    <2> QED
      BY <2>1, <2>2
  <1>5. ~torn => Together(data, meta, filejobs)
    BY DEF FileInv
  <1>6. \E f \in FileJob :
          /\ filejobs' = [filejobs EXCEPT ![j] = f]
          /\ f.pc \notin Storing \cup {"deleteMeta"}
          /\ f.pc = "putMeta" => f.size # Missing
          /\ f.pc \in Completing /\ ~torn /\ meta # NoMeta => f.seen.expected = meta.expected
          /\ Removes(k) => Removes(f)
    <2>1. CASE HandleComplete(j)
      <3>1. PICK f : f = [pc |-> "load", seen |-> meta, size |-> 0]
        OBVIOUS
      <3>2. f \in FileJob /\ f.pc = "load" /\ f.seen = meta
        BY <1>2, <3>1 DEF FileJob, FilePcs, Completing
      <3>3. ~Removes(k)
        BY <1>1, <2>1 DEF HandleComplete, Removes
      <3>4. filejobs' = [filejobs EXCEPT ![j] = f]
        BY <2>1, <3>1 DEF HandleComplete
      <3> QED
        BY <3>2, <3>3, <3>4 DEF Storing
    <2>2. CASE LoadMeta(j)
      <3>1. k.pc = "load" /\ ~Removes(k) /\ (~torn /\ meta # NoMeta => k.seen.expected = meta.expected)
        BY <1>1, <1>5, <2>2 DEF LoadMeta, Removes, Together, Completing
      <3>2. CASE filejobs' = [filejobs EXCEPT ![j].pc = "check", ![j].size = meta.size]
        <4>1. PICK f : f = [k EXCEPT !.pc = "check", !.size = meta.size]
          OBVIOUS
        <4>2. f \in FileJob /\ f.pc = "check" /\ f.seen = k.seen
          BY <1>2, <4>1 DEF FileJob, FilePcs, Completing
        <4>3. filejobs' = [filejobs EXCEPT ![j] = f]
          BY <1>1, <3>2, <4>1, FileFacts DEF FileJob
        <4> QED
          BY <3>1, <4>2, <4>3 DEF Storing
      <3>3. CASE FileGoes(j, "head")
        <4>1. PICK f : f = [k EXCEPT !.pc = "head"]
          OBVIOUS
        <4>2. f \in FileJob /\ f.pc = "head" /\ f.seen = k.seen
          BY <1>2, <4>1 DEF FileJob, FilePcs, Completing
        <4>3. filejobs' = [filejobs EXCEPT ![j] = f]
          BY <1>1, <3>3, <4>1 DEF FileGoes
        <4> QED
          BY <3>1, <4>2, <4>3 DEF Storing
      <3>4. CASE FileEnds(j)
        BY <3>1, <3>4, NoMetaFacts DEF FileEnds, Storing, Completing
      <3> QED
        BY <2>2, <3>2, <3>3, <3>4 DEF LoadMeta
    <2>3. CASE HeadObject(j)
      <3>1. k.pc = "head" /\ ~Removes(k) /\ (~torn /\ meta # NoMeta => k.seen.expected = meta.expected)
        BY <1>1, <1>5, <2>3 DEF HeadObject, Removes, Together, Completing
      <3>2. CASE data = Missing
        BY <2>3, <3>1, <3>2, NoMetaFacts DEF HeadObject, FileEnds, Storing, Completing
      <3>3. CASE data # Missing
        <4>1. PICK f : f = [k EXCEPT !.pc = "putMeta", !.size = data]
          OBVIOUS
        <4>2. f \in FileJob /\ f.pc = "putMeta" /\ f.seen = k.seen /\ f.size # Missing
          BY <1>2, <3>3, <4>1 DEF FileJob, FilePcs, Completing
        <4>3. filejobs' = [filejobs EXCEPT ![j] = f]
          BY <1>1, <2>3, <3>3, <4>1, FileFacts DEF FileJob, HeadObject
        <4> QED
          BY <3>1, <4>2, <4>3 DEF Storing
      <3> QED
        BY <3>2, <3>3
    <2>4. CASE CheckSize(j)
      <3>1. k.pc = "check"
        BY <1>1, <2>4 DEF CheckSize
      <3>2. CASE SizeRefused(k)
        <4>1. PICK f : f = [k EXCEPT !.pc = "deleteData"]
          OBVIOUS
        <4>2. f \in FileJob /\ f.pc = "deleteData"
          BY <1>2, <4>1 DEF FileJob, FilePcs
        <4>3. filejobs' = [filejobs EXCEPT ![j] = f]
          BY <1>1, <2>4, <3>2, <4>1 DEF CheckSize, FileGoes
        <4> QED
          BY <4>2, <4>3 DEF Storing, Completing, Removes
      <3>3. CASE ~SizeRefused(k)
        <4>1. filejobs' = [filejobs EXCEPT ![j] = NoFileJob]
          BY <1>1, <2>4, <3>3 DEF CheckSize, FileEnds
        <4> QED
          BY <3>1, <3>3, <4>1, NoMetaFacts DEF Storing, Completing, Removes
      <3> QED
        BY <3>2, <3>3
    <2>5. CASE HandleDelete(j) \/ Cleanup(j)
      <3>1. PICK f : f = [NoFileJob EXCEPT !.pc = "deleteData"]
        OBVIOUS
      <3>2. f \in FileJob /\ f.pc = "deleteData"
        BY <3>1, NoMetaFacts DEF FileJob, FilePcs
      <3>3. filejobs' = [filejobs EXCEPT ![j] = f]
        BY <2>5, <3>1 DEF HandleDelete, Cleanup
      <3> QED
        BY <3>2, <3>3 DEF Storing, Completing, Removes
    <2> QED
      BY <2>1, <2>2, <2>3, <2>4, <2>5
  <1> QED
    BY <1>1, <1>3, <1>4, <1>6, RequestGoesOn


(* A client announces a file, puts its data, and the file expires. *)
LEMMA ClientFileInv ==
  ASSUME FileInv, HandleInit \/ PutBegins \/ PutEnds \/ Expires
  PROVE  FileInv'
  <1>1. /\ filejobs \in [Jobs -> FileJob] /\ meta \in FileMeta /\ data \in Sizes \cup {Missing}
        /\ torn \in BOOLEAN /\ StoringAlone /\ SizeKnown /\ CreatedOnce
        /\ ~torn => Together(data, meta, filejobs)
    BY DEF FileInv, FileTyped
  <1>2. filejobs' = filejobs
    BY DEF HandleInit, PutBegins, PutEnds, Expires
  <1>3. SizeKnown'
    BY <1>1, <1>2 DEF SizeKnown
  <1>4. CASE HandleInit
    <2>1. PICK n \in Nat : CreateDirectUpload(n)
      BY <1>4, FileAssumption DEF HandleInit
    <2>2. PICK m : m = [state |-> "pending", owned |-> TRUE, size |-> n, expected |-> n, expires |-> TRUE]
      OBVIOUS
    <2>3. m \in FileMeta /\ m.state = "pending" /\ m # NoMeta
      BY <2>2, NoMetaFacts DEF FileMeta
    <2>4. /\ meta' = m /\ url' = "valid" /\ data' = Missing /\ torn' = torn
          /\ \A j \in Jobs : filejobs[j].pc = "idle"
      BY <1>1, <1>4, <2>1, <2>2 DEF HandleInit, CreateDirectUpload, CreatedOnce
    <2>5. FileTyped' /\ CreatedOnce'
      BY <1>1, <1>2, <2>3, <2>4 DEF FileTyped, CreatedOnce
    <2>6. StoringAlone'
      BY <1>2, <2>4 DEF StoringAlone, Storing
    <2>7. Together(data', m, filejobs)
      BY <2>3, <2>4 DEF Together, Completing
    <2> QED
      BY <1>2, <1>3, <2>4, <2>5, <2>6, <2>7 DEF FileInv
  <1>5. CASE PutBegins \/ Expires
    <2>1. data' = data /\ meta' = meta /\ torn' = torn
      BY <1>5 DEF PutBegins, Expires
    <2>2. url' # "none" /\ (url = "over" => url' = "over")
      <3>1. CASE PutBegins
        BY <3>1 DEF PutBegins
      <3>2. CASE Expires
        <4>1. meta # NoMeta
          BY <3>2, NoMetaFacts DEF Expires
        <4>2. url # "none"
          BY <4>1, FileFacts
        <4> QED
          BY <3>2, <4>2 DEF Expires
      <3> QED
        BY <1>5, <3>1, <3>2
    <2>3. FileTyped' /\ CreatedOnce' /\ StoringAlone'
      BY <1>1, <1>2, <2>1, <2>2 DEF FileInv, FileTyped, CreatedOnce, StoringAlone
    <2> QED
      BY <1>1, <1>2, <1>3, <2>1, <2>3 DEF FileInv
  <1>6. CASE PutEnds
    <2>1. /\ data' \in Sizes /\ meta' = meta /\ url = "used" /\ url' # "none"
          /\ torn' = (torn \/ meta.state # "pending" \/ \E j \in Jobs : filejobs[j].pc = "deleteMeta")
      BY <1>6 DEF PutEnds
    <2>2. \A j \in Jobs : filejobs[j].pc \notin Storing
      BY <1>1, <2>1 DEF StoringAlone
    <2>3. FileTyped'
      <3>1. torn' \in BOOLEAN
        BY <2>1
      <3> QED
        BY <1>1, <1>2, <2>1, <3>1 DEF FileInv, FileTyped
    <2>4. CreatedOnce' /\ StoringAlone'
      BY <1>2, <2>1, <2>2 DEF CreatedOnce, StoringAlone
    <2>5. ASSUME ~torn'
          PROVE  Together(data', meta, filejobs)
      <3>1. ~torn /\ meta.state = "pending" /\ ~\E j \in Jobs : filejobs[j].pc = "deleteMeta"
        BY <2>1, <2>5
      <3>2. meta # NoMeta
        BY <3>1, NoMetaFacts
      <3> QED
        BY <1>1, <3>1, <3>2 DEF Together
    <2> QED
      BY <1>2, <1>3, <2>1, <2>3, <2>4, <2>5 DEF FileInv
  <1> QED
    BY <1>4, <1>5, <1>6

(* A plugin or a bot stores a file. *)
LEMMA StoreFileInv ==
  ASSUME FileInv, NEW j \in Jobs, StoreData(j) \/ StoreMeta(j)
  PROVE  FileInv'
  <1>1. /\ filejobs \in [Jobs -> FileJob] /\ meta \in FileMeta /\ data \in Sizes \cup {Missing}
        /\ torn \in BOOLEAN /\ StoringAlone /\ SizeKnown /\ CreatedOnce
        /\ ~torn => Together(data, meta, filejobs)
    BY DEF FileInv, FileTyped
  <1>2. torn' = torn
    BY DEF StoreData, StoreMeta
  <1>3. filejobs[j] \in FileJob
    BY <1>1
  <1>4. \A i \in Jobs : i # j => filejobs[i].pc = "idle"
    BY <1>1 DEF StoreData, StoreMeta, CreatedOnce, StoringAlone, Storing
  <1>5. CASE StoreData(j)
    <2>1. PICK f : f = [filejobs[j] EXCEPT !.pc = "storeMeta"]
      OBVIOUS
    <2>2. f \in FileJob /\ f.pc = "storeMeta" /\ f.pc \in Storing
      BY <1>3, <2>1 DEF FileJob, FilePcs, Storing
    <2>3. /\ meta = NoMeta /\ meta' = NoMeta /\ data' \in Sizes /\ url' = "over"
          /\ filejobs' = [filejobs EXCEPT ![j] = f]
      BY <1>5, <2>1 DEF StoreData, UploadData, FileGoes
    <2>4. PICK jobs : jobs = filejobs'
      OBVIOUS
    <2>5. jobs \in [Jobs -> FileJob] /\ jobs[j] = f /\ \A i \in Jobs : i # j => jobs[i].pc = "idle"
      BY <1>1, <1>4, <2>2, <2>3, <2>4
    <2>6. FileTyped' /\ CreatedOnce'
      BY <1>1, <1>2, <2>3, <2>4, <2>5, NoMetaFacts DEF FileTyped, CreatedOnce
    <2>7. StoringAlone' /\ SizeKnown'
      BY <2>2, <2>3, <2>4, <2>5, NoMetaFacts DEF StoringAlone, SizeKnown, Storing
    <2>8. Together(data', NoMeta, jobs)
      BY <2>2, <2>5, NoMetaFacts DEF Together, Completing
    <2> QED
      BY <2>3, <2>4, <2>6, <2>7, <2>8 DEF FileInv
  <1>6. CASE StoreMeta(j)
    <2>1. /\ filejobs[j].pc = "storeMeta" /\ data' = data /\ url' = url
      BY <1>6 DEF StoreMeta
    <2>2. meta = NoMeta /\ url = "over" /\ data # Missing /\ data \in Nat
      BY <1>1, <2>1, NoMetaFacts DEF StoringAlone, Storing
    <2>3. ASSUME NEW ttl \in BOOLEAN, FileEnds(j),
                 meta' = [state |-> "ready", owned |-> FALSE, size |-> data, expected |-> 0, expires |-> ttl]
          PROVE  FileInv'
      <3>1. PICK m : m = [state |-> "ready", owned |-> FALSE, size |-> data, expected |-> 0, expires |-> ttl]
        OBVIOUS
      <3>2. m \in FileMeta /\ m.state = "ready" /\ ~m.owned /\ m.size = data /\ meta' = m
        BY <2>2, <2>3, <3>1 DEF FileMeta
      <3>3. filejobs' = [filejobs EXCEPT ![j] = NoFileJob]
        BY <2>3 DEF FileEnds
      <3>4. PICK jobs : jobs = filejobs'
        OBVIOUS
      <3>5. jobs \in [Jobs -> FileJob] /\ \A i \in Jobs : jobs[i].pc = "idle"
        BY <1>1, <1>4, <3>3, <3>4, NoMetaFacts
      <3>6. FileTyped' /\ CreatedOnce'
        BY <1>1, <1>2, <2>1, <2>2, <3>2, <3>4, <3>5 DEF FileTyped, CreatedOnce
      <3>7. StoringAlone' /\ SizeKnown'
        BY <3>4, <3>5 DEF StoringAlone, SizeKnown, Storing
      <3>8. Together(data, m, jobs)
        BY <3>2, <3>5, NoMetaFacts DEF Together, Completing
      <3> QED
        BY <2>1, <3>2, <3>4, <3>6, <3>7, <3>8 DEF FileInv
    <2>4. ASSUME FileGoes(j, "undoData"), meta' = meta
          PROVE  FileInv'
      <3>1. PICK f : f = [filejobs[j] EXCEPT !.pc = "undoData"]
        OBVIOUS
      <3>2. f \in FileJob /\ f.pc = "undoData" /\ f.pc \in Storing
        BY <1>3, <3>1 DEF FileJob, FilePcs, Storing
      <3>3. filejobs' = [filejobs EXCEPT ![j] = f]
        BY <2>4, <3>1 DEF FileGoes
      <3>4. PICK jobs : jobs = filejobs'
        OBVIOUS
      <3>5. jobs \in [Jobs -> FileJob] /\ jobs[j] = f /\ \A i \in Jobs : i # j => jobs[i].pc = "idle"
        BY <1>1, <1>4, <3>2, <3>3, <3>4
      <3>6. FileTyped' /\ CreatedOnce'
        BY <1>1, <1>2, <2>1, <2>2, <2>4, <3>4, <3>5, NoMetaFacts DEF FileTyped, CreatedOnce
      <3>7. StoringAlone' /\ SizeKnown'
        BY <2>1, <2>2, <2>4, <3>2, <3>4, <3>5 DEF StoringAlone, SizeKnown, Storing
      <3>8. Together(data, NoMeta, jobs)
        BY <3>2, <3>5, NoMetaFacts DEF Together, Completing
      <3> QED
        BY <2>1, <2>2, <2>4, <3>4, <3>6, <3>7, <3>8 DEF FileInv
    <2> QED
      BY <1>6, <2>3, <2>4 DEF StoreMeta
  <1> QED
    BY <1>5, <1>6


(* A request that changes an object while no file is being stored: what is *)
(* left to show is that the objects stay together.                         *)
LEMMA ObjectChanges ==
  ASSUME FileInv, NEW j \in Jobs, NEW f \in FileJob, filejobs' = [filejobs EXCEPT ![j] = f],
         filejobs[j].pc # "idle", filejobs[j].pc \notin Storing, f.pc \notin Storing \cup {"putMeta"}, url' = url,
         data' \in Sizes \cup {Missing}, meta' \in FileMeta, meta'.state = "none" => meta' = NoMeta, torn' \in BOOLEAN,
         ~torn' => Together(data', meta', filejobs')
  PROVE  FileInv'
  <1>1. filejobs \in [Jobs -> FileJob] /\ SizeKnown
    BY DEF FileInv, FileTyped
  <1>2. PICK jobs : jobs = filejobs'
    OBVIOUS
  <1>3. jobs \in [Jobs -> FileJob] /\ jobs[j] = f /\ \A i \in Jobs : i # j => jobs[i] = filejobs[i]
    BY <1>1, <1>2
  <1>4. FileTyped'
    BY <1>2, <1>3 DEF FileTyped
  <1>5. url # "none" /\ \A i \in Jobs : filejobs[i].pc \notin Storing
    BY FileFacts
  <1>6. CreatedOnce'
    BY <1>5 DEF CreatedOnce
  <1>7. StoringAlone'
    <2>1. \A i \in Jobs : jobs[i].pc \notin Storing
      BY <1>3, <1>5
    <2> QED
      BY <1>2, <2>1 DEF StoringAlone
  <1>8. SizeKnown'
    BY <1>1, <1>2, <1>3 DEF SizeKnown
  <1> QED
    BY <1>4, <1>6, <1>7, <1>8 DEF FileInv

LEMMA PutMetaFileInv ==
  ASSUME FileInv, NEW j \in Jobs, PutMeta(j)
  PROVE  FileInv'
  <1>1. PICK k : k = filejobs[j]
    OBVIOUS
  <1>2. /\ k \in FileJob /\ k.seen \in FileMeta /\ k.size \in Nat /\ k.pc = "putMeta" /\ k.size # Missing
        /\ data \in Nat /\ data \in Sizes \cup {Missing} /\ filejobs \in [Jobs -> FileJob] /\ meta \in FileMeta
    BY <1>1, FileFacts DEF PutMeta, FileInv, SizeKnown
  <1>3. PICK ready : ready = [k.seen EXCEPT !.state = "ready", !.size = k.size, !.expires = FALSE]
    OBVIOUS
  <1>4. /\ ready \in FileMeta /\ ready.state = "ready" /\ ready # NoMeta
        /\ ready.size = k.size /\ ready.expected = k.seen.expected
    BY <1>2, <1>3, NoMetaFacts DEF FileMeta
  <1>5. data' = data /\ url' = url /\ torn \in BOOLEAN
    BY DEF PutMeta, FileInv, FileTyped
  <1>6. CASE meta' = ready /\ torn' = (torn \/ data # k.size) /\ FileGoes(j, "check")
    <2>1. PICK f : f = [k EXCEPT !.pc = "check"]
      OBVIOUS
    <2>2. f \in FileJob /\ f.pc = "check" /\ f.seen = k.seen /\ f.size = k.size
      BY <1>2, <2>1 DEF FileJob, FilePcs, Completing
    <2>3. filejobs' = [filejobs EXCEPT ![j] = f]
      BY <1>1, <1>6, <2>1 DEF FileGoes
    <2>4. PICK jobs : jobs = filejobs'
      OBVIOUS
    <2>5. jobs \in [Jobs -> FileJob] /\ jobs[j] = f /\ \A i \in Jobs : i # j => jobs[i] = filejobs[i]
      BY <1>2, <2>2, <2>3, <2>4
    <2>6. ASSUME ~torn'
          PROVE  Together(data, ready, jobs)
      <3>1. ~torn /\ data = k.size /\ data # Missing
        BY <1>2, <1>6, <2>6
      <3>2. Together(data, meta, filejobs)
        BY <3>1 DEF FileInv
      <3>3. ~\E i \in Jobs : jobs[i].pc = "deleteMeta"
        BY <2>2, <2>5, <3>1, <3>2 DEF Together
      <3>4. meta # NoMeta
        <4>1. \A i \in Jobs : filejobs[i].pc \notin Storing
          <5>1. filejobs[j].pc # "idle" /\ filejobs[j].pc \notin Storing
            BY <1>1, <1>2 DEF Storing
          <5> QED
            BY <5>1, FileFacts
        <4> QED
          BY <3>1, <3>2, <4>1 DEF Together
      <3>5. \A i \in Jobs : filejobs[i].pc \in Completing => filejobs[i].seen.expected = meta.expected
        BY <3>2, <3>4 DEF Together
      <3>6. k.seen.expected = meta.expected
        BY <1>1, <1>2, <3>5 DEF Completing
      <3>7. \A i \in Jobs : jobs[i].pc \in Completing => jobs[i].seen.expected = ready.expected
        BY <1>4, <2>2, <2>5, <3>5, <3>6
      <3>8. Acceptable(ready) \/ Removes(f)
        BY <1>2, <1>4, <2>2, FileAssumption DEF Acceptable, Removes, SizeRefused, FileMeta
      <3> QED
        BY <1>4, <2>5, <3>1, <3>3, <3>7, <3>8 DEF Together
    <2>7. torn' \in BOOLEAN
      BY <1>6
    <2>8. filejobs[j].pc # "idle" /\ filejobs[j].pc \notin Storing /\ f.pc \notin Storing \cup {"putMeta"}
      BY <1>1, <1>2, <2>2 DEF Storing
    <2> QED
      BY <1>2, <1>4, <1>5, <1>6, <2>2, <2>3, <2>4, <2>6, <2>7, <2>8, ObjectChanges
  <1>7. CASE meta' \in {meta, ready} /\ torn' = (torn \/ meta' # meta) /\ FileEnds(j)
    <2>1. filejobs' = [filejobs EXCEPT ![j] = NoFileJob]
      BY <1>7 DEF FileEnds
    <2>2. PICK jobs : jobs = filejobs'
      OBVIOUS
    <2>3. jobs \in [Jobs -> FileJob] /\ jobs[j] = NoFileJob /\ \A i \in Jobs : i # j => jobs[i] = filejobs[i]
      BY <1>2, <2>1, <2>2, NoMetaFacts
    <2>4. ASSUME ~torn'
          PROVE  Together(data, meta, jobs) /\ meta' = meta
      <3>1. ~torn /\ meta' = meta
        BY <1>7, <2>4
      <3>2. Together(data, meta, filejobs)
        BY <3>1 DEF FileInv
      <3>3. \A i \in Jobs : jobs[i] = filejobs[i] \/ (jobs[i].pc = "idle" /\ filejobs[i].pc = "putMeta")
        BY <1>1, <1>2, <2>3, NoMetaFacts
      <3>4. \A i \in Jobs : /\ jobs[i].pc = "deleteMeta" <=> filejobs[i].pc = "deleteMeta"
                            /\ jobs[i].pc \in Storing <=> filejobs[i].pc \in Storing
                            /\ Removes(jobs[i]) <=> Removes(filejobs[i])
                            /\ jobs[i].pc \in Completing => jobs[i] = filejobs[i]
        BY <3>3 DEF Storing, Completing, Removes
      <3> QED
        BY <3>1, <3>2, <3>4 DEF Together
    <2>5. torn' \in BOOLEAN /\ meta' \in FileMeta /\ (meta'.state = "none" => meta' = NoMeta)
      BY <1>2, <1>4, <1>7, FileFacts
    <2>6. /\ filejobs[j].pc # "idle" /\ filejobs[j].pc \notin Storing
          /\ NoFileJob.pc \notin Storing \cup {"putMeta"} /\ NoFileJob \in FileJob
      BY <1>1, <1>2, NoMetaFacts DEF Storing
    <2> QED
      BY <1>2, <1>5, <2>1, <2>2, <2>4, <2>5, <2>6, ObjectChanges
  <1> QED
    BY <1>1, <1>3, <1>6, <1>7 DEF PutMeta

LEMMA DeleteMetaFileInv ==
  ASSUME FileInv, NEW j \in Jobs, DeleteMeta(j)
  PROVE  FileInv'
  <1>1. /\ filejobs \in [Jobs -> FileJob] /\ data \in Sizes \cup {Missing} /\ torn \in BOOLEAN /\ meta \in FileMeta
        /\ filejobs[j].pc = "deleteMeta" /\ data' = data /\ url' = url
        /\ filejobs' = [filejobs EXCEPT ![j] = NoFileJob]
        /\ \/ meta' = NoMeta /\ torn' = torn
           \/ meta' = meta /\ torn' = TRUE
    BY DEF FileInv, FileTyped, DeleteMeta, FileEnds
  <1>2. /\ filejobs[j].pc # "idle" /\ filejobs[j].pc \notin Storing
        /\ NoFileJob.pc \notin Storing \cup {"putMeta"} /\ NoFileJob \in FileJob
    BY <1>1, NoMetaFacts DEF Storing
  <1>3. torn' \in BOOLEAN
    BY <1>1
  <1>4. meta' \in FileMeta /\ (meta'.state = "none" => meta' = NoMeta)
    BY <1>1, FileFacts, NoMetaFacts
  <1>5. ASSUME ~torn'
        PROVE  Together(data', meta', filejobs')
    <2>1. meta' = NoMeta /\ ~torn
      BY <1>1, <1>5
    <2>2. data = Missing
      BY <1>1, <2>1 DEF FileInv, Together
    <2>3. PICK jobs : jobs = filejobs'
      OBVIOUS
    <2>4. Together(Missing, NoMeta, jobs)
      BY NoMetaFacts DEF Together
    <2> QED
      BY <1>1, <2>1, <2>2, <2>3, <2>4
  <1> QED
    BY <1>1, <1>2, <1>3, <1>4, <1>5, ObjectChanges

LEMMA DeleteDataFileInv ==
  ASSUME FileInv, NEW j \in Jobs, DeleteData(j)
  PROVE  FileInv'
  <1>1. PICK k : k = filejobs[j]
    OBVIOUS
  <1>2. /\ filejobs \in [Jobs -> FileJob] /\ meta' = meta /\ url' = url /\ torn \in BOOLEAN
        /\ k \in FileJob /\ meta \in FileMeta /\ data \in Sizes \cup {Missing}
        /\ k.pc \in {"deleteData", "undoData"}
        /\ \/ data' = Missing /\ torn' = torn
           \/ data' = data /\ torn' = TRUE
    BY <1>1 DEF FileInv, FileTyped, DeleteData
  <1>3. torn' \in BOOLEAN /\ data' \in Sizes \cup {Missing}
    BY <1>2
  <1>4. CASE k.pc = "deleteData"
    <2>1. PICK f : f = [k EXCEPT !.pc = "deleteMeta"]
      OBVIOUS
    <2>2. f \in FileJob /\ f.pc = "deleteMeta"
      BY <1>2, <2>1 DEF FileJob, FilePcs
    <2>3. filejobs' = [filejobs EXCEPT ![j] = f]
      BY <1>1, <1>4, <2>1 DEF DeleteData, FileGoes
    <2>4. PICK jobs : jobs = filejobs'
      OBVIOUS
    <2>5. jobs[j] = f /\ \A i \in Jobs : i # j => jobs[i] = filejobs[i]
      BY <1>2, <2>3, <2>4
    <2>6. ASSUME ~torn'
          PROVE  Together(Missing, meta, jobs) /\ data' = Missing
      <3>1. ~torn /\ data' = Missing
        BY <1>2, <2>6
      <3>2. Together(data, meta, filejobs)
        BY <3>1 DEF FileInv
      <3>3. meta # NoMeta => \A i \in Jobs : jobs[i].pc \in Completing => jobs[i].seen.expected = meta.expected
        BY <2>2, <2>5, <3>2 DEF Together, Completing
      <3>4. Removes(jobs[j]) /\ jobs[j].pc = "deleteMeta"
        BY <2>2, <2>5 DEF Removes
      <3> QED
        BY <3>1, <3>3, <3>4 DEF Together
    <2>7. filejobs[j].pc # "idle" /\ filejobs[j].pc \notin Storing /\ f.pc \notin Storing \cup {"putMeta"}
      BY <1>1, <1>4, <2>2 DEF Storing
    <2>8. meta.state = "none" => meta = NoMeta
      BY FileFacts
    <2> QED
      BY <1>2, <1>3, <2>2, <2>3, <2>4, <2>6, <2>7, <2>8, ObjectChanges
  <1>5. CASE k.pc = "undoData"
    <2>1. filejobs' = [filejobs EXCEPT ![j] = NoFileJob]
      BY <1>1, <1>5 DEF DeleteData, FileEnds
    <2>2. /\ meta = NoMeta /\ url = "over"
          /\ \A i \in Jobs : i # j => filejobs[i].pc = "idle"
      BY <1>1, <1>5 DEF FileInv, StoringAlone, Storing
    <2>3. PICK jobs : jobs = filejobs'
      OBVIOUS
    <2>4. jobs \in [Jobs -> FileJob] /\ \A i \in Jobs : jobs[i].pc = "idle"
      BY <1>2, <2>1, <2>2, <2>3, NoMetaFacts
    <2>5. FileTyped' /\ CreatedOnce'
      BY <1>2, <1>3, <2>2, <2>3, <2>4 DEF FileTyped, CreatedOnce
    <2>6. StoringAlone' /\ SizeKnown'
      BY <2>3, <2>4 DEF StoringAlone, SizeKnown, Storing
    <2>7. ASSUME ~torn'
          PROVE  Together(Missing, NoMeta, jobs) /\ data' = Missing
      BY <1>2, <2>4, <2>7, NoMetaFacts DEF Together, Completing
    <2> QED
      BY <1>2, <2>2, <2>3, <2>5, <2>6, <2>7 DEF FileInv
  <1> QED
    BY <1>2, <1>4, <1>5

LEMMA CrashFileInv ==
  ASSUME FileInv, Crash
  PROVE  FileInv'
  <1>1. /\ data' = data /\ meta' = meta /\ url' = url /\ filejobs' = [j \in Jobs |-> NoFileJob]
        /\ torn' = (torn \/ \E j \in Jobs : filejobs[j].pc \notin {"idle", "load", "head", "putMeta"})
    BY DEF Crash
  <1>2. PICK jobs : jobs = filejobs'
    OBVIOUS
  <1>3. jobs \in [Jobs -> FileJob] /\ \A i \in Jobs : jobs[i].pc = "idle"
    BY <1>1, <1>2, NoMetaFacts
  <1>4. FileTyped'
    <2>1. torn' \in BOOLEAN
      BY <1>1 DEF FileInv, FileTyped
    <2> QED
      BY <1>1, <1>2, <1>3, <2>1 DEF FileInv, FileTyped
  <1>5. CreatedOnce' /\ StoringAlone' /\ SizeKnown'
    BY <1>1, <1>2, <1>3 DEF FileInv, CreatedOnce, StoringAlone, SizeKnown, Storing
  <1>6. ASSUME ~torn'
        PROVE  Together(data, meta, jobs)
    <2>1. ~torn /\ \A j \in Jobs : filejobs[j].pc \in {"idle", "load", "head", "putMeta"}
      BY <1>1, <1>6
    <2>2. Together(data, meta, filejobs)
      BY <2>1 DEF FileInv
    <2>3. \A j \in Jobs : ~Removes(filejobs[j]) /\ filejobs[j].pc # "deleteMeta" /\ filejobs[j].pc \notin Storing
      BY <2>1 DEF Removes, Storing
    <2> QED
      BY <1>3, <2>2, <2>3 DEF Together, Completing
  <1> QED
    BY <1>1, <1>2, <1>4, <1>5, <1>6 DEF FileInv


(* A plugin that reads, undisturbed, is inside the file it began to read.  *)
Reader == [pc : {"idle", "reading", "eof", "error"}, off : Nat, of : Nat, changed : BOOLEAN]

ReadsAlong(r, d, m) ==
    /\ r.pc = "idle" => r.off = 0
    /\ ~r.changed =>
          /\ r.pc = "reading" => m.state = "ready" /\ d = m.size /\ r.of = m.size /\ r.off <= r.of
          /\ r.pc = "eof" => r.off = r.of

ReaderInv == reader \in Reader /\ ReadsAlong(reader, data, meta)

LEMMA FileReadReaderInv ==
  ASSUME FileInv, ReaderInv, FileRead
  PROVE  ReaderInv'
  <1>1. PICK r \in Reader : r = reader
    BY DEF ReaderInv
  <1>2. PICK m \in FileMeta, d \in Nat : m = meta /\ d = data
    BY FileFacts
  <1>3. data' = data /\ meta' = meta /\ r.pc \in {"idle", "reading"} /\ ReadsAlong(r, d, m)
    BY <1>1, <1>2 DEF FileRead, ReaderInv
  <1>4. r.off \in Nat /\ r.of \in Nat /\ m.size \in Nat /\ Missing \in Nat /\ r.changed \in BOOLEAN /\ torn \in BOOLEAN
    BY <1>1, NoMetaFacts DEF Reader, FileMeta, FileInv, FileTyped
  <1>5. ASSUME NEW length \in 0..(MaxChunk + 1), NEW n, m.state = "ready", ~Refused(r.off),
               n = IF r.off >= m.size THEN 0 ELSE GetRange(r.off, ReadLen(length)),
               reader' = [pc |-> IF AtEnd(n, length) THEN "eof" ELSE "reading",
                          off |-> r.off + n,
                          of |-> IF r.pc = "idle" THEN m.size ELSE r.of,
                          changed |-> IF r.pc = "idle" THEN torn ELSE r.changed]
        PROVE  ReaderInv'
    <2>1. PICK l \in Nat : l = ReadLen(length) /\ l > 0
      <3>1. ReadLen(length) \in Nat /\ ReadLen(length) > 0
        BY FileAssumption DEF ReadLen
      <3> QED
        BY <3>1
    <2>2. r.off < m.size => d # Missing /\ r.off < d
      BY <1>1, <1>2, <1>4, <1>5 DEF Refused
    <2>3. PICK x \in Nat : x = LesserOf(m.size, d) /\ x = IF m.size < d THEN m.size ELSE d
      <3>1. LesserOf(m.size, d) \in Nat /\ LesserOf(m.size, d) = IF m.size < d THEN m.size ELSE d
        BY <1>4 DEF LesserOf
      <3> QED
        BY <3>1
    <2>4. n = IF r.off >= m.size THEN 0 ELSE IF l < x - r.off THEN l ELSE x - r.off
      BY <1>1, <1>2, <1>5, <2>1, <2>3 DEF GetRange, LesserOf
    <2>5. n \in Nat
      BY <1>4, <2>1, <2>2, <2>3, <2>4
    <2>6. PICK s : s = reader'
      OBVIOUS
    <2>7. /\ s.pc = (IF n < l THEN "eof" ELSE "reading") /\ s.off = r.off + n
          /\ s.of = (IF r.pc = "idle" THEN m.size ELSE r.of)
          /\ s.changed = (IF r.pc = "idle" THEN torn ELSE r.changed)
      BY <1>5, <2>1, <2>6 DEF AtEnd
    <2>8. s \in Reader
      <3>1. PICK pc \in {"eof", "reading"}, off \in Nat, of \in Nat, ch \in BOOLEAN :
              /\ pc = IF AtEnd(n, length) THEN "eof" ELSE "reading"
              /\ off = r.off + n
              /\ of = IF r.pc = "idle" THEN m.size ELSE r.of
              /\ ch = IF r.pc = "idle" THEN torn ELSE r.changed
        BY <1>4, <2>5
      <3>2. s = [pc |-> pc, off |-> off, of |-> of, changed |-> ch]
        BY <1>5, <2>6, <3>1
      <3> QED
        BY <3>2 DEF Reader
    <2>9. ASSUME ~s.changed
          PROVE  /\ s.pc = "reading" => d = m.size /\ s.of = m.size /\ s.off <= s.of
                 /\ s.pc = "eof" => s.off = s.of
      <3>1. CASE r.pc = "reading"
        <4>1. d = m.size /\ r.of = m.size /\ r.off <= r.of
          BY <1>3, <2>7, <2>9, <3>1 DEF ReadsAlong
        <4>2. n = IF r.off = m.size THEN 0 ELSE IF l < m.size - r.off THEN l ELSE m.size - r.off
          BY <1>4, <2>3, <2>4, <4>1
        <4>3. s.of = m.size
          BY <2>7, <3>1, <4>1
        <4> QED
          BY <1>4, <2>1, <2>7, <4>1, <4>2, <4>3
      <3>2. CASE r.pc = "idle"
        <4>1. ~torn /\ s.of = m.size
          BY <2>7, <2>9, <3>2
        <4>2. d = m.size \/ d = Missing
          BY <1>2, <1>5, <4>1 DEF FileInv, Together
        <4>3. CASE r.off >= m.size
          <5>1. n = 0 /\ r.off = 0 /\ m.size = 0
            BY <1>3, <1>4, <2>4, <3>2, <4>3 DEF ReadsAlong
          <5> QED
            BY <2>1, <2>7, <4>1, <5>1
        <4>4. CASE r.off < m.size
          <5>1. d = m.size /\ x = m.size
            BY <1>4, <2>2, <2>3, <4>2, <4>4
          <5>2. n = IF l < m.size - r.off THEN l ELSE m.size - r.off
            BY <1>4, <2>4, <4>4, <5>1
          <5> QED
            BY <1>4, <2>1, <2>7, <4>1, <4>4, <5>1, <5>2
        <4> QED
          BY <1>4, <4>3, <4>4
      <3> QED
        BY <1>3, <3>1, <3>2
    <2> QED
      BY <1>2, <1>3, <1>5, <2>6, <2>8, <2>9 DEF ReaderInv, ReadsAlong
  <1>6. CASE r.pc = "reading" /\ reader' = [reader EXCEPT !.pc = "error"]
    <2>1. PICK s : s = [r EXCEPT !.pc = "error"]
      OBVIOUS
    <2>2. s \in Reader /\ s.pc = "error" /\ reader' = s
      BY <1>1, <1>6, <2>1 DEF Reader
    <2> QED
      BY <2>2 DEF ReaderInv, ReadsAlong
  <1> QED
    BY <1>1, <1>2, <1>5, <1>6 DEF FileRead, Available


(* The other steps leave the reader alone, or disturb it. *)
LEMMA OtherStepsReaderInv ==
  ASSUME FileInv, ReaderInv, [FileNext]_fileVars, ~FileRead
  PROVE  ReaderInv'
  <1>1. PICK r \in Reader : r = reader
    BY DEF ReaderInv
  <1>2. PICK q : q = [r EXCEPT !.changed = TRUE]
    OBVIOUS
  <1>3. q \in Reader /\ q.changed /\ q.pc = r.pc /\ q.off = r.off /\ Disturbed = q
    BY <1>1, <1>2 DEF Reader, Disturbed
  <1>4. ASSUME reader' = Disturbed
        PROVE  ReaderInv'
    <2>1. reader' = q /\ (q.pc = "idle" => q.off = 0)
      BY <1>1, <1>3, <1>4 DEF ReaderInv, ReadsAlong
    <2> QED
      BY <1>3, <2>1 DEF ReaderInv, ReadsAlong
  <1>5. ASSUME reader' = reader, data' = data, meta' = meta
        PROVE  ReaderInv'
    BY <1>5 DEF ReaderInv, ReadsAlong
  <1>6. ASSUME reader' = reader, meta = NoMeta
        PROVE  ReaderInv'
    BY <1>6, NoMetaFacts DEF ReaderInv, ReadsAlong
  <1>7. CASE HandleInit \/ \E j \in Jobs : StoreData(j)
    BY <1>6, <1>7 DEF HandleInit, StoreData
  <1>8. CASE PutBegins \/ Expires \/ Crash \/ UNCHANGED fileVars
    BY <1>5, <1>8 DEF PutBegins, Expires, Crash, fileVars
  <1>9. CASE PutEnds
    BY <1>4, <1>9 DEF PutEnds
  <1>10. ASSUME NEW j \in Jobs, StoreMeta(j)
         PROVE  ReaderInv'
    <2>1. meta = NoMeta
      BY <1>10 DEF StoreMeta, FileInv, StoringAlone, Storing
    <2> QED
      BY <1>6, <1>10, <2>1 DEF StoreMeta
  <1>11. ASSUME NEW j \in Jobs,
                HandleComplete(j) \/ LoadMeta(j) \/ HeadObject(j) \/ CheckSize(j) \/ HandleDelete(j) \/ Cleanup(j)
         PROVE  ReaderInv'
    BY <1>5, <1>11 DEF HandleComplete, LoadMeta, HeadObject, CheckSize, HandleDelete, Cleanup
  <1>12. ASSUME NEW j \in Jobs, PutMeta(j)
         PROVE  ReaderInv'
    <2>1. data' = data /\ (reader' = Disturbed \/ (meta' = meta /\ reader' = reader))
      BY <1>12 DEF PutMeta
    <2> QED
      BY <1>4, <1>5, <2>1
  <1>13. ASSUME NEW j \in Jobs, DeleteData(j) \/ DeleteMeta(j)
         PROVE  ReaderInv'
    BY <1>4, <1>5, <1>13 DEF DeleteData, DeleteMeta
  <1> QED
    BY <1>7, <1>8, <1>9, <1>10, <1>11, <1>12, <1>13 DEF FileNext

(* When no operation is under way, a file that is ready has its data, of   *)
(* the recorded size and, when it was uploaded, as announced; data without *)
(* metadata does not stay behind; a plugin that reads to the end has read  *)
(* every byte: unless the two objects were torn apart.                     *)
(* (internal/filestore/s3.go, filehttp/handler.go,                         *)
(* wasm/hostapi/host_file.go.)                                             *)
THEOREM FilesAreWhole == FileSpec => []FilesWhole
  <1>1. FileInit => FileInv /\ ReaderInv
    <2> SUFFICES ASSUME FileInit PROVE FileInv /\ ReaderInv
      OBVIOUS
    <2>1. /\ FileTyped /\ CreatedOnce
          /\ \A j \in Jobs : filejobs[j] = NoFileJob
      BY NoMetaFacts DEF FileInit, FileTyped, CreatedOnce
    <2>2. StoringAlone /\ SizeKnown
      BY <2>1, NoMetaFacts DEF StoringAlone, SizeKnown, Storing
    <2>3. Together(Missing, NoMeta, filejobs)
      BY <2>1, NoMetaFacts DEF Together
    <2>4. NotReading \in Reader /\ NotReading.pc = "idle" /\ NotReading.off = 0
      BY DEF NotReading, Reader
    <2>5. ReaderInv
      BY <2>4 DEF FileInit, ReaderInv, ReadsAlong
    <2> QED
      BY <2>1, <2>2, <2>3, <2>5 DEF FileInv, FileInit
  <1>2. FileInv /\ ReaderInv /\ [FileNext]_fileVars => FileInv' /\ ReaderInv'
    <2> SUFFICES ASSUME FileInv, ReaderInv, [FileNext]_fileVars PROVE FileInv' /\ ReaderInv'
      OBVIOUS
    <2>1. ReaderInv'
      BY FileReadReaderInv, OtherStepsReaderInv
    <2>2. CASE FileRead \/ UNCHANGED fileVars
      <3>1. UNCHANGED <<data, meta, url, filejobs, torn>>
        BY <2>2 DEF FileRead, fileVars
      <3>2. FileTyped' /\ CreatedOnce' /\ StoringAlone' /\ SizeKnown'
        BY <3>1 DEF FileInv, FileTyped, CreatedOnce, StoringAlone, SizeKnown
      <3> QED
        BY <2>1, <3>1, <3>2 DEF FileInv
    <2> QED
      BY <2>1, <2>2, ReadersFileInv, ClientFileInv, StoreFileInv, PutMetaFileInv, DeleteMetaFileInv,
         DeleteDataFileInv, CrashFileInv DEF FileNext
  <1>3. FileInv /\ ReaderInv => FilesWhole
    <2> SUFFICES ASSUME FileInv, ReaderInv PROVE FilesWhole
      OBVIOUS
    <2>1. ASSUME \A j \in Jobs : filejobs[j].pc = "idle", ~torn
          PROVE  /\ meta.state = "ready" => data = meta.size
                 /\ meta.state = "ready" /\ meta.owned => data <= MaxFileSize /\ meta.expected \in {0, data}
                 /\ meta = NoMeta => data = Missing
      <3>1. Together(data, meta, filejobs)
        BY <2>1 DEF FileInv
      <3>2. \A j \in Jobs : /\ filejobs[j].pc # "deleteMeta" /\ filejobs[j].pc \notin Storing
                            /\ ~Removes(filejobs[j])
        BY <2>1 DEF Storing, Removes
      <3> QED
        BY <3>1, <3>2 DEF Together, Acceptable
    <2>2. reader.pc = "eof" /\ ~reader.changed => reader.off = reader.of
      BY DEF ReaderInv, ReadsAlong
    <2> QED
      BY <2>1, <2>2 DEF FilesWhole
  <1> QED
    BY <1>1, <1>2, <1>3, PTL DEF FileSpec


-----------------------------------------------------------------------------
(* SQL connections *)

SqlCall == [pc : {"idle", "pool", "acquire", "alloc", "table", "insert"}, ps : Nat,
            kind : {"none", "conn", "tx", "rows"}, conn : Nat, of : Nat, live : BOOLEAN]

Handle == [by : Executions, id : Nat, kind : {"conn", "tx", "rows"}, conn : Nat, of : Generations]

Connections == [exec : Executions, n : Nat, of : Generations]

SqlTyped ==
    /\ nested \in BOOLEAN
    /\ gen \in {0} \cup Generations
    /\ registrations \in Nat
    /\ pools \in [Generations -> {"none", "open", "closed"}]
    /\ tables \in [Generations -> [Executions -> SUBSET Handle]]
    /\ lent \subseteq Connections
    /\ sqlCalls \in [Executions -> SqlCall]
    /\ callsMade \in [Executions -> Nat]
    /\ contexts \in [Executions -> {"running", "ended", "cleaned"}]
    /\ closing \in [pc : {"none", "lock", "close"}, ps : {0} \cup Generations]
    /\ closing.pc = "none" <=> closing.ps = 0

(* A call knows its registration and whose connection it uses.             *)
CallFits(call) ==
    /\ call.pc \in {"pool", "acquire"} => call.kind = "conn" /\ call.of = call.ps
    /\ call.pc \in {"alloc", "table", "insert"} => call.kind # "none" /\ call.of \in Generations
    /\ call.pc \in {"pool", "acquire", "table", "insert"} => call.ps \in Generations

(* UnregisterPlugin has emptied the tables, and nobody fills them while it *)
(* waits for the connections.                                              *)
ClosedForGood ==
    closing.pc = "close" =>
        /\ \A t \in Executions : tables[closing.ps][t] = {}
        /\ \A x \in Executions : sqlCalls[x].pc = "insert" /\ sqlCalls[x].ps = closing.ps => ~sqlCalls[x].live

HeldByCall(call, c) ==
    call.pc \in {"alloc", "table", "insert"} /\ call.kind = "conn" /\ call.conn = c.n /\ call.of = c.of

HeldInTable(table, c) == \E h \in table : h.kind = "conn" /\ Connection(h.by, h.conn, h.of) = c

(* A cleanup of the table is still to come. *)
Watched(g, ctx, registered, closed) == (g = registered /\ ctx # "cleaned") \/ g = closed

Accounted(c) == InCall(c) \/ InTable(c) \/ c \in strays

PoolAccounted(g) == pools[g] = "open" => g \in {gen, closing.ps} \/ Pool(g) \in strays

SqlInv ==
    /\ SqlTyped /\ ClosedForGood
    /\ \A x \in Executions : CallFits(sqlCalls[x])
    /\ \A c \in lent : Accounted(c)
    /\ \A g \in Generations : PoolAccounted(g)

LEMMA SqlFacts ==
  /\ Generations \subseteq Nat /\ 0 \notin Generations
  /\ NoSqlCall \in SqlCall /\ NoSqlCall.pc = "idle" /\ CallFits(NoSqlCall)
  /\ \A c : ~HeldByCall(NoSqlCall, c)
  /\ \A c : ~HeldInTable({}, c)
  BY SqlAssumption DEF Generations, NoSqlCall, SqlCall, CallFits, HeldByCall, HeldInTable

LEMMA TraceType ==
  ASSUME NEW x \in Executions
  PROVE  Trace(x) \in Executions
  <1>1. (CHOOSE y \in Executions : TRUE) \in Executions
    OBVIOUS
  <1> QED
    BY <1>1 DEF Trace

(* What holds a connection, in terms of the parts that a step changes. *)
LEMMA AccountedMeans ==
  ASSUME SqlTyped, NEW c \in Connections
  PROVE  /\ InCall(c) <=> HeldByCall(sqlCalls[c.exec], c)
         /\ InTable(c) <=> \E g \in Generations : /\ HeldInTable(tables[g][Trace(c.exec)], c)
                                                  /\ Watched(g, contexts[c.exec], gen, closing.ps)
         /\ c.exec \in Executions /\ Trace(c.exec) \in Executions
  <1>1. c.exec \in Executions
    BY DEF Connections
  <1>2. Trace(c.exec) \in Executions
    BY <1>1, TraceType
  <1>3. ASSUME NEW g \in Generations
        PROVE  c \in HeldBy(g, Trace(c.exec)) <=> HeldInTable(tables[g][Trace(c.exec)], c)
    BY DEF HeldBy, HeldInTable
  <1>4. InTable(c) <=> \E g \in Generations : /\ HeldInTable(tables[g][Trace(c.exec)], c)
                                              /\ Watched(g, contexts[c.exec], gen, closing.ps)
    BY <1>3 DEF InTable, Watched
  <1>5. InCall(c) <=> HeldByCall(sqlCalls[c.exec], c)
    BY DEF InCall, HeldByCall
  <1> QED
    BY <1>1, <1>2, <1>4, <1>5

(* The connection in the hands of a call. *)
LEMMA TheConnection ==
  ASSUME NEW c \in Connections, NEW call, HeldByCall(call, c)
  PROVE  c = Connection(c.exec, call.conn, call.of)
  BY DEF Connections, HeldByCall, Connection


LEMMA AccountedNext ==
  ASSUME SqlTyped', nested' = nested, NEW c \in Connections
  PROVE  Accounted(c)' <=>
            \/ HeldByCall(sqlCalls'[c.exec], c)
            \/ \E g \in Generations : /\ HeldInTable(tables'[g][Trace(c.exec)], c)
                                      /\ Watched(g, contexts'[c.exec], gen', closing'.ps)
            \/ c \in strays'
  <1>1. Trace(c.exec)' = Trace(c.exec)
    BY DEF Trace
  <1>2. ASSUME NEW g \in Generations
        PROVE  (c \in HeldBy(g, Trace(c.exec)))' <=> HeldInTable(tables'[g][Trace(c.exec)], c)
    BY <1>1 DEF HeldBy, HeldInTable
  <1>3. InTable(c)' <=> \E g \in Generations : /\ HeldInTable(tables'[g][Trace(c.exec)], c)
                                               /\ Watched(g, contexts'[c.exec], gen', closing'.ps)
    BY <1>2 DEF InTable, Watched
  <1>4. InCall(c)' <=> HeldByCall(sqlCalls'[c.exec], c)
    BY DEF InCall, HeldByCall
  <1> QED
    BY <1>3, <1>4 DEF Accounted

LEMMA AccountedNow ==
  ASSUME SqlInv, NEW c \in lent
  PROVE  /\ c \in Connections /\ c.exec \in Executions /\ Trace(c.exec) \in Executions
         /\ \/ HeldByCall(sqlCalls[c.exec], c)
            \/ \E g \in Generations : /\ HeldInTable(tables[g][Trace(c.exec)], c)
                                      /\ Watched(g, contexts[c.exec], gen, closing.ps)
            \/ c \in strays
  <1>1. SqlTyped /\ Accounted(c) /\ c \in Connections
    BY DEF SqlInv, SqlTyped
  <1> QED
    BY <1>1, AccountedMeans DEF Accounted

(* A call goes on, and keeps the connection it has or gives it back. *)
LEMMA SqlCallGoesOn ==
  ASSUME SqlInv, NEW x \in Executions, NEW k \in SqlCall, sqlCalls' = [sqlCalls EXCEPT ![x] = k],
         UNCHANGED <<nested, gen, registrations, tables, contexts, closing>>,
         pools' \in [Generations -> {"none", "open", "closed"}], callsMade' \in [Executions -> Nat],
         lent' \subseteq Connections, strays \subseteq strays',
         CallFits(k),
         closing.pc = "close" /\ k.pc = "insert" /\ k.ps = closing.ps => ~k.live,
         \A c \in lent' : \/ c.exec = x /\ HeldByCall(k, c)
                          \/ c \in lent /\ (c.exec = x => ~HeldByCall(sqlCalls[x], c))
                          \/ c \in strays',
         \A g \in Generations : PoolAccounted(g)'
  PROVE  SqlInv'
  <1>1. sqlCalls \in [Executions -> SqlCall]
    BY DEF SqlInv, SqlTyped
  <1>2. PICK calls : calls = sqlCalls'
    OBVIOUS
  <1>3. calls \in [Executions -> SqlCall] /\ calls[x] = k /\ \A y \in Executions : y # x => calls[y] = sqlCalls[y]
    BY <1>1, <1>2
  <1>4. SqlTyped'
    BY <1>2, <1>3 DEF SqlInv, SqlTyped
  <1>5. ClosedForGood'
    BY <1>2, <1>3 DEF SqlInv, ClosedForGood
  <1>6. \A y \in Executions : CallFits(calls[y])
    BY <1>3 DEF SqlInv
  <1>7. ASSUME NEW c \in lent'
        PROVE  Accounted(c)'
    <2>1. c \in Connections /\ c.exec \in Executions
      BY DEF Connections
    <2>2. CASE c.exec = x /\ HeldByCall(k, c)
      BY <1>2, <1>3, <1>4, <2>1, <2>2, AccountedNext
    <2>3. CASE c \in lent /\ (c.exec = x => ~HeldByCall(sqlCalls[x], c))
      <3>1. \/ HeldByCall(sqlCalls[c.exec], c)
            \/ \E g \in Generations : /\ HeldInTable(tables[g][Trace(c.exec)], c)
                                      /\ Watched(g, contexts[c.exec], gen, closing.ps)
            \/ c \in strays
        BY <2>3, AccountedNow
      <3>2. HeldByCall(sqlCalls[c.exec], c) => HeldByCall(calls[c.exec], c)
        BY <1>3, <2>1, <2>3
      <3> QED
        BY <1>2, <1>4, <2>1, <3>1, <3>2, AccountedNext
    <2>4. CASE c \in strays'
      BY <1>4, <2>1, <2>4, AccountedNext
    <2> QED
      BY <2>2, <2>3, <2>4
  <1> QED
    BY <1>2, <1>4, <1>5, <1>6, <1>7 DEF SqlInv


(* What a call in progress can rely on. *)
LEMMA SqlCallFacts ==
  ASSUME SqlInv, NEW x \in Executions
  PROVE  /\ sqlCalls[x] \in SqlCall /\ CallFits(sqlCalls[x]) /\ callsMade[x] \in Nat
         /\ pools \in [Generations -> {"none", "open", "closed"}] /\ callsMade \in [Executions -> Nat]
         /\ lent \subseteq Connections /\ gen \in {0} \cup Generations /\ gen \in Nat
         /\ Trace(x) \in Executions
         /\ \A g \in Generations : tables[g][Trace(x)] \subseteq Handle
         /\ \A c \in lent : c \in Connections /\ c.exec \in Executions
         /\ \A g \in Generations : PoolAccounted(g)
  <1>1. Trace(x) \in Executions
    BY TraceType
  <1>2. gen \in Nat
    BY SqlFacts DEF SqlInv, SqlTyped
  <1>3. \A c \in lent : c \in Connections /\ c.exec \in Executions
    BY DEF SqlInv, SqlTyped, Connections
  <1> QED
    BY <1>1, <1>2, <1>3 DEF SqlInv, SqlTyped

LEMMA SqlStateFacts ==
  ASSUME SqlInv
  PROVE  /\ pools \in [Generations -> {"none", "open", "closed"}]
         /\ gen \in {0} \cup Generations
         /\ \A g \in Generations : PoolAccounted(g)
  BY DEF SqlInv, SqlTyped

LEMMA SqlOpenSqlInv ==
  ASSUME SqlInv, NEW x \in Executions, SqlOpen(x)
  PROVE  SqlInv'
  <1>1. PICK k : k = [NoSqlCall EXCEPT !.pc = "pool", !.ps = gen, !.kind = "conn", !.of = gen]
    OBVIOUS
  <1>2. gen \in Generations /\ gen \in Nat /\ sqlCalls[x].pc = "idle"
    BY SqlCallFacts DEF SqlOpen, CanCall
  <1>3. k \in SqlCall /\ k.pc = "pool" /\ k.kind = "conn" /\ k.of = gen /\ k.ps = gen
    BY <1>1, <1>2 DEF NoSqlCall, SqlCall
  <1>4. CallFits(k)
    BY <1>2, <1>3 DEF CallFits
  <1>5. /\ sqlCalls' = [sqlCalls EXCEPT ![x] = k] /\ lent' = lent /\ strays' = strays /\ pools' = pools
        /\ UNCHANGED <<nested, gen, registrations, tables, contexts, closing>>
    BY <1>1 DEF SqlOpen, Goes
  <1>6. callsMade' \in [Executions -> Nat]
    BY SqlCallFacts DEF SqlOpen
  <1>7. \A c : ~HeldByCall(sqlCalls[x], c)
    BY <1>2 DEF HeldByCall
  <1>8. \A g \in Generations : PoolAccounted(g)'
    BY <1>5, SqlCallFacts DEF PoolAccounted, Pool
  <1> QED
    BY <1>3, <1>4, <1>5, <1>6, <1>7, <1>8, SqlCallFacts, SqlCallGoesOn

LEMMA GetOrCreatePoolSqlInv ==
  ASSUME SqlInv, NEW x \in Executions, GetOrCreatePool(x)
  PROVE  SqlInv'
  <1>1. PICK call, g : call = sqlCalls[x] /\ g = call.ps
    OBVIOUS
  <1>2. call \in SqlCall /\ CallFits(call) /\ call.pc = "pool" /\ g \in Generations
    BY <1>1, SqlCallFacts DEF GetOrCreatePool, CallFits
  <1>3. /\ lent' = lent /\ callsMade' = callsMade
        /\ UNCHANGED <<nested, gen, registrations, tables, contexts, closing>>
    BY DEF GetOrCreatePool
  <1>4. \A c : ~HeldByCall(call, c)
    BY <1>2 DEF HeldByCall
  <1>5. PICK k \in SqlCall : /\ sqlCalls' = [sqlCalls EXCEPT ![x] = k]
                             /\ CallFits(k) /\ k.pc # "insert"
    <2>1. CASE Goes(x, [sqlCalls[x] EXCEPT !.pc = "acquire"])
      <3>1. PICK k : k = [call EXCEPT !.pc = "acquire"]
        OBVIOUS
      <3>2. k \in SqlCall /\ k.pc = "acquire" /\ k.kind = call.kind /\ k.of = call.of /\ k.ps = call.ps
        BY <1>2, <3>1 DEF SqlCall
      <3>3. sqlCalls' = [sqlCalls EXCEPT ![x] = k] /\ CallFits(k)
        BY <1>1, <1>2, <2>1, <3>1, <3>2 DEF Goes, CallFits
      <3> QED
        BY <3>2, <3>3
    <2>2. CASE Goes(x, NoSqlCall)
      BY <2>2, SqlFacts DEF Goes
    <2> QED
      BY <2>1, <2>2 DEF GetOrCreatePool
  <1>6. strays \subseteq strays' /\ pools' \in [Generations -> {"none", "open", "closed"}]
        /\ \A h \in Generations : PoolAccounted(h)'
    <2>1. CASE UNCHANGED <<pools, strays>>
      BY <1>3, <2>1, SqlCallFacts DEF PoolAccounted, Pool
    <2>2. CASE /\ pools' = [pools EXCEPT ![g] = IF @ = "none" THEN "open" ELSE @]
               /\ strays' = IF pools[g] = "none" /\ g # gen /\ closing.ps # g THEN strays \cup {Pool(g)} ELSE strays
      <3>1. strays \subseteq strays' /\ pools' \in [Generations -> {"none", "open", "closed"}]
        BY <2>2, SqlCallFacts
      <3>2. ASSUME NEW h \in Generations, pools'[h] = "open"
            PROVE  h \in {gen, closing.ps} \/ Pool(h) \in strays'
        <4>1. CASE pools[h] = "open"
          BY <3>1, <4>1, SqlCallFacts DEF PoolAccounted
        <4>2. CASE pools[h] # "open"
          <5>1. h = g /\ pools[g] = "none"
            BY <1>2, <2>2, <3>2, <4>2, SqlCallFacts
          <5> QED
            BY <2>2, <5>1
        <4> QED
          BY <4>1, <4>2
      <3> QED
        BY <1>3, <3>1, <3>2 DEF PoolAccounted, Pool
    <2> QED
      BY <1>1, <2>1, <2>2 DEF GetOrCreatePool
  <1> QED
    BY <1>1, <1>3, <1>4, <1>5, <1>6, SqlCallFacts, SqlCallGoesOn

LEMMA AcquireConnSqlInv ==
  ASSUME SqlInv, NEW x \in Executions, AcquireConn(x)
  PROVE  SqlInv'
  <1>1. PICK call, g, n : call = sqlCalls[x] /\ g = call.ps /\ n = callsMade[x]
    OBVIOUS
  <1>2. call \in SqlCall /\ CallFits(call) /\ call.pc = "acquire" /\ g \in Generations /\ call.kind = "conn"
        /\ call.of = g /\ n \in Nat
    BY <1>1, SqlCallFacts DEF AcquireConn, CallFits
  <1>3. /\ pools' = pools /\ callsMade' = callsMade /\ strays' = strays
        /\ UNCHANGED <<nested, gen, registrations, tables, contexts, closing>>
    BY DEF AcquireConn
  <1>4. \A c : ~HeldByCall(call, c)
    BY <1>2 DEF HeldByCall
  <1>5. \A h \in Generations : PoolAccounted(h)'
    BY <1>3, SqlCallFacts DEF PoolAccounted, Pool
  <1>6. CASE lent' = lent \cup {Connection(x, n, g)} /\ Goes(x, [sqlCalls[x] EXCEPT !.pc = "alloc", !.conn = n])
    <2>1. PICK k : k = [call EXCEPT !.pc = "alloc", !.conn = n]
      OBVIOUS
    <2>2. /\ k \in SqlCall /\ k.pc = "alloc" /\ k.kind = "conn" /\ k.of = g /\ k.ps = g /\ k.conn = n
          /\ sqlCalls' = [sqlCalls EXCEPT ![x] = k]
      BY <1>1, <1>2, <1>6, <2>1 DEF SqlCall, Goes
    <2>3. CallFits(k)
      BY <1>2, <2>2 DEF CallFits
    <2>4. PICK d : d = Connection(x, n, g)
      OBVIOUS
    <2>5. d \in Connections /\ d.exec = x /\ HeldByCall(k, d)
      BY <1>2, <2>2, <2>4 DEF Connection, Connections, HeldByCall
    <2>6. \A c \in lent' : (c.exec = x /\ HeldByCall(k, c)) \/ c \in lent
      BY <1>6, <2>4, <2>5
    <2>7. lent' \subseteq Connections
      BY <1>6, <2>4, <2>5, SqlCallFacts
    <2> QED
      BY <1>1, <1>3, <1>4, <1>5, <2>2, <2>3, <2>6, <2>7, SqlCallFacts, SqlCallGoesOn
  <1>7. CASE Goes(x, NoSqlCall) /\ lent' = lent
    <2>1. PICK k : k = NoSqlCall
      OBVIOUS
    <2>2. k \in SqlCall /\ k.pc = "idle" /\ CallFits(k) /\ sqlCalls' = [sqlCalls EXCEPT ![x] = k]
      BY <1>7, <2>1, SqlFacts DEF Goes
    <2> QED
      BY <1>1, <1>3, <1>4, <1>5, <1>7, <2>2, SqlCallFacts, SqlCallGoesOn
  <1> QED
    BY <1>1, <1>6, <1>7 DEF AcquireConn

LEMMA SqlBeginOrQuerySqlInv ==
  ASSUME SqlInv, NEW x \in Executions, SqlBeginOrQuery(x)
  PROVE  SqlInv'
  <1>1. gen \in Generations /\ sqlCalls[x].pc = "idle"
    BY SqlCallFacts DEF SqlBeginOrQuery, CanCall
  <1>2. PICK h \in tables[gen][Trace(x)], kind \in {"tx", "rows"} :
          Goes(x, [NoSqlCall EXCEPT !.pc = "alloc", !.kind = kind, !.conn = h.conn, !.of = h.of])
    BY DEF SqlBeginOrQuery
  <1>3. h \in Handle /\ h.conn \in Nat /\ h.of \in Generations /\ h.of \in Nat
    BY <1>1, SqlCallFacts, SqlFacts DEF Handle
  <1>4. PICK k : k = [NoSqlCall EXCEPT !.pc = "alloc", !.kind = kind, !.conn = h.conn, !.of = h.of]
    OBVIOUS
  <1>5. k \in SqlCall /\ k.pc = "alloc" /\ k.kind = kind /\ k.of = h.of
    BY <1>3, <1>4 DEF NoSqlCall, SqlCall
  <1>6. CallFits(k)
    BY <1>3, <1>5 DEF CallFits
  <1>7. /\ sqlCalls' = [sqlCalls EXCEPT ![x] = k] /\ lent' = lent /\ strays' = strays /\ pools' = pools
        /\ UNCHANGED <<nested, gen, registrations, tables, contexts, closing>>
    BY <1>2, <1>4 DEF SqlBeginOrQuery, Goes
  <1>8. callsMade' \in [Executions -> Nat]
    BY SqlCallFacts DEF SqlBeginOrQuery
  <1>9. \A c : ~HeldByCall(sqlCalls[x], c)
    BY <1>1 DEF HeldByCall
  <1>10. \A g \in Generations : PoolAccounted(g)'
    BY <1>7, SqlCallFacts DEF PoolAccounted, Pool
  <1> QED
    BY <1>5, <1>6, <1>7, <1>8, <1>9, <1>10, SqlCallFacts, SqlCallGoesOn

(* The connection of a handle that cannot be had goes back. *)
LEMMA Released ==
  ASSUME SqlInv, NEW x \in Executions
  PROVE  /\ ReleaseOnFailure(x) \subseteq lent
         /\ \A c \in ReleaseOnFailure(x) : c.exec = x => ~HeldByCall(sqlCalls[x], c)
  <1>1. ReleaseOnFailure(x) \subseteq lent
    BY DEF ReleaseOnFailure
  <1>2. ASSUME NEW c \in ReleaseOnFailure(x), c.exec = x, HeldByCall(sqlCalls[x], c)
        PROVE  FALSE
    <2>1. c \in Connections /\ sqlCalls[x].kind = "conn"
      BY <1>1, <1>2, SqlCallFacts DEF HeldByCall
    <2>2. c = Connection(x, sqlCalls[x].conn, sqlCalls[x].of)
      BY <1>2, <2>1, TheConnection
    <2> QED
      BY <2>1, <2>2 DEF ReleaseOnFailure
  <1> QED
    BY <1>1, <1>2

LEMMA AllocFindsStateSqlInv ==
  ASSUME SqlInv, NEW x \in Executions, AllocFindsState(x)
  PROVE  SqlInv'
  <1>1. PICK call : call = sqlCalls[x]
    OBVIOUS
  <1>2. call \in SqlCall /\ CallFits(call) /\ call.pc = "alloc"
    BY <1>1, SqlCallFacts DEF AllocFindsState
  <1>3. /\ pools' = pools /\ callsMade' = callsMade /\ strays' = strays
        /\ UNCHANGED <<nested, gen, registrations, tables, contexts, closing>>
    BY DEF AllocFindsState
  <1>4. \A h \in Generations : PoolAccounted(h)'
    BY <1>3, SqlCallFacts DEF PoolAccounted, Pool
  <1>5. CASE gen # 0 /\ Goes(x, [sqlCalls[x] EXCEPT !.pc = "table", !.ps = gen]) /\ lent' = lent
    <2>1. gen \in Generations /\ gen \in Nat
      BY <1>5, SqlCallFacts
    <2>2. PICK k : k = [call EXCEPT !.pc = "table", !.ps = gen]
      OBVIOUS
    <2>3. /\ k \in SqlCall /\ k.pc = "table" /\ k.kind = call.kind /\ k.of = call.of /\ k.ps = gen /\ k.conn = call.conn
          /\ sqlCalls' = [sqlCalls EXCEPT ![x] = k]
      BY <1>1, <1>2, <1>5, <2>1, <2>2 DEF SqlCall, Goes
    <2>4. CallFits(k)
      BY <1>2, <2>1, <2>3 DEF CallFits
    <2>5. \A c : HeldByCall(call, c) => HeldByCall(k, c)
      BY <1>2, <2>3 DEF HeldByCall
    <2> QED
      BY <1>1, <1>3, <1>4, <1>5, <2>3, <2>4, <2>5, SqlCallFacts, SqlCallGoesOn
  <1>6. CASE Goes(x, NoSqlCall) /\ lent' = ReleaseOnFailure(x)
    <2>1. PICK k : k = NoSqlCall
      OBVIOUS
    <2>2. k \in SqlCall /\ k.pc = "idle" /\ CallFits(k) /\ sqlCalls' = [sqlCalls EXCEPT ![x] = k]
      BY <1>6, <2>1, SqlFacts DEF Goes
    <2>3. lent' \subseteq lent /\ \A c \in lent' : c.exec = x => ~HeldByCall(call, c)
      BY <1>1, <1>6, Released
    <2> QED
      BY <1>1, <1>3, <1>4, <2>2, <2>3, SqlCallFacts, SqlCallGoesOn
  <1> QED
    BY <1>5, <1>6 DEF AllocFindsState

LEMMA GetExecHandlesSqlInv ==
  ASSUME SqlInv, NEW x \in Executions, GetExecHandles(x)
  PROVE  SqlInv'
  <1>1. PICK call : call = sqlCalls[x]
    OBVIOUS
  <1>2. call \in SqlCall /\ CallFits(call) /\ call.pc = "table" /\ Unlocked(call.ps)
    BY <1>1, SqlCallFacts DEF GetExecHandles
  <1>3. /\ pools' = pools /\ callsMade' = callsMade /\ strays' = strays /\ lent' = lent
        /\ UNCHANGED <<nested, gen, registrations, tables, contexts, closing>>
    BY DEF GetExecHandles
  <1>4. \A h \in Generations : PoolAccounted(h)'
    BY <1>3, SqlCallFacts DEF PoolAccounted, Pool
  <1>5. PICK k : k = [call EXCEPT !.pc = "insert", !.live = TRUE]
    OBVIOUS
  <1>6. /\ k \in SqlCall /\ k.pc = "insert" /\ k.kind = call.kind /\ k.of = call.of /\ k.ps = call.ps /\ k.conn = call.conn
        /\ sqlCalls' = [sqlCalls EXCEPT ![x] = k]
    BY <1>1, <1>2, <1>5 DEF SqlCall, Goes, GetExecHandles
  <1>7. CallFits(k)
    BY <1>2, <1>6 DEF CallFits
  <1>8. \A c : HeldByCall(call, c) => HeldByCall(k, c)
    BY <1>2, <1>6 DEF HeldByCall
  <1>9. ~(closing.pc = "close" /\ k.ps = closing.ps)
    BY <1>2, <1>6 DEF Unlocked
  <1> QED
    BY <1>1, <1>3, <1>4, <1>6, <1>7, <1>8, <1>9, SqlCallFacts, SqlCallGoesOn


(* A handle gets into the table of its execution. *)
LEMMA HandleInserted ==
  ASSUME SqlInv, NEW x \in Executions, AllocInserts(x), sqlCalls[x].live,
         NEW h \in Handle,
         h = [by |-> x, id |-> callsMade[x], kind |-> sqlCalls[x].kind, conn |-> sqlCalls[x].conn, of |-> sqlCalls[x].of],
         tables' = [tables EXCEPT ![sqlCalls[x].ps][Trace(x)] = @ \cup {h}],
         lent' = lent, sqlCalls[x].kind = "conn" /\ Abandoned(x) => Connection(x, sqlCalls[x].conn, sqlCalls[x].of) \in strays',
         strays \subseteq strays'
  PROVE  SqlInv'
  <1>1. PICK call, g, t : call = sqlCalls[x] /\ g = call.ps /\ t = Trace(x)
    OBVIOUS
  <1>2. call \in SqlCall /\ CallFits(call) /\ call.pc = "insert" /\ g \in Generations /\ t \in Executions
    BY <1>1, SqlCallFacts DEF AllocInserts, CallFits
  <1>3. /\ pools' = pools /\ callsMade' = callsMade
        /\ UNCHANGED <<nested, gen, registrations, contexts, closing>>
        /\ sqlCalls' = [sqlCalls EXCEPT ![x] = NoSqlCall]
    BY DEF AllocInserts, Goes
  <1>4. /\ tables \in [Generations -> [Executions -> SUBSET Handle]] /\ sqlCalls \in [Executions -> SqlCall]
        /\ tables' = [tables EXCEPT ![g][t] = @ \cup {h}]
    BY <1>1 DEF SqlInv, SqlTyped
  <1>5. PICK tabs : tabs = tables'
    OBVIOUS
  <1>6. /\ tabs \in [Generations -> [Executions -> SUBSET Handle]]
        /\ tabs[g][t] = tables[g][t] \cup {h}
        /\ \A i \in Generations, u \in Executions : /\ tables[i][u] \subseteq tabs[i][u]
                                                    /\ i # g => tabs[i][u] = tables[i][u]
    BY <1>2, <1>4, <1>5
  <1>7. PICK calls : calls = sqlCalls'
    OBVIOUS
  <1>8. /\ calls \in [Executions -> SqlCall] /\ calls[x] = NoSqlCall
        /\ \A y \in Executions : y # x => calls[y] = sqlCalls[y]
    BY <1>3, <1>4, <1>7, SqlFacts
  <1>9. SqlTyped'
    BY <1>3, <1>5, <1>6, <1>7, <1>8 DEF SqlInv, SqlTyped
  <1>10. ClosedForGood'
    <2> SUFFICES ASSUME closing.pc = "close"
                 PROVE  /\ \A u \in Executions : tabs[closing.ps][u] = {}
                        /\ \A y \in Executions : calls[y].pc = "insert" /\ calls[y].ps = closing.ps => ~calls[y].live
      BY <1>3, <1>5, <1>7 DEF ClosedForGood
    <2>1. closing.ps \in Generations /\ closing.ps # g
      BY <1>1, <1>2 DEF SqlInv, SqlTyped, ClosedForGood
    <2>2. \A u \in Executions : tabs[closing.ps][u] = {}
      BY <1>6, <2>1 DEF SqlInv, ClosedForGood
    <2>3. \A y \in Executions : calls[y].pc = "insert" /\ calls[y].ps = closing.ps => ~calls[y].live
      BY <1>8, SqlFacts DEF SqlInv, ClosedForGood
    <2> QED
      BY <2>2, <2>3
  <1>11. \A y \in Executions : CallFits(calls[y])
    BY <1>8, SqlFacts DEF SqlInv
  <1>12. \A i \in Generations : PoolAccounted(i)'
    BY <1>3, SqlCallFacts DEF PoolAccounted, Pool
  <1>13. ASSUME NEW c \in lent
         PROVE  Accounted(c)'
    <2>1. /\ c \in Connections /\ c.exec \in Executions /\ Trace(c.exec) \in Executions
          /\ \/ HeldByCall(sqlCalls[c.exec], c)
             \/ \E i \in Generations : /\ HeldInTable(tables[i][Trace(c.exec)], c)
                                       /\ Watched(i, contexts[c.exec], gen, closing.ps)
             \/ c \in strays
      BY AccountedNow
    <2>2. CASE c.exec = x /\ HeldByCall(call, c)
      <3>1. c = Connection(x, call.conn, call.of) /\ call.kind = "conn"
        BY <2>1, <2>2, TheConnection, SMTT(30) DEF HeldByCall
      <3>2. CASE Abandoned(x)
        BY <1>1, <1>9, <1>3, <2>1, <3>1, <3>2, AccountedNext
      <3>3. CASE ~Abandoned(x)
        <4>1. Watched(g, contexts[x], gen, closing.ps)
          BY <1>1, <3>3 DEF Abandoned, Watched
        <4>2. HeldInTable(tabs[g][t], c)
          <5>1. h \in tabs[g][t] /\ h.kind = "conn" /\ Connection(h.by, h.conn, h.of) = c
            BY <1>1, <1>6, <3>1
          <5> QED
            BY <5>1 DEF HeldInTable
        <4> QED
          BY <1>1, <1>2, <1>3, <1>5, <1>9, <2>1, <2>2, <4>1, <4>2, AccountedNext
      <3> QED
        BY <3>2, <3>3
    <2>3. CASE ~(c.exec = x /\ HeldByCall(call, c))
      <3>1. HeldByCall(sqlCalls[c.exec], c) => HeldByCall(calls[c.exec], c)
        BY <1>1, <1>8, <2>1, <2>3
      <3>2. \A i \in Generations : HeldInTable(tables[i][Trace(c.exec)], c) => HeldInTable(tabs[i][Trace(c.exec)], c)
        BY <1>6, <2>1 DEF HeldInTable
      <3> QED
        BY <1>3, <1>5, <1>7, <1>9, <2>1, <3>1, <3>2, AccountedNext
    <2> QED
      BY <2>2, <2>3
  <1> QED
    BY <1>7, <1>9, <1>10, <1>11, <1>12, <1>13 DEF SqlInv

LEMMA AllocInsertsSqlInv ==
  ASSUME SqlInv, NEW x \in Executions, AllocInserts(x)
  PROVE  SqlInv'
  <1>1. PICK call, g : call = sqlCalls[x] /\ g = call.ps
    OBVIOUS
  <1>2. PICK full \in BOOLEAN : full = (call.live /\ Cardinality(tables[g][Trace(x)]) >= MaxHandles)
    OBVIOUS
  <1>3. /\ call \in SqlCall /\ CallFits(call) /\ call.pc = "insert" /\ callsMade[x] \in Nat
        /\ call.kind \in {"conn", "tx", "rows"} /\ call.of \in Generations /\ call.conn \in Nat
    BY <1>1, SqlCallFacts DEF AllocInserts, CallFits, SqlCall
  <1>4. /\ pools' = pools /\ callsMade' = callsMade
        /\ UNCHANGED <<nested, gen, registrations, contexts, closing>>
        /\ sqlCalls' = [sqlCalls EXCEPT ![x] = NoSqlCall]
    BY DEF AllocInserts, Goes
  <1>5. PICK h : h = [by |-> x, id |-> callsMade[x], kind |-> call.kind, conn |-> call.conn, of |-> call.of]
    OBVIOUS
  <1>6. h \in Handle
    BY <1>3, <1>5 DEF Handle
  <1>7. /\ tables' = IF full \/ ~call.live THEN tables ELSE [tables EXCEPT ![g][Trace(x)] = @ \cup {h}]
        /\ lent' = IF full THEN ReleaseOnFailure(x) ELSE lent
        /\ strays' = IF ~full /\ call.kind = "conn" /\ Abandoned(x)
                     THEN strays \cup {Connection(x, call.conn, call.of)} ELSE strays
    BY <1>1, <1>2, <1>5 DEF AllocInserts
  <1>8. strays \subseteq strays'
    BY <1>7
  <1>9. PICK k : k = NoSqlCall
    OBVIOUS
  <1>10. k \in SqlCall /\ k.pc = "idle" /\ CallFits(k) /\ sqlCalls' = [sqlCalls EXCEPT ![x] = k]
    BY <1>4, <1>9, SqlFacts
  <1>11. \A i \in Generations : PoolAccounted(i)'
    BY <1>4, <1>8, SqlCallFacts DEF PoolAccounted, Pool
  <1>12. CASE full
    <2>1. lent' \subseteq lent /\ \A c \in lent' : c.exec = x => ~HeldByCall(call, c)
      BY <1>1, <1>7, <1>12, Released
    <2>2. tables' = tables
      BY <1>7, <1>12
    <2> QED
      BY <1>1, <1>4, <1>8, <1>10, <1>11, <2>1, <2>2, SqlCallFacts, SqlCallGoesOn
  <1>13. CASE ~full /\ ~call.live
    <2>1. tables' = tables /\ lent' = lent
      BY <1>7, <1>13
    <2>2. Abandoned(x)
      BY <1>1, <1>13 DEF Abandoned
    <2>3. ASSUME NEW c \in lent, c.exec = x, HeldByCall(call, c)
          PROVE  c \in strays'
      <3>1. c = Connection(x, call.conn, call.of) /\ call.kind = "conn"
        BY <2>3, SqlCallFacts, TheConnection DEF HeldByCall
      <3> QED
        BY <1>7, <1>13, <2>2, <3>1
    <2> QED
      BY <1>1, <1>4, <1>8, <1>10, <1>11, <2>1, <2>3, SqlCallFacts, SqlCallGoesOn
  <1>14. CASE ~full /\ call.live
    <2>1. tables' = [tables EXCEPT ![g][Trace(x)] = @ \cup {h}] /\ lent' = lent
      BY <1>7, <1>14
    <2>2. call.kind = "conn" /\ Abandoned(x) => Connection(x, call.conn, call.of) \in strays'
      BY <1>7, <1>14
    <2> QED
      BY <1>1, <1>5, <1>6, <1>8, <1>14, <2>1, <2>2, HandleInserted
  <1> QED
    BY <1>12, <1>13, <1>14


(* Handles leave their tables, and what they held is given back or let go. *)
LEMMA HandlesLeave ==
  ASSUME SqlInv, SqlTyped', ClosedForGood', nested' = nested, gen' = gen, closing'.ps = closing.ps,
         \A x \in Executions : CallFits(sqlCalls'[x]),
         \A g \in Generations : PoolAccounted(g)',
         lent' \subseteq lent, strays \subseteq strays',
         \A x \in Executions : \A c \in lent : HeldByCall(sqlCalls[x], c) => HeldByCall(sqlCalls'[x], c),
         \A c \in lent' : \A g \in Generations :
            HeldInTable(tables[g][Trace(c.exec)], c) /\ Watched(g, contexts[c.exec], gen, closing.ps) =>
               \/ HeldInTable(tables'[g][Trace(c.exec)], c) /\ Watched(g, contexts'[c.exec], gen, closing.ps)
               \/ c \in strays'
  PROVE  SqlInv'
  <1>1. ASSUME NEW c \in lent'
        PROVE  Accounted(c)'
    <2>1. c \in lent
      OBVIOUS
    <2>2. /\ c \in Connections /\ c.exec \in Executions
          /\ \/ HeldByCall(sqlCalls[c.exec], c)
             \/ \E g \in Generations : /\ HeldInTable(tables[g][Trace(c.exec)], c)
                                       /\ Watched(g, contexts[c.exec], gen, closing.ps)
             \/ c \in strays
      BY <2>1, AccountedNow
    <2>3. CASE HeldByCall(sqlCalls[c.exec], c)
      BY <2>1, <2>2, <2>3, AccountedNext
    <2>4. ASSUME NEW g \in Generations, HeldInTable(tables[g][Trace(c.exec)], c),
                 Watched(g, contexts[c.exec], gen, closing.ps)
          PROVE  Accounted(c)'
      <3>1. \/ HeldInTable(tables'[g][Trace(c.exec)], c) /\ Watched(g, contexts'[c.exec], gen, closing.ps)
            \/ c \in strays'
        BY <2>4
      <3> QED
        BY <2>2, <3>1, AccountedNext
    <2>5. CASE c \in strays
      BY <2>2, <2>5, AccountedNext
    <2> QED
      BY <2>2, <2>3, <2>4, <2>5
  <1> QED
    BY <1>1 DEF SqlInv

LEMMA RemoveHandleSqlInv ==
  ASSUME SqlInv, NEW x \in Executions, RemoveHandle(x)
  PROVE  SqlInv'
  <1>1. PICK t, g : t = Trace(x) /\ g = gen
    OBVIOUS
  <1>2. PICK h \in tables[g][t] : SqlClose(x, h) \/ SqlEndOrRowsClose(x, h) \/ SqlNext(x, h)
    BY <1>1 DEF RemoveHandle
  <1>3. /\ UNCHANGED <<nested, gen, registrations, pools, sqlCalls, contexts, closing>>
        /\ g \in Generations /\ t \in Executions
    BY <1>1, SqlCallFacts DEF RemoveHandle
  <1>4. tables \in [Generations -> [Executions -> SUBSET Handle]]
    BY DEF SqlInv, SqlTyped
  <1>5. callsMade' \in [Executions -> Nat]
    BY SqlCallFacts DEF RemoveHandle
  <1>6. PICK d : d = Connection(h.by, h.conn, h.of)
    OBVIOUS
  <1>7. /\ tables' = [tables EXCEPT ![g][t] = @ \ {h}]
        /\ lent' \subseteq lent /\ strays \subseteq strays'
        /\ h.kind = "conn" => d \notin lent' \/ d \in strays'
    BY <1>1, <1>2, <1>6 DEF SqlClose, SqlEndOrRowsClose, SqlNext, Without
  <1>8. PICK tabs : tabs = tables'
    OBVIOUS
  <1>9. /\ tabs \in [Generations -> [Executions -> SUBSET Handle]]
        /\ tabs[g][t] = tables[g][t] \ {h}
        /\ \A i \in Generations, u \in Executions : i # g \/ u # t => tabs[i][u] = tables[i][u]
    BY <1>3, <1>4, <1>7, <1>8
  <1>10. SqlTyped'
    BY <1>3, <1>5, <1>7, <1>8, <1>9 DEF SqlInv, SqlTyped
  <1>11. ClosedForGood'
    <2>1. closing.pc = "close" => closing.ps \in Generations
      BY DEF SqlInv, SqlTyped
    <2>2. \A i \in Generations, u \in Executions : tabs[i][u] \subseteq tables[i][u]
      BY <1>9
    <2> QED
      BY <1>3, <1>8, <2>1, <2>2 DEF SqlInv, ClosedForGood
  <1>12. \A i \in Generations : PoolAccounted(i)'
    BY <1>3, <1>7, SqlCallFacts DEF PoolAccounted, Pool
  <1>13. ASSUME NEW c \in lent', NEW i \in Generations, HeldInTable(tables[i][Trace(c.exec)], c)
         PROVE  HeldInTable(tabs[i][Trace(c.exec)], c) \/ c \in strays'
    <2>1. Trace(c.exec) \in Executions
      BY <1>7, AccountedNow
    <2>2. PICK u \in tables[i][Trace(c.exec)] : u.kind = "conn" /\ Connection(u.by, u.conn, u.of) = c
      BY <1>13 DEF HeldInTable
    <2>3. CASE u = h
      BY <1>6, <1>7, <2>2, <2>3
    <2>4. CASE u # h
      <3>1. u \in tabs[i][Trace(c.exec)]
        BY <1>9, <2>1, <2>2, <2>4
      <3> QED
        BY <2>2, <3>1 DEF HeldInTable
    <2> QED
      BY <2>3, <2>4
  <1> QED
    BY <1>3, <1>7, <1>8, <1>10, <1>11, <1>12, <1>13, HandlesLeave DEF SqlInv

(* The tables of some traces are removed, *)
LEMMA TablesRemoved ==
  ASSUME SqlInv, NEW g \in Generations, NEW traces, NEW tabs, tabs = Cleared(g, traces)
  PROVE  /\ tabs \in [Generations -> [Executions -> SUBSET Handle]]
         /\ \A t \in Executions : tabs[g][t] = IF t \in traces THEN {} ELSE tables[g][t]
         /\ \A i \in Generations : i # g => tabs[i] = tables[i]
  <1>1. tables \in [Generations -> [Executions -> SUBSET Handle]]
    BY DEF SqlInv, SqlTyped
  <1>2. PICK row : row = [t \in Executions |-> IF t \in traces THEN {} ELSE tables[g][t]]
    OBVIOUS
  <1>3. row \in [Executions -> SUBSET Handle] /\ tabs = [tables EXCEPT ![g] = row]
    BY <1>1, <1>2 DEF Cleared
  <1>4. /\ tabs \in [Generations -> [Executions -> SUBSET Handle]]
        /\ tabs[g] = row /\ \A i \in Generations : i # g => tabs[i] = tables[i]
    BY <1>1, <1>3
  <1> QED
    BY <1>2, <1>4

(* and a call that had one in hand keeps it: it is as it was, but its      *)
(* table is no longer alive.                                               *)
SameCall(new, old) ==
    /\ new.pc = old.pc /\ new.ps = old.ps /\ new.kind = old.kind /\ new.conn = old.conn /\ new.of = old.of
    /\ new.live => old.live

LEMMA CallsKeepTheirTable ==
  ASSUME SqlInv, NEW g \in Generations, NEW traces, NEW calls, calls = TableGone(g, traces)
  PROVE  /\ calls \in [Executions -> SqlCall]
         /\ \A x \in Executions :
               /\ SameCall(calls[x], sqlCalls[x])
               /\ Trace(x) \in traces /\ calls[x].pc = "insert" /\ calls[x].ps = g => ~calls[x].live
  <1>1. sqlCalls \in [Executions -> SqlCall]
    BY DEF SqlInv, SqlTyped
  <1>2. ASSUME NEW x \in Executions
        PROVE  /\ calls[x] \in SqlCall /\ SameCall(calls[x], sqlCalls[x])
               /\ Trace(x) \in traces /\ calls[x].pc = "insert" /\ calls[x].ps = g => ~calls[x].live
    <2>1. sqlCalls[x] \in SqlCall
      BY <1>1
    <2>2. PICK gone : gone = [sqlCalls[x] EXCEPT !.live = FALSE]
      OBVIOUS
    <2>3. /\ gone \in SqlCall /\ ~gone.live /\ gone.pc = sqlCalls[x].pc /\ gone.ps = sqlCalls[x].ps
          /\ gone.kind = sqlCalls[x].kind /\ gone.conn = sqlCalls[x].conn /\ gone.of = sqlCalls[x].of
      BY <2>1, <2>2 DEF SqlCall
    <2>4. calls[x] = IF Trace(x) \in traces /\ sqlCalls[x].pc = "insert" /\ sqlCalls[x].ps = g THEN gone ELSE sqlCalls[x]
      BY <2>2 DEF TableGone
    <2> QED
      BY <2>1, <2>3, <2>4 DEF SameCall
  <1>3. calls \in [Executions -> SqlCall]
    BY <1>2 DEF TableGone
  <1> QED
    BY <1>2, <1>3

LEMMA SameCallHolds ==
  ASSUME NEW new, NEW old, SameCall(new, old)
  PROVE  (CallFits(old) => CallFits(new)) /\ \A c : HeldByCall(old, c) => HeldByCall(new, c)
  BY DEF SameCall, CallFits, HeldByCall

(* What a removed table held is given back. *)
LEMMA HeldByTable ==
  ASSUME NEW g, NEW t, NEW c
  PROVE  c \in HeldBy(g, t) <=> HeldInTable(tables[g][t], c)
  BY DEF HeldBy, HeldInTable

LEMMA CleanupExecutionSqlInv ==
  ASSUME SqlInv, NEW x \in Executions, CleanupExecution(x)
  PROVE  SqlInv'
  <1>1. /\ UNCHANGED <<nested, gen, registrations, pools, callsMade, closing, strays>>
        /\ contexts' = [contexts EXCEPT ![x] = "cleaned"] /\ gen \in {0} \cup Generations
    BY SqlCallFacts DEF CleanupExecution
  <1>2. contexts \in [Executions -> {"running", "ended", "cleaned"}]
    BY DEF SqlInv, SqlTyped
  <1>3. /\ contexts' \in [Executions -> {"running", "ended", "cleaned"}]
        /\ \A y \in Executions : y # x => contexts'[y] = contexts[y]
    BY <1>1, <1>2
  <1>4. \A g \in Generations : PoolAccounted(g)'
    BY <1>1, SqlCallFacts DEF PoolAccounted, Pool
  <1>5. CASE gen = 0
    <2>1. UNCHANGED <<tables, lent, sqlCalls>>
      BY <1>5 DEF CleanupExecution
    <2>2. SqlTyped' /\ ClosedForGood'
      BY <1>1, <1>3, <2>1 DEF SqlInv, SqlTyped, ClosedForGood
    <2>3. ASSUME NEW c \in lent, NEW g \in Generations, Watched(g, contexts[c.exec], gen, closing.ps)
          PROVE  Watched(g, contexts'[c.exec], gen, closing.ps)
      BY <1>5, <2>3, SqlFacts DEF Watched
    <2> QED
      BY <1>1, <1>4, <2>1, <2>2, <2>3, HandlesLeave DEF SqlInv
  <1>6. CASE gen # 0
    <2>1. PICK g \in Generations : g = gen
      BY <1>1, <1>6
    <2>2. PICK t \in Executions : t = Trace(x)
      BY TraceType
    <2>3. PICK tabs, calls : tabs = Cleared(g, {t}) /\ calls = TableGone(g, {t})
      OBVIOUS
    <2>4. tables' = tabs /\ sqlCalls' = calls /\ lent' = lent \ HeldBy(g, t)
      BY <1>6, <2>1, <2>2, <2>3 DEF CleanupExecution
    <2>5. /\ tabs \in [Generations -> [Executions -> SUBSET Handle]]
          /\ \A u \in Executions : tabs[g][u] = IF u \in {t} THEN {} ELSE tables[g][u]
          /\ \A i \in Generations : i # g => tabs[i] = tables[i]
      BY <2>3, TablesRemoved
    <2>6. calls \in [Executions -> SqlCall] /\ \A y \in Executions : SameCall(calls[y], sqlCalls[y])
      BY <2>3, CallsKeepTheirTable
    <2>7. \A y \in Executions : /\ CallFits(calls[y]) /\ calls[y].pc = sqlCalls[y].pc /\ calls[y].ps = sqlCalls[y].ps
                                /\ calls[y].live => sqlCalls[y].live
                                /\ \A c \in lent : HeldByCall(sqlCalls[y], c) => HeldByCall(calls[y], c)
      BY <2>6, SameCallHolds DEF SqlInv, SameCall
    <2>8. SqlTyped'
      BY <1>1, <1>3, <2>4, <2>5, <2>6 DEF SqlInv, SqlTyped
    <2>9. ClosedForGood'
      <3>1. closing.pc = "close" => closing.ps \in Generations
        BY DEF SqlInv, SqlTyped
      <3>2. \A i \in Generations, u \in Executions : tabs[i][u] \subseteq tables[i][u]
        BY <2>5
      <3>3. closing.pc = "close" => \A u \in Executions : tabs[closing.ps][u] = {}
        BY <3>1, <3>2 DEF SqlInv, ClosedForGood
      <3>4. closing.pc = "close" => \A y \in Executions :
               calls[y].pc = "insert" /\ calls[y].ps = closing.ps => ~calls[y].live
        BY <2>7 DEF SqlInv, ClosedForGood
      <3> QED
        BY <1>1, <2>4, <3>3, <3>4 DEF ClosedForGood
    <2>10. ASSUME NEW c \in lent', NEW i \in Generations,
                 HeldInTable(tables[i][Trace(c.exec)], c), Watched(i, contexts[c.exec], gen, closing.ps)
          PROVE  HeldInTable(tabs[i][Trace(c.exec)], c) /\ Watched(i, contexts'[c.exec], gen, closing.ps)
      <3>1. c.exec \in Executions /\ Trace(c.exec) \in Executions
        BY <2>4, AccountedNow
      <3>2. ~(i = g /\ Trace(c.exec) = t)
        BY <2>4, <2>10, HeldByTable
      <3>3. tabs[i][Trace(c.exec)] = tables[i][Trace(c.exec)]
        BY <2>5, <3>1, <3>2
      <3>4. c.exec = x => i # g
        BY <2>2, <3>2
      <3>5. Watched(i, contexts'[c.exec], gen, closing.ps)
        BY <1>3, <2>1, <2>10, <3>1, <3>4 DEF Watched
      <3> QED
        BY <2>10, <3>3, <3>5
    <2> QED
      BY <1>1, <1>4, <2>4, <2>7, <2>8, <2>9, <2>10, HandlesLeave
  <1> QED
    BY <1>5, <1>6


LEMMA UnregisterCleansUpSqlInv ==
  ASSUME SqlInv, UnregisterCleansUp
  PROVE  SqlInv'
  <1>1. PICK g \in Generations : g = closing.ps
    <2>1. closing.pc = "lock"
      BY DEF UnregisterCleansUp
    <2> QED
      BY <2>1 DEF SqlInv, SqlTyped
  <1>2. PICK tabs, calls : tabs = Cleared(g, Executions) /\ calls = TableGone(g, Executions)
    OBVIOUS
  <1>3. /\ UNCHANGED <<nested, gen, registrations, callsMade, contexts, strays>>
        /\ tables' = tabs /\ sqlCalls' = calls
        /\ lent' = lent \ UNION {HeldBy(g, t) : t \in Executions}
        /\ pools' = [pools EXCEPT ![g] = IF @ = "open" THEN "closed" ELSE @]
        /\ closing' = [closing EXCEPT !.pc = "close"]
    BY <1>1, <1>2 DEF UnregisterCleansUp
  <1>4. /\ closing' \in [pc : {"none", "lock", "close"}, ps : {0} \cup Generations]
        /\ closing'.pc = "close" /\ closing'.ps = g /\ g # 0
    BY <1>1, <1>3, SqlFacts DEF SqlInv, SqlTyped
  <1>5. /\ tabs \in [Generations -> [Executions -> SUBSET Handle]]
        /\ \A u \in Executions : tabs[g][u] = IF u \in Executions THEN {} ELSE tables[g][u]
        /\ \A i \in Generations : i # g => tabs[i] = tables[i]
    BY <1>2, TablesRemoved
  <1>6. /\ calls \in [Executions -> SqlCall]
        /\ \A y \in Executions :
              /\ SameCall(calls[y], sqlCalls[y])
              /\ Trace(y) \in Executions /\ calls[y].pc = "insert" /\ calls[y].ps = g => ~calls[y].live
    BY <1>2, CallsKeepTheirTable
  <1>7. \A y \in Executions : /\ CallFits(calls[y])
                              /\ \A c \in lent : HeldByCall(sqlCalls[y], c) => HeldByCall(calls[y], c)
    BY <1>6, SameCallHolds DEF SqlInv
  <1>8. pools' \in [Generations -> {"none", "open", "closed"}] /\ pools'[g] # "open"
        /\ \A i \in Generations : i # g => pools'[i] = pools[i]
    BY <1>3, SqlStateFacts
  <1>9. SqlTyped'
    BY <1>3, <1>4, <1>5, <1>8, <1>6 DEF SqlInv, SqlTyped
  <1>10. ClosedForGood'
    BY <1>3, <1>4, <1>5, <1>6, TraceType DEF ClosedForGood
  <1>11. ASSUME NEW i \in Generations
        PROVE  PoolAccounted(i)'
    <2>1. PoolAccounted(i)
      BY SqlStateFacts
    <2> QED
      BY <1>1, <1>3, <1>4, <1>8, <2>1 DEF PoolAccounted, Pool
  <1>12. ASSUME NEW c \in lent', NEW i \in Generations, HeldInTable(tables[i][Trace(c.exec)], c)
         PROVE  HeldInTable(tabs[i][Trace(c.exec)], c)
    <2>1. Trace(c.exec) \in Executions
      BY <1>3, AccountedNow
    <2>2. CASE i = g
      BY <1>3, <1>12, <2>1, <2>2, HeldByTable
    <2>3. CASE i # g
      BY <1>5, <1>12, <2>3
    <2> QED
      BY <2>2, <2>3
  <1> QED
    BY <1>1, <1>3, <1>4, <1>9, <1>10, <1>11, <1>12, <1>7, HandlesLeave

(* A registration begins or ends, and an execution ends. *)
LEMMA RegistrationSqlInv ==
  ASSUME SqlInv, RegisterDSN \/ UnregisterPlugin \/ UnregisterEnds \/ \E x \in Executions : ContextEnds(x)
  PROVE  SqlInv'
  <1>1. /\ UNCHANGED <<nested, tables, lent, sqlCalls, callsMade, strays>>
        /\ SqlTyped /\ ClosedForGood /\ \A x \in Executions : CallFits(sqlCalls[x])
    BY DEF RegisterDSN, UnregisterPlugin, UnregisterEnds, ContextEnds, SqlInv
  <1>2. ASSUME SqlTyped', ClosedForGood', \A g \in Generations : PoolAccounted(g)',
               \A c \in lent : \A g \in Generations :
                  HeldInTable(tables[g][Trace(c.exec)], c) /\ Watched(g, contexts[c.exec], gen, closing.ps) =>
                     Watched(g, contexts'[c.exec], gen', closing'.ps)
        PROVE  SqlInv'
    <2>1. ASSUME NEW c \in lent
          PROVE  Accounted(c)'
      <3>1. /\ c \in Connections
            /\ \/ HeldByCall(sqlCalls[c.exec], c)
               \/ \E g \in Generations : /\ HeldInTable(tables[g][Trace(c.exec)], c)
                                         /\ Watched(g, contexts[c.exec], gen, closing.ps)
               \/ c \in strays
        BY AccountedNow
      <3> QED
        BY <1>1, <1>2, <3>1, AccountedNext
    <2> QED
      BY <1>1, <1>2, <2>1 DEF SqlInv
  <1>3. CASE RegisterDSN
    <2>1. gen = 0 /\ pools' = pools /\ contexts' = contexts /\ closing' = closing
      BY <1>3 DEF RegisterDSN
    <2>2. gen' \in Generations /\ registrations' \in Nat
      BY <1>1, <1>3, SqlAssumption DEF RegisterDSN, SqlTyped, Generations
    <2>3. SqlTyped' /\ ClosedForGood'
      BY <1>1, <2>1, <2>2 DEF SqlTyped, ClosedForGood
    <2>4. \A g \in Generations : PoolAccounted(g)'
      BY <1>1, <2>1, SqlStateFacts, SqlFacts DEF PoolAccounted, Pool
    <2>5. \A g \in Generations : \A ctx : Watched(g, ctx, gen, closing.ps) => Watched(g, ctx, gen', closing.ps)
      BY <2>1, SqlFacts DEF Watched
    <2> QED
      BY <1>2, <2>1, <2>3, <2>4, <2>5
  <1>4. CASE UnregisterPlugin
    <2>1. /\ gen \in Generations /\ gen' = 0 /\ pools' = pools /\ contexts' = contexts
          /\ registrations' = registrations /\ closing.pc = "none" /\ closing' = [pc |-> "lock", ps |-> gen]
      BY <1>4, SqlStateFacts DEF UnregisterPlugin
    <2>2. closing.ps = 0 /\ gen # 0
      BY <1>1, <2>1, SqlFacts DEF SqlTyped
    <2>3. SqlTyped' /\ ClosedForGood'
      BY <1>1, <2>1, <2>2 DEF SqlTyped, ClosedForGood
    <2>4. \A g \in Generations : PoolAccounted(g)'
      BY <1>1, <2>1, <2>2, SqlStateFacts, SqlFacts DEF PoolAccounted, Pool
    <2>5. \A g \in Generations : \A ctx : Watched(g, ctx, gen, closing.ps) => Watched(g, ctx, gen', closing'.ps)
      BY <2>1, <2>2, SqlFacts DEF Watched
    <2> QED
      BY <1>2, <2>1, <2>3, <2>4, <2>5
  <1>5. CASE UnregisterEnds
    <2>1. /\ closing.pc = "close" /\ gen' = gen /\ contexts' = contexts /\ registrations' = registrations
          /\ pools' = [pools EXCEPT ![closing.ps] = "none"]
          /\ closing' = [pc |-> "none", ps |-> 0]
      BY <1>5 DEF UnregisterEnds, NotClosing
    <2>2. PICK k \in Generations : k = closing.ps
      BY <1>1, <2>1 DEF SqlTyped
    <2>3. /\ pools' \in [Generations -> {"none", "open", "closed"}] /\ pools'[k] = "none"
          /\ \A g \in Generations : g # k => pools'[g] = pools[g]
      BY <2>1, <2>2, SqlStateFacts
    <2>4. SqlTyped' /\ ClosedForGood'
      BY <1>1, <2>1, <2>3 DEF SqlTyped, ClosedForGood
    <2>5. ASSUME NEW g \in Generations
          PROVE  PoolAccounted(g)'
      <3>1. PoolAccounted(g)
        BY SqlStateFacts
      <3> QED
        BY <1>1, <2>1, <2>2, <2>3, <3>1 DEF PoolAccounted, Pool
    <2>6. ASSUME NEW c \in lent, NEW g \in Generations, HeldInTable(tables[g][Trace(c.exec)], c),
                 Watched(g, contexts[c.exec], gen, closing.ps)
          PROVE  Watched(g, contexts'[c.exec], gen', closing'.ps)
      <3>1. Trace(c.exec) \in Executions
        BY AccountedNow
      <3>2. \A t \in Executions : tables[k][t] = {}
        BY <1>1, <2>1, <2>2 DEF ClosedForGood
      <3>3. g # k
        BY <2>6, <3>1, <3>2, SqlFacts
      <3> QED
        BY <2>1, <2>2, <2>6, <3>3 DEF Watched
    <2> QED
      BY <1>2, <2>4, <2>5, <2>6
  <1>6. ASSUME NEW x \in Executions, ContextEnds(x)
        PROVE  SqlInv'
    <2>1. /\ UNCHANGED <<gen, registrations, pools, closing>> /\ contexts[x] = "running"
          /\ contexts' = [contexts EXCEPT ![x] = "ended"]
      BY <1>6 DEF ContextEnds
    <2>2. SqlTyped' /\ ClosedForGood'
      BY <1>1, <2>1 DEF SqlTyped, ClosedForGood
    <2>3. \A g \in Generations : PoolAccounted(g)'
      BY <1>1, <2>1, SqlStateFacts DEF PoolAccounted, Pool
    <2>4. ASSUME NEW c \in lent, NEW g \in Generations, Watched(g, contexts[c.exec], gen, closing.ps)
          PROVE  Watched(g, contexts'[c.exec], gen', closing'.ps)
      <3>1. c.exec \in Executions
        BY AccountedNow
      <3>2. contexts'[c.exec] = contexts[c.exec] \/ contexts'[c.exec] = "ended"
        BY <1>1, <2>1, <3>1 DEF SqlTyped
      <3> QED
        BY <2>1, <2>4, <3>2 DEF Watched
    <2> QED
      BY <1>2, <2>2, <2>3, <2>4
  <1> QED
    BY <1>3, <1>4, <1>5, <1>6

(* A plugin's connections come back: every connection out of its pool is   *)
(* in the hands of a call, or behind a handle that the end of its          *)
(* execution or of the registration gives back, or was let go of in one of *)
(* the ways that ConnectionsGivenBack names.                               *)
(* (internal/wasm/hostapi/sql*.go.)                                        *)
THEOREM ConnectionsComeBack == SqlSpec => []ConnectionsGivenBack
  <1>1. SqlInit => SqlInv
    <2> SUFFICES ASSUME SqlInit PROVE SqlInv
      OBVIOUS
    <2>1. SqlTyped
      BY SqlFacts DEF SqlInit, SqlTyped, NotClosing
    <2>2. ClosedForGood /\ (\A x \in Executions : CallFits(sqlCalls[x])) /\ \A g \in Generations : PoolAccounted(g)
      BY SqlFacts DEF SqlInit, ClosedForGood, NotClosing, PoolAccounted
    <2>3. lent = {}
      BY DEF SqlInit
    <2> QED
      BY <2>1, <2>2, <2>3 DEF SqlInv
  <1>2. SqlInv /\ [SqlStep]_sqlVars => SqlInv'
    <2> SUFFICES ASSUME SqlInv, [SqlStep]_sqlVars PROVE SqlInv'
      OBVIOUS
    <2>1. CASE UNCHANGED sqlVars
      BY <2>1 DEF sqlVars, SqlInv, SqlTyped, ClosedForGood, Accounted, InCall, InTable, HeldBy, Trace, PoolAccounted
    <2> QED
      BY <2>1, SqlOpenSqlInv, GetOrCreatePoolSqlInv, AcquireConnSqlInv, SqlBeginOrQuerySqlInv,
         AllocFindsStateSqlInv, GetExecHandlesSqlInv, AllocInsertsSqlInv, RemoveHandleSqlInv,
         CleanupExecutionSqlInv, UnregisterCleansUpSqlInv, RegistrationSqlInv DEF SqlStep
  <1>3. SqlInv => ConnectionsGivenBack
    BY DEF SqlInv, Accounted, PoolAccounted, ConnectionsGivenBack
  <1> QED
    BY <1>1, <1>2, <1>3, PTL DEF SqlSpec

-----------------------------------------------------------------------------
(* The key-value store *)

KvEntry == [size : Nat, age : {"none", "kept", "ttl", "expired"}]

Stored == [KvKeys -> KvEntry]

\* The bytes of the entries e, and how many they are.
BytesOf(e, keys) == UNION {{k} \X (1..e[k].size) : k \in keys}

Held(e, keys) == Cardinality(BytesOf(e, keys))

\* A key that is not stored holds nothing.
EmptyIfNone(e) == \A k \in KvKeys : e[k].age = "none" => e[k].size = 0

Drop(e, keys) == [k \in KvKeys |-> IF k \in keys THEN NoEntry ELSE e[k]]

Write(e, k, r) == [e EXCEPT ![k] = r]

KeysIn(e) == {k \in KvKeys : e[k].age # "none"}

KvInv ==
    /\ kvEntries \in Stored
    /\ EmptyIfNone(kvEntries)
    /\ kvTotal = Held(kvEntries, KvKeys)
    /\ kvTotal <= KvMaxTotal
    /\ Cardinality(KeysIn(kvEntries)) <= KvMaxKeys

LEMMA OneEntry ==
  ASSUME NEW k, NEW n \in Nat
  PROVE  IsFiniteSet({k} \X (1..n)) /\ Cardinality({k} \X (1..n)) = n
  <1>1. IsFiniteSet({k}) /\ Cardinality({k}) = 1
    BY FS_Singleton
  <1>2. IsFiniteSet(1..n) /\ Cardinality(1..n) = n
    BY FS_Interval
  <1>3. /\ IsFiniteSet({k} \X (1..n))
        /\ Cardinality({k} \X (1..n)) = Cardinality({k}) * Cardinality(1..n)
    BY <1>1, <1>2, FS_Product
  <1>4. 1 * n = n
    OBVIOUS
  <1> QED
    BY <1>1, <1>2, <1>3, <1>4

LEMMA BytesAreFinite ==
  ASSUME NEW e \in Stored, NEW keys \in SUBSET KvKeys
  PROVE  IsFiniteSet(BytesOf(e, keys)) /\ Held(e, keys) \in Nat
  <1>1. IsFiniteSet(keys)
    BY KvAssumption, FS_Subset
  <1>2. PICK f : f = [k \in keys |-> {k} \X (1..e[k].size)]
    OBVIOUS
  <1>3. PICK T : T = {{k} \X (1..e[k].size) : k \in keys}
    OBVIOUS
  <1>4. f \in Surjection(keys, T)
    BY <1>2, <1>3 DEF Surjection
  <1>5. IsFiniteSet(T)
    BY <1>1, <1>4, FS_Surjection
  <1>6. ASSUME NEW b \in T
        PROVE  IsFiniteSet(b)
    <2>1. PICK k \in keys : b = {k} \X (1..e[k].size)
      BY <1>3, <1>6
    <2>2. e[k].size \in Nat
      BY DEF Stored, KvEntry
    <2> QED
      BY <2>1, <2>2, OneEntry
  <1>7. IsFiniteSet(BytesOf(e, keys))
    BY <1>3, <1>5, <1>6, FS_UNION DEF BytesOf
  <1> QED
    BY <1>7, FS_CardinalityType DEF Held

\* The sizes of entries with different keys add up.
LEMMA SizesAdd ==
  ASSUME NEW e \in Stored, NEW keys \in SUBSET KvKeys, NEW more \in SUBSET KvKeys, keys \cap more = {}
  PROVE  /\ Held(e, keys \cup more) = Held(e, keys) + Held(e, more)
         /\ Held(e, keys) \in Nat /\ Held(e, more) \in Nat
  <1>1. PICK a, b : a = BytesOf(e, keys) /\ b = BytesOf(e, more)
    OBVIOUS
  <1>2. IsFiniteSet(a) /\ IsFiniteSet(b) /\ Cardinality(a) \in Nat /\ Cardinality(b) \in Nat
    BY <1>1, BytesAreFinite DEF Held
  <1>3. a \cap b = {}
    BY <1>1 DEF BytesOf
  <1>4. BytesOf(e, keys \cup more) = a \cup b
    BY <1>1 DEF BytesOf
  <1>5. Cardinality(a \cup b) = Cardinality(a) + Cardinality(b) - Cardinality(a \cap b)
    BY <1>2, FS_Union
  <1>6. Cardinality(a \cap b) = 0
    BY <1>3, FS_EmptySet
  <1>7. Cardinality(a \cup b) = Cardinality(a) + Cardinality(b)
    BY <1>2, <1>5, <1>6
  <1> QED
    BY <1>1, <1>2, <1>4, <1>7 DEF Held

LEMMA SizeOfOne ==
  ASSUME NEW e \in Stored, NEW k \in KvKeys
  PROVE  Held(e, {k}) = e[k].size /\ e[k].size \in Nat
  <1>1. PICK n \in Nat : n = e[k].size
    BY DEF Stored, KvEntry
  <1>2. BytesOf(e, {k}) = {k} \X (1..n)
    BY <1>1 DEF BytesOf
  <1> QED
    BY <1>1, <1>2, OneEntry DEF Held

\* What is held depends on sizes alone, and empty entries do not count.
LEMMA SameSizes ==
  ASSUME NEW e \in Stored, NEW d \in Stored, NEW keys \in SUBSET KvKeys,
         \A k \in keys : e[k].size = d[k].size
  PROVE  Held(e, keys) = Held(d, keys)
  <1>1. BytesOf(e, keys) = BytesOf(d, keys)
    BY DEF BytesOf
  <1> QED
    BY <1>1 DEF Held

LEMMA EmptyEntries ==
  ASSUME NEW e \in Stored, NEW keys \in SUBSET KvKeys, \A k \in keys : e[k].size = 0
  PROVE  Held(e, keys) = 0
  <1>1. BytesOf(e, keys) = {}
    BY DEF BytesOf
  <1> QED
    BY <1>1, FS_EmptySet DEF Held

\* Dropping entries gives back their size, writing one changes it by the
\* difference.
LEMMA DroppedSizes ==
  ASSUME NEW e \in Stored, NEW gone \in SUBSET KvKeys, NEW d, d = Drop(e, gone)
  PROVE  /\ d \in Stored
         /\ Held(d, KvKeys) = Held(e, KvKeys) - Held(e, gone)
         /\ Held(d, KvKeys) \in Nat /\ Held(e, KvKeys) \in Nat /\ Held(e, gone) \in Nat
         /\ KeysIn(d) = KeysIn(e) \ gone
         /\ EmptyIfNone(e) => EmptyIfNone(d)
  <1>1. d \in Stored /\ (EmptyIfNone(e) => EmptyIfNone(d)) /\ KeysIn(d) = KeysIn(e) \ gone
    BY DEF Drop, Stored, KvEntry, NoEntry, EmptyIfNone, KeysIn
  <1>2. PICK rest \in SUBSET KvKeys : rest = KvKeys \ gone
    OBVIOUS
  <1>3. rest \cup gone = KvKeys /\ rest \cap gone = {}
    BY <1>2
  <1>4. ASSUME NEW f \in Stored
        PROVE  /\ Held(f, KvKeys) = Held(f, rest) + Held(f, gone)
               /\ Held(f, rest) \in Nat /\ Held(f, gone) \in Nat
    BY <1>3, SizesAdd
  <1>5. /\ Held(d, KvKeys) = Held(d, rest) + Held(d, gone)
        /\ Held(d, rest) \in Nat /\ Held(d, gone) \in Nat
    BY <1>1, <1>4
  <1>6. Held(d, gone) = 0
    BY <1>1, EmptyEntries DEF Drop, NoEntry
  <1>7. Held(d, rest) = Held(e, rest)
    BY <1>1, <1>2, SameSizes DEF Drop
  <1> QED
    BY <1>1, <1>4, <1>5, <1>6, <1>7

LEMMA WrittenSizes ==
  ASSUME NEW e \in Stored, NEW k \in KvKeys, NEW r \in KvEntry, r.age # "none", NEW d, d = Write(e, k, r)
  PROVE  /\ d \in Stored
         /\ Held(d, KvKeys) = Held(e, KvKeys) - e[k].size + r.size
         /\ Held(d, KvKeys) \in Nat
         /\ KeysIn(d) = KeysIn(e) \cup {k}
         /\ EmptyIfNone(e) => EmptyIfNone(d)
  <1>1. /\ d \in Stored /\ (EmptyIfNone(e) => EmptyIfNone(d)) /\ KeysIn(d) = KeysIn(e) \cup {k}
        /\ d[k] = r /\ r.size \in Nat
    BY DEF Write, Stored, KvEntry, EmptyIfNone, KeysIn
  <1>2. PICK rest \in SUBSET KvKeys : rest = KvKeys \ {k}
    OBVIOUS
  <1>3. rest \cup {k} = KvKeys /\ rest \cap {k} = {}
    BY <1>2
  <1>4. ASSUME NEW f \in Stored
        PROVE  Held(f, KvKeys) = Held(f, rest) + Held(f, {k}) /\ Held(f, rest) \in Nat
    BY <1>3, SizesAdd, ZenonT(30)
  <1>5. Held(d, KvKeys) = Held(d, rest) + Held(d, {k}) /\ Held(d, rest) \in Nat
    BY <1>1, <1>4
  <1>6. Held(e, {k}) = e[k].size /\ e[k].size \in Nat /\ Held(d, {k}) = r.size
    BY <1>1, SizeOfOne
  <1>7. \A x \in rest : d[x] = e[x]
    BY <1>2 DEF Write, Stored
  <1>8. Held(d, rest) = Held(e, rest)
    BY <1>1, <1>7, SameSizes
  <1>9. PICK a, b, c \in Nat : a = Held(e, rest) /\ b = e[k].size /\ c = r.size
    BY <1>1, <1>4, <1>6
  <1>10. Held(e, KvKeys) = a + b /\ Held(d, KvKeys) = a + c
    BY <1>4, <1>5, <1>6, <1>8, <1>9
  <1>11. a + c = a + b - b + c
    OBVIOUS
  <1> QED
    BY <1>1, <1>9, <1>10, <1>11

\* The entries counted by KvQuotaExact are those that hold anything.
LEMMA EntriesHoldAll ==
  ASSUME KvInv
  PROVE  SizeOf(Entries) = Held(kvEntries, KvKeys) /\ Entries = KeysIn(kvEntries)
  <1>1. BytesOf(kvEntries, KvKeys) = Bytes(Entries)
    <2>1. \A k \in KvKeys : k \notin Entries => 1..kvEntries[k].size = {}
      BY DEF KvInv, EmptyIfNone, Entries
    <2> QED
      BY <2>1 DEF BytesOf, Bytes, Entries
  <1> QED
    BY <1>1 DEF SizeOf, Held, Entries, KeysIn

\* What the invariant says of the entries of the moment.
LEMMA StoredNow ==
  ASSUME KvInv
  PROVE  \E e \in Stored : e = kvEntries /\ EmptyIfNone(e) /\ Held(e, KvKeys) \in Nat
  BY BytesAreFinite DEF KvInv

LEMMA ExpirySize ==
  ASSUME KvInv, NEW k \in KvKeys, KvExpires(k)
  PROVE  KvInv'
  <1>1. PICK e \in Stored : e = kvEntries /\ EmptyIfNone(e) /\ Held(e, KvKeys) \in Nat
    BY StoredNow
  <1>2. PICK r : r = [e[k] EXCEPT !.age = "expired"]
    OBVIOUS
  <1>3. PICK d : d = Write(e, k, r)
    OBVIOUS
  <1>4. kvEntries' = d /\ kvTotal' = kvTotal /\ e[k].age = "ttl"
    BY <1>1, <1>2, <1>3 DEF KvExpires, Stored, Write
  <1>5. r \in KvEntry /\ r.age # "none" /\ r.size = e[k].size /\ r.size \in Nat
    BY <1>2 DEF Stored, KvEntry
  <1>6. /\ d \in Stored
        /\ Held(d, KvKeys) = Held(e, KvKeys) - e[k].size + r.size
        /\ KeysIn(d) = KeysIn(e) \cup {k}
        /\ EmptyIfNone(d)
    BY <1>1, <1>5, <1>3, WrittenSizes
  <1>7. KeysIn(d) = KeysIn(e)
    BY <1>4, <1>6 DEF KeysIn
  <1>8. Held(d, KvKeys) = Held(e, KvKeys)
    BY <1>1, <1>5, <1>6
  <1> QED
    BY <1>1, <1>4, <1>6, <1>7, <1>8 DEF KvInv

LEMMA FewerKeys ==
  ASSUME KvInv, NEW e, e = kvEntries, NEW gone \in SUBSET KvKeys, NEW d, KeysIn(d) = KeysIn(e) \ gone
  PROVE  Cardinality(KeysIn(d)) <= KvMaxKeys
  <1>1. IsFiniteSet(KeysIn(kvEntries))
    BY KvAssumption, FS_Subset DEF KeysIn
  <1>2. PICK a, b \in Nat : a = Cardinality(KeysIn(kvEntries) \ gone) /\ b = Cardinality(KeysIn(kvEntries))
    BY <1>1, FS_Subset, FS_CardinalityType
  <1>3. a <= b
    BY <1>1, <1>2, FS_Subset
  <1> QED
    BY <1>2, <1>3, KvAssumption DEF KvInv

\* kv_get of an expired entry, and kv_delete.
LEMMA RemovalSize ==
  ASSUME KvInv, NEW k \in KvKeys, kvEntries' = Dropping({k}), kvTotal' = kvTotal - kvEntries[k].size
  PROVE  KvInv'
  <1>1. PICK e \in Stored : e = kvEntries /\ EmptyIfNone(e) /\ Held(e, KvKeys) \in Nat
    BY StoredNow
  <1>2. PICK d, gone : gone = {k} /\ gone \in SUBSET KvKeys /\ d = Drop(e, gone)
    OBVIOUS
  <1>3. /\ d \in Stored
        /\ Held(d, KvKeys) = Held(e, KvKeys) - Held(e, gone)
        /\ Held(d, KvKeys) \in Nat
        /\ KeysIn(d) = KeysIn(e) \ gone
        /\ EmptyIfNone(d)
    BY <1>1, <1>2, DroppedSizes
  <1>4. Held(e, gone) = e[k].size /\ e[k].size \in Nat
    BY <1>2, SizeOfOne
  <1>5. Cardinality(KeysIn(d)) <= KvMaxKeys
    BY <1>1, <1>2, <1>3, FewerKeys
  <1>6. kvEntries' = d
    BY <1>1, <1>2 DEF Dropping, Drop
  <1>7. kvTotal' = Held(d, KvKeys) /\ kvTotal' <= KvMaxTotal
    BY <1>1, <1>3, <1>4, KvAssumption DEF KvInv
  <1> QED
    BY <1>3, <1>5, <1>6, <1>7 DEF KvInv

LEMMA SetSize ==
  ASSUME KvInv, NEW k \in KvKeys, NEW size \in KvSizes, NEW age \in {"kept", "ttl"}, KvSet(k, size, age)
  PROVE  KvInv'
  <1>1. PICK e \in Stored : e = kvEntries /\ EmptyIfNone(e) /\ Held(e, KvKeys) \in Nat
    BY StoredNow
  <1>2. PICK kept, gone, r : /\ gone = Expired /\ gone \in SUBSET KvKeys
                             /\ kept = Drop(e, gone) /\ r = [size |-> size, age |-> age]
    BY DEF Expired
  <1>3. PICK total, new : total = kvTotal - SizeOf(Expired) /\ new = total - kept[k].size + size
    OBVIOUS
  <1>4. /\ kept \in Stored
        /\ Held(kept, KvKeys) = Held(e, KvKeys) - Held(e, gone)
        /\ Held(kept, KvKeys) \in Nat /\ Held(e, gone) \in Nat
        /\ KeysIn(kept) = KeysIn(e) \ gone
        /\ EmptyIfNone(kept)
    BY <1>1, <1>2, DroppedSizes
  <1>5. total = Held(kept, KvKeys) /\ total <= KvMaxTotal
    <2>1. SizeOf(Expired) = Held(e, gone)
      BY <1>1, <1>2 DEF SizeOf, Bytes, Held, BytesOf
    <2> QED
      BY <1>1, <1>3, <1>4, <2>1, KvAssumption DEF KvInv
  <1>6. Cardinality(KeysIn(kept)) <= KvMaxKeys
    BY <1>1, <1>2, <1>4, FewerKeys
  <1>7. CASE kvEntries' = kept /\ kvTotal' = total
    BY <1>4, <1>5, <1>6, <1>7 DEF KvInv
  <1>8. CASE /\ kvEntries' = Write(kept, k, r) /\ kvTotal' = new
             /\ new <= KvMaxTotal
             /\ kept[k].size = 0 => ~(Cardinality(Entries \ Expired) >= KvMaxKeys)
    <2>1. PICK d : d = Write(kept, k, r)
      OBVIOUS
    <2>2. r \in KvEntry /\ r.age # "none" /\ r.size = size
      BY <1>2, KvAssumption DEF KvEntry
    <2>3. /\ d \in Stored
          /\ Held(d, KvKeys) = Held(kept, KvKeys) - kept[k].size + r.size
          /\ KeysIn(d) = KeysIn(kept) \cup {k}
          /\ EmptyIfNone(d)
      BY <1>4, <2>1, <2>2, WrittenSizes
    <2>4. new = Held(d, KvKeys)
      BY <1>3, <1>5, <2>2, <2>3
    <2>5. IsFiniteSet(KeysIn(kept))
      BY KvAssumption, FS_Subset DEF KeysIn
    <2>6. PICK n \in Nat : n = Cardinality(KeysIn(kept))
      BY <2>5, FS_CardinalityType
    <2>7. Cardinality(KeysIn(d)) = IF k \in KeysIn(kept) THEN n ELSE n + 1
      BY <2>3, <2>5, <2>6, FS_AddElement
    <2>8. CASE k \in KeysIn(kept)
      BY <1>8, <2>1, <2>3, <2>4, <2>6, <2>7, <2>8, <1>6 DEF KvInv
    <2>9. CASE k \notin KeysIn(kept)
      <3>1. kept[k].size = 0
        BY <1>4, <2>9 DEF KeysIn, EmptyIfNone
      <3>2. Entries \ Expired = KeysIn(kept)
        BY <1>1, <1>2, <1>4 DEF Entries, KeysIn
      <3>3. ~(n >= KvMaxKeys)
        BY <1>8, <2>6, <3>1, <3>2
      <3>4. n + 1 <= KvMaxKeys
        BY <3>3, KvAssumption
      <3>5. Cardinality(KeysIn(d)) <= KvMaxKeys
        BY <2>7, <2>9, <3>4
      <3> QED
        BY <1>8, <2>1, <2>3, <2>4, <3>5 DEF KvInv
    <2> QED
      BY <2>8, <2>9
  <1>9. kept = Dropping(Expired)
    BY <1>1, <1>2 DEF Dropping, Drop
  <1>10. PICK refused \in BOOLEAN :
            /\ refused = (\/ kept[k].size = 0 /\ Cardinality(Entries \ Expired) >= KvMaxKeys
                          \/ new > KvMaxTotal)
            /\ kvEntries' = IF refused THEN kept ELSE Write(kept, k, r)
            /\ kvTotal' = IF refused THEN total ELSE new
    BY <1>2, <1>3, <1>9 DEF KvSet, Write
  <1>11. ~refused => new <= KvMaxTotal
    <2>1. new \in Int
      <3>1. kept[k].size \in Nat /\ total \in Nat /\ size \in Nat
        BY <1>4, <1>5, KvAssumption DEF Stored, KvEntry
      <3> QED
        BY <1>3, <3>1
    <2>2. ~refused => ~(new > KvMaxTotal)
      BY <1>10
    <2> QED
      BY <2>1, <2>2, KvAssumption
  <1> QED
    BY <1>7, <1>8, <1>10, <1>11

\* The quota is exact: for any keys, sizes and limits, the size held against
\* the limit is the number of bytes stored, and neither limit is exceeded,
\* after any mix of overwriting, expiry, refusal and deletion.
\* (internal/wasm/hostapi/kv.go.)
THEOREM QuotaIsExact == KvSpec => []KvQuotaExact
  <1>1. KvInit => KvInv
    <2> SUFFICES ASSUME KvInit PROVE KvInv
      OBVIOUS
    <2>1. kvEntries \in Stored /\ EmptyIfNone(kvEntries) /\ KeysIn(kvEntries) = {}
      BY DEF KvInit, Stored, KvEntry, NoEntry, EmptyIfNone, KeysIn
    <2>2. Held(kvEntries, KvKeys) = 0
      BY <2>1, EmptyEntries DEF KvInit, NoEntry
    <2> QED
      BY <2>1, <2>2, FS_EmptySet, KvAssumption DEF KvInit, KvInv
  <1>2. KvInv /\ [KvNext]_kvVars => KvInv'
    <2> SUFFICES ASSUME KvInv, [KvNext]_kvVars PROVE KvInv'
      OBVIOUS
    <2>1. CASE UNCHANGED kvVars
      BY <2>1 DEF kvVars, KvInv
    <2>2. CASE DropPlugin
      <3>1. PICK d : d = [k \in KvKeys |-> NoEntry]
        OBVIOUS
      <3>2. kvEntries' = d /\ kvTotal' = 0
        BY <2>2, <3>1 DEF DropPlugin
      <3>3. d \in Stored /\ EmptyIfNone(d) /\ KeysIn(d) = {}
        BY <3>1 DEF Stored, KvEntry, NoEntry, EmptyIfNone, KeysIn
      <3>4. Held(d, KvKeys) = 0
        BY <3>1, <3>3, EmptyEntries DEF NoEntry
      <3> QED
        BY <3>2, <3>3, <3>4, FS_EmptySet, KvAssumption DEF KvInv
    <2>3. ASSUME NEW k \in KvKeys, KvGet(k) \/ KvDelete(k)
          PROVE  KvInv'
      BY <2>3, RemovalSize DEF KvGet, KvDelete
    <2> QED
      BY <2>1, <2>2, <2>3, ExpirySize, SetSize DEF KvNext
  <1>3. KvInv => KvQuotaExact
    BY EntriesHoldAll DEF KvInv, KvQuotaExact
  <1> QED
    BY <1>1, <1>2, <1>3, PTL DEF KvSpec

-----------------------------------------------------------------------------
(* The plugins themselves *)

(* Types, and what each kind of request carries.                           *)

Kinds == {"install", "enable", "disable", "update", "rollback", "config", "delete"}
Changing == Kinds \ {"delete"}
LifecyclePcs == {"idle", "runtime", "save", "meta", "stop", "finish", "unload", "blobs", "rows", "drop"}

RequestState == [pc : LifecyclePcs, kind : Kinds \cup {"drop", "none"}, at : Replicas \cup {None},
          old : Plugins \cup {None}, new : Plugins \cup Versions \cup {None}]

PcsOf(kind) ==
    IF kind \in {"install", "enable", "update", "rollback"} THEN {"runtime", "save", "meta", "finish"}
    ELSE IF kind = "disable" THEN {"save", "stop", "finish"}
    ELSE IF kind = "config" THEN {"runtime", "save", "finish"}
    ELSE IF kind = "delete" THEN {"unload", "blobs", "rows", "finish"}
    ELSE IF kind = "drop" THEN {"drop"}
    ELSE {"idle"}

RequestOK(o) ==
    /\ o.pc \in PcsOf(o.kind)
    /\ o.kind # "none" => o.at \in Replicas
    /\ o.kind \in Changing => o.new \in Plugins
    /\ o.kind = "drop" => o.new \in Versions
    /\ o.kind = "install" => o.old = None /\ o.new.enabled
    /\ o.kind \notin {"install", "none"} => o.old \in Plugins
    /\ o.kind = "enable" => ~o.old.enabled /\ o.new = [o.old EXCEPT !.enabled = TRUE]
    /\ o.kind = "disable" => o.old.enabled /\ o.new = [o.old EXCEPT !.enabled = FALSE]
    /\ o.kind \in {"update", "rollback"} => o.new.enabled = o.old.enabled
    /\ o.kind = "update" => o.new.key \in 1..MaxClock
    /\ o.kind = "config" => \E c \in Configs : o.new = [o.old EXCEPT !.cfg = c]

Handling == [kind : Kinds \cup {"none"}, rec : Plugins \cup {None}]

HandOK(h) ==
    /\ h.kind # "none" => h.rec \in Plugins
    /\ h.kind \notin {"disable", "delete"}

StoresTyped ==
    /\ rec \in Plugins \cup {None} /\ metadata \in Binaries \cup {None}
    /\ vers \subseteq Versions
    /\ blobs \in [Keys -> Binaries \cup {None}]

ReplicasTyped ==
    /\ run \in [Replicas -> Loaded \cup {None}]
    /\ inbox \in [Replicas -> Seq(Kinds)]
    /\ listening \in [Replicas -> BOOLEAN]
    /\ hand \in [Replicas -> Handling]
    /\ \A r \in Replicas : HandOK(hand[r])

RequestsTyped ==
    /\ op \in [Requests -> RequestState]
    /\ \A a \in Requests : RequestOK(op[a])
    /\ clock \in 1..MaxClock

LifecycleTyped == StoresTyped /\ ReplicasTyped /\ RequestsTyped

-----------------------------------------------------------------------------
(* Binaries.                                                               *)

Fine == odd \cap {"half", "overlapped delete", "same second"} = {}

Named == vers \cup ({rec} \ {None})

(* What is on record is in the store, but for a delete under way.          *)
OnRecord == (\A a \in Requests : op[a].pc # "rows") => \A x \in Named : blobs[x.key] = x.bin

(* So is what a request is about to record.                                *)
Holds(a) == op[a].kind \in Changing => blobs[op[a].new.key] = op[a].new.bin

(* An update that may still fail has its key for itself.                   *)
Owns(a) ==
    op[a].kind = "update" /\ op[a].pc \in {"runtime", "save"} =>
        /\ \A x \in Named : x.key # op[a].new.key
        /\ \A b \in Requests \ {a} : op[b].kind \in Changing => op[b].new.key # op[a].new.key

(* A delete is alone, and does not touch the active version.               *)
Alone(a) ==
    op[a].kind \in {"delete", "drop"} => \A b \in Requests \ {a} : op[b].kind = "none"

Spares(a) == op[a].kind = "drop" /\ rec # None => rec.key # op[a].new.key

BinariesInv ==
    Fine => /\ OnRecord
            /\ \A a \in Requests : Holds(a) /\ Owns(a) /\ Alone(a) /\ Spares(a)

-----------------------------------------------------------------------------
(* Replicas.                                                               *)

Steady == odd \cap {"overlap", "half", "same second"} = {}

What(x) == IF x = None \/ (x # None /\ ~x.enabled) THEN None ELSE Runs(x)
Describes(x) == IF x = None THEN None ELSE x.bin

(* Without overlap, a request runs by itself and nothing is on its way.    *)
Single(a) ==
    op[a].kind # "none" =>
        /\ \A b \in Requests \ {a} : op[b].kind = "none"
        /\ \A r \in Replicas : inbox[r] = <<>> /\ hand[r].kind = "none"

Result(o) == IF o.kind = "delete" THEN None ELSE o.new

(* How far the stores are.                                                 *)
StoresAt(o) ==
    /\ o.pc \in {"runtime", "save", "unload", "blobs", "rows", "drop"} =>
          rec = o.old /\ metadata = Describes(o.old)
    /\ o.pc = "meta" => rec = o.new
    /\ o.pc \in {"stop", "finish"} => rec = Result(o) /\ metadata = Describes(Result(o))

(* How far the replica is that serves the request.                         *)
Served(o) ==
    o.at \notin missed =>
        /\ o.pc \in {"runtime", "unload", "drop"} => run[o.at] = What(o.old)
        /\ o.pc = "save" => run[o.at] = (IF o.kind = "disable" THEN What(o.old) ELSE What(o.new))
        /\ o.pc = "meta" => run[o.at] = What(o.new)
        /\ o.pc \in {"blobs", "rows"} => run[o.at] = None
        /\ o.pc = "finish" => run[o.at] = What(Result(o))

(* How far another replica is, which may have restarted.                   *)
Trails(o, r) ==
    r # o.at /\ r \notin missed =>
        /\ o.pc \in {"runtime", "save", "unload", "blobs", "drop"} => run[r] = What(o.old)
        /\ o.pc \in {"meta", "stop", "finish"} /\ o.kind # "delete" => run[r] \in {What(o.old), What(o.new)}

Progress(o) == o.kind # "none" => StoresAt(o) /\ Served(o) /\ \A r \in Replicas : Trails(o, r)

(* What a notification finds at a replica.                                 *)
Expects(kind, r) ==
    /\ kind \in {"disable", "delete"} => What(rec) = None
    /\ kind \notin {"disable", "delete"} /\ What(rec) = None => run[r] = None
    /\ kind = "config" /\ What(rec) # None => run[r] # None /\ run[r].bin = rec.bin

Caught(r) ==
    r \notin missed =>
        /\ inbox[r] = <<>> /\ hand[r].kind = "none" => run[r] = What(rec)
        /\ inbox[r] # <<>> => /\ Tail(inbox[r]) = <<>> /\ hand[r].kind = "none"
                              /\ Expects(Head(inbox[r]), r)
        /\ hand[r].kind # "none" => /\ inbox[r] = <<>> /\ hand[r].rec = rec /\ What(rec) # None
                                    /\ Expects(hand[r].kind, r)

NoRequest == \A a \in Requests : op[a].kind = "none"

ReplicasOK ==
    /\ \A a \in Requests : Single(a) /\ Progress(op[a])
    /\ NoRequest => /\ metadata = Describes(rec)
                    /\ \A r \in Replicas : Caught(r)

ReplicasInv ==
    /\ "overlapped delete" \in odd => "overlap" \in odd
    /\ Steady => ReplicasOK


(* The types.                                                              *)

LEMMA NoneApart ==
    /\ None \notin Binaries /\ None \notin Replicas /\ None \notin Plugins /\ None \notin Loaded
    /\ 1..MaxClock \subseteq Keys /\ Binaries \subseteq Keys /\ MaxClock \in Nat \ {0}
BY PluginLifecycleAssumption DEF Keys

LEMMA RequestsStayTyped ==
    ASSUME RequestsTyped, NEW a \in Requests, NEW o, o \in RequestState, RequestOK(o),
           op' = [op EXCEPT ![a] = o], UNCHANGED clock
    PROVE  RequestsTyped'
<1>1. op' \in [Requests -> RequestState]
    BY DEF RequestsTyped
<1>2. ASSUME NEW b \in Requests
      PROVE  RequestOK(op'[b])
    <2>1. CASE b = a
        <3>1. op'[b] = o
            BY <2>1 DEF RequestsTyped
        <3> QED BY <3>1
    <2>2. CASE b # a
        <3>1. op'[b] = op[b]
            BY <2>2 DEF RequestsTyped
        <3> QED BY <3>1 DEF RequestsTyped
    <2> QED BY <2>1, <2>2
<1>3. (\A b \in Requests : RequestOK(op[b]))'
    BY <1>2
<1> QED BY <1>1, <1>3 DEF RequestsTyped

LEMMA GotoTyped ==
    ASSUME RequestsTyped, NEW a \in Requests, NEW pc \in LifecyclePcs, pc \in PcsOf(op[a].kind),
           Goto(a, pc), UNCHANGED clock
    PROVE  RequestsTyped'
<1>1. PICK o : o = [op[a] EXCEPT !.pc = pc]
    OBVIOUS
<1>2. op[a] \in RequestState /\ RequestOK(op[a])
    BY DEF RequestsTyped
<1>3. o \in RequestState
    BY <1>1, <1>2 DEF RequestState
<1>4. /\ o.pc = pc /\ o.kind = op[a].kind /\ o.at = op[a].at
      /\ o.old = op[a].old /\ o.new = op[a].new
    BY <1>1, <1>2 DEF RequestState
<1>5. RequestOK(o)
    BY <1>2, <1>4 DEF RequestOK
<1>6. op' = [op EXCEPT ![a] = o]
    BY <1>1, <1>2 DEF Goto, RequestsTyped
<1> QED BY <1>3, <1>5, <1>6, RequestsStayTyped

LEMMA IdleTyped ==
    Idle \in RequestState /\ RequestOK(Idle) /\ Idle.pc = "idle" /\ Idle.kind = "none"
BY DEF Idle, RequestState, LifecyclePcs, RequestOK, PcsOf, Changing, Kinds

LEMMA DoneTyped ==
    ASSUME RequestsTyped, NEW a \in Requests, Done(a), UNCHANGED clock
    PROVE  RequestsTyped'
<1>1. PICK o : o = Idle
    OBVIOUS
<1>2. op' = [op EXCEPT ![a] = o]
    BY <1>1 DEF Done
<1> QED BY <1>1, <1>2, IdleTyped, RequestsStayTyped

LEMMA BeginTyped ==
    ASSUME LifecycleTyped, NEW a \in Requests, NEW kind, NEW r \in Replicas, NEW pc, NEW new,
           kind \in Kinds \cup {"drop"}, pc \in PcsOf(kind), new \in Plugins \cup Versions,
           RequestOK([pc |-> pc, kind |-> kind, at |-> r, old |-> rec, new |-> new]),
           Begin(a, kind, r, pc, new), StoresTyped'
    PROVE  LifecycleTyped'
<1>1. PICK o : o = [pc |-> pc, kind |-> kind, at |-> r, old |-> rec, new |-> new]
    OBVIOUS
<1>2. pc \in LifecyclePcs
    BY DEF PcsOf, LifecyclePcs, Kinds
<1>3. o \in RequestState
    BY <1>1, <1>2 DEF RequestState, LifecycleTyped, StoresTyped
<1>4. RequestOK(o)
    BY <1>1
<1>5. op' = [op EXCEPT ![a] = o] /\ UNCHANGED <<run, inbox, listening, hand, clock>>
    BY <1>1 DEF Begin
<1>6. RequestsTyped'
    BY <1>3, <1>4, <1>5, RequestsStayTyped DEF LifecycleTyped
<1>7. ReplicasTyped'
    BY <1>5 DEF LifecycleTyped, ReplicasTyped, HandOK
<1> QED BY <1>6, <1>7 DEF LifecycleTyped

(* What the service may load is a binary of the store with a configuration. *)
LEMMA WithConfigTyped ==
    ASSUME LifecycleTyped, NEW r \in Replicas, NEW key \in Keys, NEW c \in Configs, run[r] # None
    PROVE  WithConfig(r, key, c) \subseteq Loaded
<1>1. run[r] \in Loaded
    BY DEF LifecycleTyped, ReplicasTyped
<1>2. [run[r] EXCEPT !.cfg = c] \in Loaded
    BY <1>1 DEF Loaded
<1>3. blobs[key] # None => [bin |-> blobs[key], cfg |-> c] \in Loaded
    BY DEF LifecycleTyped, StoresTyped, Loaded
<1> QED BY <1>2, <1>3 DEF WithConfig

LEMMA RunsTyped ==
    ASSUME NEW x, x \in Plugins \cup Versions
    PROVE  Runs(x) \in Loaded
BY DEF Plugins, Versions, Runs, Loaded

LEMMA AppliedTyped ==
    ASSUME LifecycleTyped, NEW a \in Requests, op[a].pc = "runtime"
    PROVE  Applied(a) \subseteq Loaded \cup {None}
<1>1. PICK o : o = op[a]
    OBVIOUS
<1>2. o \in RequestState /\ RequestOK(o)
    BY <1>1 DEF LifecycleTyped, RequestsTyped
<1>3. o.kind \in {"install", "enable", "update", "rollback", "config"}
    BY <1>1, <1>2 DEF RequestOK, PcsOf, RequestState, Kinds
<1>4. o.new \in Plugins /\ o.at \in Replicas
    BY <1>2, <1>3 DEF RequestOK, Changing, Kinds
<1>5. Runs(o.new) \in Loaded
    BY <1>4, RunsTyped
<1>6. run[o.at] \in Loaded \cup {None}
    BY <1>4 DEF LifecycleTyped, ReplicasTyped
<1>7. ASSUME o.kind = "config", run[o.at] # None
      PROVE  WithConfig(o.at, o.old.key, o.new.cfg) \subseteq Loaded
    <2>1. o.old \in Plugins
        BY <1>2, <1>7 DEF RequestOK
    <2>2. o.old.key \in Keys /\ o.new.cfg \in Configs
        BY <2>1, <1>4 DEF Plugins
    <2> QED BY <2>2, <1>4, <1>7, WithConfigTyped
<1> QED BY <1>1, <1>5, <1>6, <1>7 DEF Applied

LEMMA RolledBackTyped ==
    ASSUME LifecycleTyped, NEW a \in Requests, op[a].pc \in {"save", "meta"}
    PROVE  RolledBack(a) \subseteq Loaded \cup {None}
<1>1. PICK o : o = op[a]
    OBVIOUS
<1>2. o \in RequestState /\ RequestOK(o)
    BY <1>1 DEF LifecycleTyped, RequestsTyped
<1>3. o.kind \in {"install", "enable", "disable", "update", "rollback", "config"}
    BY <1>1, <1>2 DEF RequestOK, PcsOf, RequestState, Kinds
<1>4. o.at \in Replicas
    BY <1>2, <1>3 DEF RequestOK
<1>6. run[o.at] \in Loaded \cup {None}
    BY <1>4 DEF LifecycleTyped, ReplicasTyped
<1>7. ASSUME o.kind \notin {"install", "enable", "disable"}
      PROVE  o.old \in Plugins /\ o.old.key \in Keys /\ o.old.cfg \in Configs
    <2>1. o.old \in Plugins
        BY <1>2, <1>3, <1>7 DEF RequestOK
    <2> QED BY <2>1 DEF Plugins
<1>8. ASSUME o.kind = "config", run[o.at] # None
      PROVE  WithConfig(o.at, o.old.key, o.old.cfg) \subseteq Loaded
    BY <1>4, <1>7, <1>8, WithConfigTyped
<1>9. ASSUME o.kind \notin {"install", "enable", "disable"}, blobs[o.old.key] # None
      PROVE  [bin |-> blobs[o.old.key], cfg |-> o.old.cfg] \in Loaded
    BY <1>7, <1>9 DEF LifecycleTyped, StoresTyped, Loaded
<1> QED BY <1>1, <1>3, <1>6, <1>8, <1>9 DEF RolledBack

LEMMA FollowTyped ==
    ASSUME LifecycleTyped, NEW r \in Replicas, hand[r].kind # "none"
    PROVE  Follow(r) \subseteq Loaded
<1>1. PICK x : x = hand[r].rec
    OBVIOUS
<1>2. x \in Plugins
    BY <1>1 DEF LifecycleTyped, ReplicasTyped, HandOK
<1>3. x.key \in Keys /\ x.cfg \in Configs
    BY <1>2 DEF Plugins
<1>4. run[r] # None => WithConfig(r, x.key, x.cfg) \subseteq Loaded
    BY <1>3, WithConfigTyped
<1>5. blobs[x.key] # None => [bin |-> blobs[x.key], cfg |-> x.cfg] \in Loaded
    BY <1>3 DEF LifecycleTyped, StoresTyped, Loaded
<1> QED BY <1>1, <1>4, <1>5 DEF Follow

LEMMA AutoloadTyped ==
    ASSUME LifecycleTyped
    PROVE  Autoload \in Loaded \cup {None}
<1>1. ASSUME rec # None, blobs[rec.key] # None
      PROVE  [bin |-> blobs[rec.key], cfg |-> rec.cfg] \in Loaded
    BY <1>1 DEF LifecycleTyped, StoresTyped, Loaded, Plugins
<1> QED BY <1>1 DEF Autoload

LEMMA BeginningsTyped ==
    ASSUME LifecycleTyped, NEW a \in Requests, NEW r \in Replicas,
           \/ Enable(a, r) \/ Disable(a, r) \/ Delete(a, r)
           \/ \E b \in Binaries : Update(a, r, b)
           \/ \E c \in Configs : UpdateConfig(a, r, c) \/ \E k \in Binaries : Install(a, r, k, c)
           \/ \E v \in vers : Rollback(a, r, v) \/ DeleteVersion(a, r, v)
    PROVE  LifecycleTyped'
<1> USE NoneApart
<1>0. rec # None => rec \in Plugins
    BY DEF LifecycleTyped, StoresTyped
<1>1. blobs' \in [Keys -> Binaries \cup {None}] => (UNCHANGED db => StoresTyped')
    BY DEF LifecycleTyped, StoresTyped, db
<1>2. UNCHANGED <<db, blobs>> => StoresTyped'
    BY DEF LifecycleTyped, StoresTyped, db
<1>3. CASE Enable(a, r)
    <2>1. PICK new : new = [rec EXCEPT !.enabled = TRUE]
        OBVIOUS
    <2>2. rec \in Plugins /\ ~rec.enabled /\ Begin(a, "enable", r, "runtime", new)
        BY <1>3, <2>1, <1>0 DEF Enable
    <2>3. new \in Plugins
        BY <2>1, <2>2 DEF Plugins
    <2>4. RequestOK([pc |-> "runtime", kind |-> "enable", at |-> r, old |-> rec, new |-> new])
        BY <2>1, <2>2, <2>3 DEF RequestOK, PcsOf, Changing, Kinds
    <2>5. StoresTyped'
        BY <1>2, <1>3 DEF Enable, Begin
    <2> QED BY <2>2, <2>3, <2>4, <2>5, BeginTyped DEF PcsOf, Kinds
<1>4. CASE Disable(a, r)
    <2>1. PICK new : new = [rec EXCEPT !.enabled = FALSE]
        OBVIOUS
    <2>2. rec \in Plugins /\ rec.enabled /\ Begin(a, "disable", r, "save", new)
        BY <1>4, <2>1, <1>0 DEF Disable
    <2>3. new \in Plugins
        BY <2>1, <2>2 DEF Plugins
    <2>4. RequestOK([pc |-> "save", kind |-> "disable", at |-> r, old |-> rec, new |-> new])
        BY <2>1, <2>2, <2>3 DEF RequestOK, PcsOf, Changing, Kinds
    <2>5. StoresTyped'
        BY <1>2, <1>4 DEF Disable, Begin
    <2> QED BY <2>2, <2>3, <2>4, <2>5, BeginTyped DEF PcsOf, Kinds
<1>5. CASE Delete(a, r)
    <2>2. rec \in Plugins /\ Begin(a, "delete", r, "unload", rec)
        BY <1>5, <1>0 DEF Delete
    <2>4. RequestOK([pc |-> "unload", kind |-> "delete", at |-> r, old |-> rec, new |-> rec])
        BY <2>2 DEF RequestOK, PcsOf, Changing, Kinds
    <2>5. StoresTyped'
        BY <1>2, <1>5 DEF Delete, Begin
    <2> QED BY <2>2, <2>4, <2>5, BeginTyped DEF PcsOf, Kinds
<1>6. ASSUME NEW b \in Binaries, Update(a, r, b)
      PROVE  LifecycleTyped'
    <2>1. PICK new : new = [rec EXCEPT !.key = clock, !.bin = b]
        OBVIOUS
    <2>2. rec \in Plugins /\ Begin(a, "update", r, "runtime", new) /\ Put(clock, b)
        BY <1>6, <2>1, <1>0 DEF Update
    <2>3. clock \in 1..MaxClock /\ clock \in Keys
        BY DEF LifecycleTyped, RequestsTyped
    <2>4. new \in Plugins /\ new.key = clock /\ new.enabled = rec.enabled
        BY <2>1, <2>2, <2>3 DEF Plugins
    <2>5. RequestOK([pc |-> "runtime", kind |-> "update", at |-> r, old |-> rec, new |-> new])
        BY <2>2, <2>3, <2>4 DEF RequestOK, PcsOf, Changing, Kinds
    <2>6. blobs' \in [Keys -> Binaries \cup {None}]
        BY <2>2, <2>3 DEF Put, LifecycleTyped, StoresTyped
    <2>7. StoresTyped'
        BY <1>1, <2>2, <2>6 DEF Begin
    <2> QED BY <2>2, <2>4, <2>5, <2>7, BeginTyped DEF PcsOf, Kinds
<1>7. ASSUME NEW c \in Configs, UpdateConfig(a, r, c)
      PROVE  LifecycleTyped'
    <2>1. PICK new : new = [rec EXCEPT !.cfg = c]
        OBVIOUS
    <2>2. rec \in Plugins /\ Begin(a, "config", r, "runtime", new)
        BY <1>7, <2>1, <1>0 DEF UpdateConfig
    <2>3. new \in Plugins
        BY <2>1, <2>2 DEF Plugins
    <2>4. RequestOK([pc |-> "runtime", kind |-> "config", at |-> r, old |-> rec, new |-> new])
        BY <2>1, <2>2, <2>3 DEF RequestOK, PcsOf, Changing, Kinds
    <2>5. StoresTyped'
        BY <1>2, <1>7 DEF UpdateConfig, Begin
    <2> QED BY <2>2, <2>3, <2>4, <2>5, BeginTyped DEF PcsOf, Kinds
<1>8. ASSUME NEW c \in Configs, NEW k \in Binaries, Install(a, r, k, c)
      PROVE  LifecycleTyped'
    <2>1. PICK new : new = [enabled |-> TRUE, key |-> k, bin |-> blobs[k], cfg |-> c]
        OBVIOUS
    <2>2. rec = None /\ blobs[k] # None /\ Begin(a, "install", r, "runtime", new)
        BY <1>8, <2>1 DEF Install
    <2>3. k \in Keys /\ blobs[k] \in Binaries
        BY <2>2 DEF LifecycleTyped, StoresTyped
    <2>4. new \in Plugins /\ new.enabled
        BY <2>1, <2>3 DEF Plugins
    <2>5. RequestOK([pc |-> "runtime", kind |-> "install", at |-> r, old |-> rec, new |-> new])
        BY <2>2, <2>4 DEF RequestOK, PcsOf, Changing, Kinds
    <2>6. StoresTyped'
        BY <1>2, <1>8 DEF Install, Begin
    <2> QED BY <2>2, <2>4, <2>5, <2>6, BeginTyped DEF PcsOf, Kinds
<1>9. ASSUME NEW v \in vers, Rollback(a, r, v)
      PROVE  LifecycleTyped'
    <2>1. PICK new : new = [rec EXCEPT !.key = v.key, !.bin = v.bin, !.cfg = v.cfg]
        OBVIOUS
    <2>2. rec \in Plugins /\ Begin(a, "rollback", r, "runtime", new)
        BY <1>9, <2>1, <1>0 DEF Rollback
    <2>3. v \in Versions
        BY DEF LifecycleTyped, StoresTyped
    <2>4. new \in Plugins /\ new.enabled = rec.enabled
        BY <2>1, <2>2, <2>3 DEF Plugins, Versions
    <2>5. RequestOK([pc |-> "runtime", kind |-> "rollback", at |-> r, old |-> rec, new |-> new])
        BY <2>2, <2>4 DEF RequestOK, PcsOf, Changing, Kinds
    <2>6. StoresTyped'
        BY <1>2, <1>9 DEF Rollback, Begin
    <2> QED BY <2>2, <2>4, <2>5, <2>6, BeginTyped DEF PcsOf, Kinds
<1>10. ASSUME NEW v \in vers, DeleteVersion(a, r, v)
       PROVE  LifecycleTyped'
    <2>2. rec \in Plugins /\ Begin(a, "drop", r, "drop", v)
        BY <1>10, <1>0 DEF DeleteVersion
    <2>3. v \in Versions
        BY DEF LifecycleTyped, StoresTyped
    <2>5. RequestOK([pc |-> "drop", kind |-> "drop", at |-> r, old |-> rec, new |-> v])
        BY <2>2, <2>3 DEF RequestOK, PcsOf, Changing, Kinds
    <2>6. StoresTyped'
        BY <1>2, <1>10 DEF DeleteVersion, Begin
    <2> QED BY <2>2, <2>3, <2>5, <2>6, BeginTyped DEF PcsOf, Kinds
<1> QED BY <1>3, <1>4, <1>5, <1>6, <1>7, <1>8, <1>9, <1>10

LEMMA BlobsStayTyped ==
    ASSUME StoresTyped
    PROVE  /\ \A ks : DeleteBlobs(ks) => blobs' \in [Keys -> Binaries \cup {None}]
           /\ \A k \in Keys, b \in Binaries : Put(k, b) => blobs' \in [Keys -> Binaries \cup {None}]
BY DEF StoresTyped, DeleteBlobs, Put

(* What a request carries, in the form the steps need it.                  *)
LEMMA RequestFacts ==
    ASSUME LifecycleTyped, NEW a \in Requests
    PROVE  /\ op[a] \in RequestState /\ RequestOK(op[a])
           /\ op[a].pc # "idle" => op[a].at \in Replicas /\ op[a].kind # "none"
           /\ op[a].pc = "idle" => op[a].kind = "none"
           /\ op[a].pc = "runtime" => op[a].kind \in {"install", "enable", "update", "rollback", "config"}
           /\ op[a].pc = "save" => op[a].kind \in {"install", "enable", "disable", "update", "rollback", "config"}
           /\ op[a].pc = "meta" => op[a].kind \in {"install", "enable", "update", "rollback"}
           /\ op[a].pc = "stop" => op[a].kind = "disable"
           /\ op[a].pc = "finish" => op[a].kind \in Kinds
           /\ op[a].pc \in {"unload", "blobs", "rows"} => op[a].kind = "delete"
           /\ op[a].pc = "drop" => op[a].kind = "drop"
           /\ op[a].pc \in {"runtime", "save", "meta"} => op[a].new \in Plugins
           /\ op[a].kind \in Changing => op[a].new \in Plugins
<1>1. op[a] \in RequestState /\ RequestOK(op[a])
    BY DEF LifecycleTyped, RequestsTyped
<1>2. PICK o : o = op[a]
    OBVIOUS
<1> QED BY <1>1, <1>2 DEF RequestOK, PcsOf, RequestState, Kinds, Changing, LifecyclePcs

LEMMA RequestStepsTyped ==
    ASSUME LifecycleTyped, NEW a \in Requests,
           \/ Runtime(a) \/ RuntimeError(a) \/ Save(a) \/ SaveMeta(a) \/ SaveError(a)
           \/ Stop(a) \/ Finish(a) \/ PublishError(a)
           \/ DeleteUnload(a) \/ CleanupBlobs(a) \/ DeleteRows(a) \/ DeleteError(a) \/ DropVersion(a)
    PROVE  LifecycleTyped'
<1> USE NoneApart
<1>0. StoresTyped /\ ReplicasTyped /\ RequestsTyped
    BY DEF LifecycleTyped
<1>1. UNCHANGED <<rec, metadata, vers, blobs>> => StoresTyped'
    BY <1>0 DEF StoresTyped
<1>2. UNCHANGED <<run, inbox, listening, hand>> => ReplicasTyped'
    BY <1>0 DEF ReplicasTyped, HandOK
<1>3. ASSUME NEW x \in Loaded \cup {None}, NEW r \in Replicas, run' = [run EXCEPT ![r] = x],
             UNCHANGED <<inbox, listening, hand>>
      PROVE  ReplicasTyped'
    BY <1>0, <1>3 DEF ReplicasTyped, HandOK
<1>4. Done(a) /\ UNCHANGED clock => RequestsTyped'
    BY <1>0, DoneTyped
<1>5. PICK o : o = op[a]
    OBVIOUS
<1>6. o \in RequestState /\ RequestOK(o)
    BY <1>5, RequestFacts
<1>7. CASE Runtime(a)
    <2>1. o.at \in Replicas /\ o.kind \in {"install", "enable", "update", "rollback", "config"} /\ op[a].pc = "runtime"
        BY <1>5, <1>7, RequestFacts DEF Runtime
    <2>2. Goto(a, "save") /\ "save" \in PcsOf(op[a].kind) /\ "save" \in LifecyclePcs /\ UNCHANGED clock
        BY <1>5, <1>7, <2>1 DEF Runtime, PcsOf, LifecyclePcs
    <2>3. PICK x \in Applied(a) : run' = [run EXCEPT ![op[a].at] = x]
        BY <1>7 DEF Runtime
    <2>4. x \in Loaded \cup {None}
        BY <2>1, AppliedTyped
    <2>5. ReplicasTyped'
        BY <1>3, <1>5, <1>7, <2>1, <2>3, <2>4 DEF Runtime
    <2>6. StoresTyped'
        BY <1>1, <1>7 DEF Runtime, db
    <2> QED BY <1>0, <2>2, <2>5, <2>6, GotoTyped DEF LifecycleTyped
<1>8. CASE RuntimeError(a)
    <2>1. RequestsTyped' /\ ReplicasTyped'
        BY <1>2, <1>4, <1>8 DEF RuntimeError
    <2>2. StoresTyped'
        BY <1>0, <1>8, BlobsStayTyped DEF RuntimeError, db, StoresTyped
    <2> QED BY <2>1, <2>2 DEF LifecycleTyped
<1>9. CASE Save(a)
    <2>1. o.kind \in {"install", "enable", "disable", "update", "rollback", "config"} /\ o.new \in Plugins
        BY <1>5, <1>9, RequestFacts DEF Save
    <2>2. PICK pc : pc = CASE op[a].kind = "disable" -> "stop" [] op[a].kind = "config" -> "finish" [] OTHER -> "meta"
        OBVIOUS
    <2>3. Goto(a, pc) /\ UNCHANGED clock
        BY <1>9, <2>2 DEF Save
    <2>4. pc = (IF o.kind = "disable" THEN "stop" ELSE IF o.kind = "config" THEN "finish" ELSE "meta")
        BY <1>5, <2>2
    <2>5. pc \in PcsOf(op[a].kind) /\ pc \in LifecyclePcs
        BY <1>5, <2>1, <2>4 DEF PcsOf, LifecyclePcs
    <2>6. RequestsTyped'
        BY <1>0, <2>3, <2>5, GotoTyped
    <2>7. ReplicasTyped'
        BY <1>2, <1>9 DEF Save
    <2>8. StoresTyped'
        BY <1>0, <1>5, <1>9, <2>1 DEF Save, SavePlugin, StoresTyped
    <2> QED BY <2>6, <2>7, <2>8 DEF LifecycleTyped
<1>10. CASE SaveMeta(a)
    <2>1. o.kind \in {"install", "enable", "update", "rollback"} /\ o.new \in Plugins
        BY <1>5, <1>10, RequestFacts DEF SaveMeta
    <2>2. Goto(a, "finish") /\ "finish" \in PcsOf(op[a].kind) /\ "finish" \in LifecyclePcs /\ UNCHANGED clock
        BY <1>5, <1>10, <2>1 DEF SaveMeta, PcsOf, LifecyclePcs
    <2>3. RequestsTyped'
        BY <1>0, <2>2, GotoTyped
    <2>4. ReplicasTyped'
        BY <1>2, <1>10 DEF SaveMeta
    <2>5. o.new.bin \in Binaries
        BY <2>1 DEF Plugins
    <2>6. StoresTyped'
        BY <1>0, <1>5, <1>10, <2>5 DEF SaveMeta, SavePluginMetadata, StoresTyped
    <2> QED BY <2>3, <2>4, <2>6 DEF LifecycleTyped
<1>11. CASE SaveError(a)
    <2>1. o.at \in Replicas /\ op[a].pc \in {"save", "meta"}
        BY <1>5, <1>11, RequestFacts DEF SaveError
    <2>2. PICK x \in RolledBack(a) : run' = [run EXCEPT ![op[a].at] = x]
        BY <1>11 DEF SaveError
    <2>3. x \in Loaded \cup {None}
        BY <2>1, RolledBackTyped
    <2>4. ReplicasTyped'
        BY <1>3, <1>5, <1>11, <2>1, <2>2, <2>3 DEF SaveError
    <2>5. blobs' \in [Keys -> Binaries \cup {None}]
        BY <1>0, <1>11, BlobsStayTyped DEF SaveError, StoresTyped
    <2>6. rec' \in Plugins \cup {None} /\ metadata' \in Binaries \cup {None} /\ vers' = vers
        BY <1>0, <1>11 DEF SaveError, StoresTyped
    <2>7. StoresTyped'
        BY <1>0, <2>5, <2>6 DEF StoresTyped
    <2>8. RequestsTyped'
        BY <1>4, <1>11 DEF SaveError
    <2> QED BY <2>4, <2>7, <2>8 DEF LifecycleTyped
<1>12. CASE Stop(a)
    <2>1. o.at \in Replicas /\ o.kind = "disable"
        BY <1>5, <1>12, RequestFacts DEF Stop
    <2>2. Goto(a, "finish") /\ "finish" \in PcsOf(op[a].kind) /\ "finish" \in LifecyclePcs /\ UNCHANGED clock
        BY <1>5, <1>12, <2>1 DEF Stop, PcsOf, LifecyclePcs
    <2>3. RequestsTyped'
        BY <1>0, <2>2, GotoTyped
    <2>4. ReplicasTyped'
        BY <1>3, <1>5, <1>12, <2>1 DEF Stop
    <2>5. StoresTyped'
        BY <1>1, <1>12 DEF Stop, db
    <2> QED BY <2>3, <2>4, <2>5 DEF LifecycleTyped
<1>13. ASSUME Finish(a) \/ PublishError(a)
       PROVE  LifecycleTyped'
    <2>1. o.kind \in Kinds
        BY <1>5, <1>13, RequestFacts DEF Finish, PublishError
    <2>2. RequestsTyped'
        BY <1>4, <1>13 DEF Finish, PublishError
    <2>3. inbox' \in [Replicas -> Seq(Kinds)]
        <3>1. CASE Finish(a)
            <4>1. PICK kind : kind = op[a].kind
                OBVIOUS
            <4>2. inbox' = [q \in Replicas |-> IF q \in Replicas \ {op[a].at} /\ listening[q]
                                               THEN Append(inbox[q], kind) ELSE inbox[q]]
                BY <3>1, <4>1 DEF Finish, Publish
            <4>3. \A q \in Replicas : inbox[q] \in Seq(Kinds) /\ Append(inbox[q], kind) \in Seq(Kinds)
                BY <1>0, <1>5, <2>1, <4>1 DEF ReplicasTyped
            <4> QED BY <4>2, <4>3
        <3>2. CASE PublishError(a)
            BY <1>0, <3>2 DEF PublishError, ReplicasTyped
        <3> QED BY <1>13, <3>1, <3>2
    <2>4. ReplicasTyped'
        BY <1>0, <1>13, <2>3 DEF ReplicasTyped, HandOK, Finish, PublishError
    <2>5. o.kind \in {"install", "update"} =>
             [key |-> o.new.key, bin |-> o.new.bin, cfg |-> o.new.cfg] \in Versions
        <3>1. o.kind \in {"install", "update"} => o.new \in Plugins
            BY <1>6 DEF RequestOK, Changing, Kinds
        <3> QED BY <3>1 DEF Plugins, Versions
    <2>6. vers' \subseteq Versions /\ UNCHANGED <<rec, metadata, blobs>>
        BY <1>0, <1>5, <1>13, <2>5 DEF Finish, PublishError, SaveVersion, StoresTyped
    <2>7. StoresTyped'
        BY <1>0, <2>6 DEF StoresTyped
    <2> QED BY <2>2, <2>4, <2>7 DEF LifecycleTyped
<1>14. CASE DeleteUnload(a)
    <2>1. o.at \in Replicas /\ o.kind = "delete"
        BY <1>5, <1>14, RequestFacts DEF DeleteUnload
    <2>2. Goto(a, "blobs") /\ "blobs" \in PcsOf(op[a].kind) /\ "blobs" \in LifecyclePcs /\ UNCHANGED clock
        BY <1>5, <1>14, <2>1 DEF DeleteUnload, PcsOf, LifecyclePcs
    <2>3. RequestsTyped'
        BY <1>0, <2>2, GotoTyped
    <2>4. ReplicasTyped'
        BY <1>3, <1>5, <1>14, <2>1 DEF DeleteUnload
    <2>5. StoresTyped'
        BY <1>1, <1>14 DEF DeleteUnload, db
    <2> QED BY <2>3, <2>4, <2>5 DEF LifecycleTyped
<1>15. CASE CleanupBlobs(a)
    <2>1. o.kind = "delete"
        BY <1>5, <1>15, RequestFacts DEF CleanupBlobs
    <2>2. Goto(a, "rows") /\ "rows" \in PcsOf(op[a].kind) /\ "rows" \in LifecyclePcs /\ UNCHANGED clock
        BY <1>5, <1>15, <2>1 DEF CleanupBlobs, PcsOf, LifecyclePcs
    <2>3. RequestsTyped'
        BY <1>0, <2>2, GotoTyped
    <2>4. ReplicasTyped'
        BY <1>2, <1>15 DEF CleanupBlobs
    <2>5. StoresTyped'
        BY <1>0, <1>15, BlobsStayTyped DEF CleanupBlobs, db, StoresTyped
    <2> QED BY <2>3, <2>4, <2>5 DEF LifecycleTyped
<1>16. CASE DeleteRows(a)
    <2>1. o.kind = "delete"
        BY <1>5, <1>16, RequestFacts DEF DeleteRows
    <2>2. Goto(a, "finish") /\ "finish" \in PcsOf(op[a].kind) /\ "finish" \in LifecyclePcs /\ UNCHANGED clock
        BY <1>5, <1>16, <2>1 DEF DeleteRows, PcsOf, LifecyclePcs
    <2>3. RequestsTyped'
        BY <1>0, <2>2, GotoTyped
    <2>4. ReplicasTyped'
        BY <1>2, <1>16 DEF DeleteRows
    <2>5. StoresTyped'
        BY <1>0, <1>16 DEF DeleteRows, StoresTyped
    <2> QED BY <2>3, <2>4, <2>5 DEF LifecycleTyped
<1>17. CASE DeleteError(a)
    BY <1>1, <1>2, <1>4, <1>17 DEF DeleteError, LifecycleTyped, db
<1>18. CASE DropVersion(a)
    <2>1. RequestsTyped' /\ ReplicasTyped'
        BY <1>2, <1>4, <1>18 DEF DropVersion
    <2>2. blobs' \in [Keys -> Binaries \cup {None}]
        BY <1>0, <1>18, BlobsStayTyped DEF DropVersion, StoresTyped
    <2>3. StoresTyped'
        BY <1>0, <1>18, <2>2 DEF DropVersion, StoresTyped
    <2> QED BY <2>1, <2>3 DEF LifecycleTyped
<1> QED BY <1>7, <1>8, <1>9, <1>10, <1>11, <1>12, <1>13, <1>14, <1>15, <1>16, <1>17, <1>18

LEMMA HandsStayTyped ==
    ASSUME ReplicasTyped, NEW r \in Replicas, Unhand(r)
    PROVE  hand' \in [Replicas -> Handling] /\ \A q \in Replicas : HandOK(hand'[q])
<1>1. PICK h : h = [kind |-> "none", rec |-> None]
    OBVIOUS
<1>2. h \in Handling /\ HandOK(h)
    BY <1>1 DEF Handling, HandOK, Kinds
<1>3. hand' = [hand EXCEPT ![r] = h]
    BY <1>1 DEF Unhand
<1> QED BY <1>2, <1>3 DEF ReplicasTyped

LEMMA ReplicaStepsTyped ==
    ASSUME LifecycleTyped, NEW r \in Replicas,
           \/ HandleEvent(r) \/ LoadFromStore(r) \/ LoadError(r)
           \/ Disconnect(r) \/ Reconnect(r) \/ Restart(r)
    PROVE  LifecycleTyped'
<1>0. StoresTyped /\ ReplicasTyped /\ RequestsTyped
    BY DEF LifecycleTyped
<1>1. UNCHANGED <<db, blobs>>
    BY DEF HandleEvent, LoadFromStore, LoadError, Disconnect, Reconnect, Restart
<1>2. StoresTyped'
    BY <1>0, <1>1 DEF StoresTyped, db
<1>3. UNCHANGED <<op, clock>> => RequestsTyped'
    BY <1>0 DEF RequestsTyped
<1>4. CASE HandleEvent(r)
    <2>1. PICK kind : kind = Head(inbox[r])
        OBVIOUS
    <2>2. inbox[r] \in Seq(Kinds) /\ inbox[r] # <<>>
        BY <1>0, <1>4 DEF ReplicasTyped, HandleEvent
    <2>3. kind \in Kinds /\ Tail(inbox[r]) \in Seq(Kinds)
        BY <2>1, <2>2
    <2>4. inbox' \in [Replicas -> Seq(Kinds)]
        BY <1>0, <1>4, <2>3 DEF ReplicasTyped, HandleEvent
    <2>5. run' \in [Replicas -> Loaded \cup {None}]
        BY <1>0, <1>4 DEF ReplicasTyped, HandleEvent
    <2>6. PICK h : h = [kind |-> kind, rec |-> rec]
        OBVIOUS
    <2>7. hand' = hand \/ (rec # None /\ kind \notin {"disable", "delete"} /\ hand' = [hand EXCEPT ![r] = h])
        BY <1>4, <2>1, <2>6 DEF HandleEvent
    <2>8. h \in Handling
        BY <1>0, <2>3, <2>6 DEF Handling, StoresTyped
    <2>9. rec # None /\ kind \notin {"disable", "delete"} => HandOK(h)
        BY <1>0, <2>6 DEF HandOK, StoresTyped
    <2>10. hand' \in [Replicas -> Handling] /\ \A q \in Replicas : HandOK(hand'[q])
        BY <1>0, <2>7, <2>8, <2>9 DEF ReplicasTyped
    <2>11. UNCHANGED <<listening, op, clock>>
        BY <1>4 DEF HandleEvent
    <2> QED BY <1>0, <1>2, <1>3, <2>4, <2>5, <2>10, <2>11 DEF LifecycleTyped, ReplicasTyped
<1>5. CASE LoadFromStore(r)
    <2>1. PICK x \in Follow(r) : run' = [run EXCEPT ![r] = x]
        BY <1>5 DEF LoadFromStore
    <2>2. x \in Loaded
        BY <1>5, FollowTyped DEF LoadFromStore
    <2>3. run' \in [Replicas -> Loaded \cup {None}]
        BY <1>0, <2>1, <2>2 DEF ReplicasTyped
    <2>4. Unhand(r) /\ UNCHANGED <<inbox, listening, op, clock>>
        BY <1>5 DEF LoadFromStore
    <2> QED BY <1>0, <1>2, <1>3, <2>3, <2>4, HandsStayTyped DEF LifecycleTyped, ReplicasTyped
<1>6. CASE LoadError(r)
    <2>4. Unhand(r) /\ UNCHANGED <<run, inbox, listening, op, clock>>
        BY <1>6 DEF LoadError
    <2> QED BY <1>0, <1>2, <1>3, <2>4, HandsStayTyped DEF LifecycleTyped, ReplicasTyped
<1>7. CASE Disconnect(r)
    <2>1. ReplicasTyped' /\ UNCHANGED <<op, clock>>
        BY <1>0, <1>7 DEF Disconnect, ReplicasTyped, HandOK
    <2> QED BY <1>2, <1>3, <2>1 DEF LifecycleTyped
<1>8. CASE Reconnect(r)
    <2>1. ReplicasTyped' /\ UNCHANGED <<op, clock>>
        BY <1>0, <1>8 DEF Reconnect, ReplicasTyped, HandOK
    <2> QED BY <1>2, <1>3, <2>1 DEF LifecycleTyped
<1>9. CASE Restart(r)
    <2>1. PICK x : x = Autoload
        OBVIOUS
    <2>2. x \in Loaded \cup {None} /\ run' = [run EXCEPT ![r] = x]
        BY <1>9, <2>1, AutoloadTyped DEF Restart
    <2>3. inbox' \in [Replicas -> Seq(Kinds)] /\ listening' \in [Replicas -> BOOLEAN]
          /\ run' \in [Replicas -> Loaded \cup {None}]
        BY <1>0, <1>9, <2>2 DEF Restart, ReplicasTyped
    <2>4. ReplicasTyped'
        BY <1>0, <1>9, <2>3, HandsStayTyped DEF Restart, ReplicasTyped
    <2>5. \A a \in Requests : op'[a] = Idle \/ op'[a] = op[a]
        BY <1>9 DEF Restart
    <2>6. \A a \in Requests : op'[a] \in RequestState /\ RequestOK(op'[a])
        BY <1>0, <2>5, IdleTyped DEF RequestsTyped
    <2>7. op' \in [Requests -> RequestState] /\ clock' = clock
        BY <1>9, <2>6 DEF Restart
    <2>8. RequestsTyped'
        BY <1>0, <2>6, <2>7 DEF RequestsTyped
    <2> QED BY <1>2, <2>4, <2>8 DEF LifecycleTyped
<1> QED BY <1>4, <1>5, <1>6, <1>7, <1>8, <1>9

LEMMA LifecycleStepTyped ==
    ASSUME LifecycleTyped, [Next]_vars
    PROVE  LifecycleTyped'
<1>1. ASSUME NEW b \in Binaries, Upload(b)
      PROVE  LifecycleTyped'
    <2>1. StoresTyped'
        BY <1>1, BlobsStayTyped, NoneApart DEF Upload, LifecycleTyped, StoresTyped, db
    <2> QED BY <1>1, <2>1 DEF Upload, LifecycleTyped, ReplicasTyped, RequestsTyped, HandOK
<1>2. CASE Tick
    <2>1. clock' \in 1..MaxClock
        BY <1>2, NoneApart DEF Tick, LifecycleTyped, RequestsTyped
    <2> QED BY <1>2, <2>1 DEF Tick, LifecycleTyped, StoresTyped, ReplicasTyped, RequestsTyped, HandOK, db
<1>3. CASE UNCHANGED vars
    BY <1>3 DEF vars, LifecycleTyped, StoresTyped, ReplicasTyped, RequestsTyped, HandOK, db
<1> QED BY <1>1, <1>2, <1>3, BeginningsTyped, RequestStepsTyped, ReplicaStepsTyped DEF Next

LEMMA LifecycleStartsTyped ==
    ASSUME Init
    PROVE  LifecycleTyped
<1>1. StoresTyped
    BY DEF Init, StoresTyped
<1>2. [kind |-> "none", rec |-> None] \in Handling /\ HandOK([kind |-> "none", rec |-> None])
    BY DEF Handling, HandOK, Kinds
<1>3. ReplicasTyped
    BY <1>2 DEF Init, ReplicasTyped
<1>4. RequestsTyped
    BY IdleTyped, NoneApart DEF Init, RequestsTyped
<1> QED BY <1>1, <1>3, <1>4 DEF LifecycleTyped

-----------------------------------------------------------------------------
(* Binaries.                                                               *)

LEMMA OddityStays ==
    ASSUME [Next]_vars
    PROVE  odd \subseteq odd'
<1>1. \A a, kind, r, pc, new : Begin(a, kind, r, pc, new) => odd \subseteq odd'
    BY DEF Begin
<1>2. ASSUME NEW a \in Requests, NEW r \in Replicas,
             \/ Enable(a, r) \/ Disable(a, r) \/ Delete(a, r)
             \/ \E b \in Binaries : Update(a, r, b)
             \/ \E c \in Configs : UpdateConfig(a, r, c) \/ \E k \in Binaries : Install(a, r, k, c)
             \/ \E v \in vers : Rollback(a, r, v) \/ DeleteVersion(a, r, v)
      PROVE  odd \subseteq odd'
    BY <1>1, <1>2 DEF Enable, Disable, Delete, Update, UpdateConfig, Install, Rollback, DeleteVersion
<1>3. ASSUME NEW a \in Requests,
             \/ Runtime(a) \/ RuntimeError(a) \/ Save(a) \/ SaveMeta(a) \/ SaveError(a)
             \/ Stop(a) \/ Finish(a) \/ PublishError(a)
             \/ DeleteUnload(a) \/ CleanupBlobs(a) \/ DeleteRows(a) \/ DeleteError(a) \/ DropVersion(a)
      PROVE  odd \subseteq odd'
    BY <1>3 DEF Runtime, RuntimeError, Save, SaveMeta, SaveError, Stop, Finish, PublishError,
                DeleteUnload, CleanupBlobs, DeleteRows, DeleteError, DropVersion, history
<1>4. ASSUME NEW r \in Replicas,
             \/ HandleEvent(r) \/ LoadFromStore(r) \/ LoadError(r)
             \/ Disconnect(r) \/ Reconnect(r) \/ Restart(r)
      PROVE  odd \subseteq odd'
    BY <1>4 DEF HandleEvent, LoadFromStore, LoadError, Disconnect, Reconnect, Restart, history
<1>5. (\E b \in Binaries : Upload(b)) \/ Tick \/ UNCHANGED vars => odd \subseteq odd'
    BY DEF Upload, Tick, vars, history
<1> QED BY <1>2, <1>3, <1>4, <1>5 DEF Next

(* A request goes on towards its end, or is over.                          *)
Continues(b) ==
    \/ op'[b].kind = "none"
    \/ /\ op'[b].kind = op[b].kind /\ op'[b].new = op[b].new
       /\ op'[b].pc \in {"runtime", "save"} => op[b].pc \in {"runtime", "save"}

(* Steps that put nothing more on record.                                  *)
LEMMA LessHeld ==
    ASSUME Fine, BinariesInv, Named' \subseteq Named, rec' = rec \/ rec' = None,
           \A b \in Requests : Continues(b),
           (\A a \in Requests : op'[a].pc # "rows") => \A x \in Named' : blobs'[x.key] = x.bin,
           \A b \in Requests : op'[b].kind \in Changing => blobs'[op[b].new.key] = op[b].new.bin
    PROVE  BinariesInv'
<1>0. \A a \in Requests : Holds(a) /\ Owns(a) /\ Alone(a) /\ Spares(a)
    BY DEF BinariesInv
<1>1. OnRecord'
    BY DEF OnRecord
<1>2. ASSUME NEW a \in Requests
      PROVE  (Holds(a) /\ Owns(a) /\ Alone(a) /\ Spares(a))'
    <2>0. "none" \notin Changing
        BY DEF Changing, Kinds
    <2>1. Holds(a)'
        <3>1. op'[a].kind \in Changing => op'[a].new = op[a].new
            BY <2>0 DEF Continues
        <3> QED BY <3>1 DEF Holds
    <2>2. Owns(a)'
        <3> SUFFICES ASSUME op'[a].kind = "update", op'[a].pc \in {"runtime", "save"}
                     PROVE  /\ \A x \in Named' : x.key # op'[a].new.key
                            /\ \A b \in Requests \ {a} : op'[b].kind \in Changing => op'[b].new.key # op'[a].new.key
            BY DEF Owns
        <3>1. op[a].kind = "update" /\ op[a].pc \in {"runtime", "save"} /\ op'[a].new = op[a].new
            BY DEF Continues
        <3>2. \A b \in Requests : op'[b].kind \in Changing => op[b].kind \in Changing /\ op'[b].new = op[b].new
            BY <2>0 DEF Continues
        <3> QED BY <1>0, <3>1, <3>2 DEF Owns
    <2>3. Alone(a)'
        <3> SUFFICES ASSUME op'[a].kind \in {"delete", "drop"}
                     PROVE  \A b \in Requests \ {a} : op'[b].kind = "none"
            BY DEF Alone
        <3>1. op[a].kind \in {"delete", "drop"}
            BY DEF Continues
        <3> QED BY <1>0, <3>1 DEF Alone, Continues
    <2>4. Spares(a)'
        <3>1. op'[a].kind = "drop" => op[a].kind = "drop" /\ op'[a].new = op[a].new
            BY DEF Continues
        <3> QED BY <1>0, <3>1 DEF Spares
    <2> QED BY <2>1, <2>2, <2>3, <2>4
<1> QED BY <1>1, <1>2 DEF BinariesInv

(* Steps that leave the stores alone.                                      *)
LEMMA SameHeld ==
    ASSUME Fine, BinariesInv, UNCHANGED <<rec, vers, blobs>>,
           \A b \in Requests : Continues(b),
           (\E a \in Requests : op[a].pc = "rows") => \E a \in Requests : op'[a].pc = "rows"
    PROVE  BinariesInv'
<1>1. Named' = Named
    BY DEF Named
<1>2. (\A a \in Requests : op'[a].pc # "rows") => \A x \in Named' : blobs'[x.key] = x.bin
    BY <1>1 DEF BinariesInv, OnRecord
<1>3. ASSUME NEW b \in Requests, op'[b].kind \in Changing
      PROVE  blobs'[op[b].new.key] = op[b].new.bin
    <2>1. op[b].kind \in Changing
        BY <1>3 DEF Continues, Changing, Kinds
    <2> QED BY <2>1 DEF BinariesInv, Holds
<1> QED BY <1>1, <1>2, <1>3, LessHeld

(* Steps that record what a request holds.                                 *)
LEMMA MoreHeld ==
    ASSUME Fine, BinariesInv, NEW a \in Requests, op[a].kind \in Changing,
           op'[a].pc \notin {"runtime", "save"}, blobs' = blobs,
           \A x \in Named' : x \in Named \/ (x.key = op[a].new.key /\ x.bin = op[a].new.bin),
           \A b \in Requests : Continues(b),
           \A b \in Requests : op[b].pc = "rows" => op[b].kind = "delete"
    PROVE  BinariesInv'
<1>0. \A b \in Requests : Holds(b) /\ Owns(b) /\ Alone(b) /\ Spares(b)
    BY DEF BinariesInv
<1>a. "none" \notin Changing /\ "delete" \notin Changing /\ "drop" \notin Changing
    BY DEF Changing, Kinds
<1>b. \A b \in Requests : op[b].kind \notin {"delete", "drop"}
    BY <1>0, <1>a DEF Alone
<1>1. OnRecord'
    <2>1. \A x \in Named : blobs[x.key] = x.bin
        BY <1>b DEF BinariesInv, OnRecord
    <2>2. blobs[op[a].new.key] = op[a].new.bin
        BY <1>0 DEF Holds
    <2> QED BY <2>1, <2>2 DEF OnRecord
<1>2. ASSUME NEW c \in Requests
      PROVE  (Holds(c) /\ Owns(c) /\ Alone(c) /\ Spares(c))'
    <2>1. Holds(c)'
        <3>1. op'[c].kind \in Changing => op[c].kind \in Changing /\ op'[c].new = op[c].new
            BY <1>a DEF Continues
        <3> QED BY <1>0, <3>1 DEF Holds
    <2>2. Owns(c)'
        <3> SUFFICES ASSUME op'[c].kind = "update", op'[c].pc \in {"runtime", "save"}
                     PROVE  /\ \A x \in Named' : x.key # op'[c].new.key
                            /\ \A b \in Requests \ {c} : op'[b].kind \in Changing => op'[b].new.key # op'[c].new.key
            BY DEF Owns
        <3>1. op[c].kind = "update" /\ op[c].pc \in {"runtime", "save"} /\ op'[c].new = op[c].new /\ c # a
            BY DEF Continues
        <3>2. \A b \in Requests : op'[b].kind \in Changing => op[b].kind \in Changing /\ op'[b].new = op[b].new
            BY <1>a DEF Continues
        <3>3. /\ \A x \in Named : x.key # op[c].new.key
              /\ \A b \in Requests \ {c} : op[b].kind \in Changing => op[b].new.key # op[c].new.key
            BY <1>0, <3>1 DEF Owns
        <3> QED BY <3>1, <3>2, <3>3
    <2>3. op'[c].kind \notin {"delete", "drop"}
        BY <1>b DEF Continues
    <2> QED BY <2>1, <2>2, <2>3 DEF Alone, Spares
<1> QED BY <1>1, <1>2 DEF BinariesInv

(* A request that begins without making the history odd.                   *)
LEMMA Unremarkable ==
    ASSUME LifecycleTyped, NEW a \in Requests, NEW kind, NEW r, NEW pc, NEW new,
           Begin(a, kind, r, pc, new), Fine'
    PROVE  /\ kind \in {"delete", "drop"} => \A b \in Requests : op[b].kind = "none"
           /\ \A b \in Requests : op[b].kind \notin {"delete", "drop"}
           /\ kind = "update" => blobs[clock] = None
           /\ Fine /\ op[a].kind = "none"
           /\ op' = [op EXCEPT ![a] = [pc |-> pc, kind |-> kind, at |-> r, old |-> rec, new |-> new]]
           /\ UNCHANGED <<rec, vers>>
<1>1. odd' = odd \cup Oddities(kind) /\ op[a].pc = "idle"
    BY DEF Begin
<1>2. Fine /\ "overlapped delete" \notin Oddities(kind) /\ "same second" \notin Oddities(kind)
    BY <1>1 DEF Fine
<1>3. kind = "update" => blobs[clock] = None
    BY <1>2 DEF Oddities
<1>4. Quiet \/ \A k \in {kind} \cup {op[b].kind : b \in Requests} : k \notin {"delete", "drop"}
    BY <1>2 DEF Oddities
<1>5. Quiet => \A b \in Requests : op[b].kind = "none"
    BY RequestFacts DEF Quiet
<1>6. op[a].kind = "none"
    BY <1>1, RequestFacts
<1> QED BY <1>2, <1>3, <1>4, <1>5, <1>6 DEF Begin, db

LEMMA ChangeBegins ==
    ASSUME LifecycleTyped, BinariesInv, Fine', NEW a \in Requests, NEW kind, NEW r, NEW pc, NEW new,
           kind \in Changing, new \in Plugins, kind = "update" => new.key = clock,
           Begin(a, kind, r, pc, new),
           \/ /\ kind # "update" /\ blobs' = blobs /\ blobs[new.key] = new.bin
              /\ new.key \in Binaries \/ \E x \in Named : x.key = new.key
           \/ kind = "update" /\ Put(clock, new.bin)
    PROVE  BinariesInv'
<1> USE NoneApart
<1>1. /\ \A b \in Requests : op[b].kind \notin {"delete", "drop"}
      /\ kind = "update" => blobs[clock] = None
      /\ Fine /\ op[a].kind = "none"
      /\ op' = [op EXCEPT ![a] = [pc |-> pc, kind |-> kind, at |-> r, old |-> rec, new |-> new]]
      /\ UNCHANGED <<rec, vers>>
    BY Unremarkable
<1>a. kind \notin {"delete", "drop"}
    BY DEF Changing, Kinds
<1>2. /\ \A x \in Named : blobs[x.key] = x.bin
      /\ \A b \in Requests : Holds(b) /\ Owns(b)
    <2>1. \A b \in Requests : op[b].pc # "rows"
        BY <1>1, RequestFacts
    <2> QED BY <1>1, <2>1 DEF BinariesInv, OnRecord
<1>3. Named' = Named
    BY <1>1 DEF Named
<1>4. \A b \in Requests \ {a} : op'[b] = op[b]
    BY <1>1 DEF LifecycleTyped, RequestsTyped
<1>5. op'[a].kind = kind /\ op'[a].new = new
    BY <1>1 DEF LifecycleTyped, RequestsTyped
<1>6. \A x \in Named : x.bin \in Binaries /\ x.key \in Keys
    BY DEF Named, LifecycleTyped, StoresTyped, Plugins, Versions
<1>7. \A b \in Requests : op[b].kind \in Changing => op[b].new \in Plugins
    BY RequestFacts
<1>8. ASSUME kind = "update"
      PROVE  /\ \A x \in Named : x.key # clock
             /\ \A b \in Requests : op[b].kind \in Changing => op[b].new.key # clock
    <2>1. \A x \in Named : blobs[x.key] # None
        BY <1>2, <1>6
    <2>2. \A b \in Requests : op[b].kind \in Changing => blobs[op[b].new.key] # None
        BY <1>2, <1>7 DEF Holds, Plugins
    <2> QED BY <1>1, <1>8, <2>1, <2>2
<1>9. /\ \A x \in Named : blobs'[x.key] = blobs[x.key]
      /\ \A b \in Requests \ {a} : op[b].kind \in Changing => blobs'[op[b].new.key] = blobs[op[b].new.key]
      /\ blobs'[new.key] = new.bin
    <2>1. CASE kind = "update"
        <3>1. blobs' = [blobs EXCEPT ![clock] = new.bin] /\ clock \in Keys /\ new.key = clock
            BY <2>1 DEF Put, LifecycleTyped, RequestsTyped
        <3> QED BY <1>8, <2>1, <3>1 DEF LifecycleTyped, StoresTyped
    <2>2. CASE kind # "update"
        BY <2>2
    <2> QED BY <2>1, <2>2
<1>10. OnRecord'
    BY <1>2, <1>3, <1>9 DEF OnRecord
<1>11. ASSUME NEW c \in Requests
       PROVE  (Holds(c) /\ Owns(c) /\ Alone(c) /\ Spares(c))'
    <2>1. Holds(c)'
        <3>1. CASE c = a
            BY <1>5, <1>9, <3>1 DEF Holds
        <3>2. CASE c # a
            BY <1>2, <1>4, <1>9, <3>2 DEF Holds
        <3> QED BY <3>1, <3>2
    <2>2. Owns(c)'
        <3> SUFFICES ASSUME op'[c].kind = "update", op'[c].pc \in {"runtime", "save"}
                     PROVE  /\ \A x \in Named' : x.key # op'[c].new.key
                            /\ \A b \in Requests \ {c} : op'[b].kind \in Changing => op'[b].new.key # op'[c].new.key
            BY DEF Owns
        <3>1. CASE c = a
            <4>1. op'[c].new.key = clock /\ kind = "update"
                BY <1>5, <3>1
            <4> QED BY <1>3, <1>4, <1>8, <3>1, <4>1
        <3>2. CASE c # a
            <4>1. op'[c] = op[c] /\ op[c].kind = "update" /\ op[c].pc \in {"runtime", "save"}
                BY <1>4, <3>2
            <4>2. /\ \A x \in Named : x.key # op[c].new.key
                  /\ \A b \in Requests \ {c} : op[b].kind \in Changing => op[b].new.key # op[c].new.key
                BY <1>2, <4>1 DEF Owns
            <4>3. new.key # op[c].new.key
                <5>1. CASE kind = "update"
                    <6>1. op[c].new.key # clock
                        BY <1>8, <4>1, <5>1 DEF Changing, Kinds
                    <6> QED BY <5>1, <6>1
                <5>2. CASE new.key \in Binaries
                    <6>1. op[c].new.key \in 1..MaxClock
                        BY <4>1, RequestFacts DEF RequestOK
                    <6> QED BY <5>2, <6>1, PluginLifecycleAssumption
                <5>3. CASE \E x \in Named : x.key = new.key
                    BY <4>2, <5>3
                <5> QED BY <5>1, <5>2, <5>3
            <4> QED BY <1>3, <1>4, <1>5, <4>1, <4>2, <4>3
        <3> QED BY <3>1, <3>2
    <2>3. op'[c].kind \notin {"delete", "drop"}
        BY <1>1, <1>a, <1>4, <1>5
    <2> QED BY <2>1, <2>2, <2>3 DEF Alone, Spares
<1> QED BY <1>10, <1>11 DEF BinariesInv

LEMMA DeletionBegins ==
    ASSUME LifecycleTyped, BinariesInv, Fine', NEW a \in Requests, NEW kind, NEW r, NEW pc, NEW new,
           kind \in {"delete", "drop"}, pc # "rows", kind = "drop" => new.key # rec.key,
           Begin(a, kind, r, pc, new), blobs' = blobs
    PROVE  BinariesInv'
<1>1. /\ \A b \in Requests : op[b].kind = "none"
      /\ Fine
      /\ op' = [op EXCEPT ![a] = [pc |-> pc, kind |-> kind, at |-> r, old |-> rec, new |-> new]]
      /\ UNCHANGED <<rec, vers>>
    BY Unremarkable
<1>2. \A b \in Requests : op[b].pc # "rows"
    BY <1>1, RequestFacts
<1>3. Named' = Named
    BY <1>1 DEF Named
<1>4. \A b \in Requests \ {a} : op'[b] = op[b]
    BY <1>1 DEF LifecycleTyped, RequestsTyped
<1>5. op'[a].kind = kind /\ op'[a].new = new /\ op'[a].pc = pc
    BY <1>1 DEF LifecycleTyped, RequestsTyped
<1>6. OnRecord'
    BY <1>1, <1>2, <1>3 DEF BinariesInv, OnRecord
<1>7. ASSUME NEW c \in Requests
      PROVE  (Holds(c) /\ Owns(c) /\ Alone(c) /\ Spares(c))'
    <2>1. op'[c].kind \notin Changing
        BY <1>1, <1>4, <1>5 DEF Changing, Kinds
    <2>2. op'[c].kind # "update"
        BY <1>1, <1>4, <1>5
    <2>3. Alone(c)'
        BY <1>1, <1>4, <1>5 DEF Alone
    <2>4. Spares(c)'
        BY <1>1, <1>4, <1>5 DEF Spares
    <2> QED BY <2>1, <2>2, <2>3, <2>4 DEF Holds, Owns
<1> QED BY <1>6, <1>7 DEF BinariesInv

LEMMA BeginningsHeld ==
    ASSUME LifecycleTyped, BinariesInv, Fine', NEW a \in Requests, NEW r \in Replicas,
           \/ Enable(a, r) \/ Disable(a, r) \/ Delete(a, r)
           \/ \E b \in Binaries : Update(a, r, b)
           \/ \E c \in Configs : UpdateConfig(a, r, c) \/ \E k \in Binaries : Install(a, r, k, c)
           \/ \E v \in vers : Rollback(a, r, v) \/ DeleteVersion(a, r, v)
    PROVE  BinariesInv'
<1>0. rec # None => rec \in Plugins /\ rec \in Named
    BY DEF LifecycleTyped, StoresTyped, Named
<1>1. ASSUME NEW kind, NEW pc, NEW new, Begin(a, kind, r, pc, new), rec # None
      PROVE  blobs[rec.key] = rec.bin
    <2>1. Fine /\ \A b \in Requests : op[b].kind \notin {"delete", "drop"}
        BY <1>1, Unremarkable
    <2>2. \A b \in Requests : op[b].pc # "rows"
        BY <2>1, RequestFacts
    <2> QED BY <1>0, <1>1, <2>1, <2>2 DEF BinariesInv, OnRecord
<1>2. {"install", "enable", "disable", "update", "rollback", "config"} \subseteq Changing
    BY DEF Changing, Kinds
<1>3. CASE Enable(a, r)
    <2>1. PICK new : new = [rec EXCEPT !.enabled = TRUE]
        OBVIOUS
    <2>2. rec \in Plugins /\ rec \in Named /\ Begin(a, "enable", r, "runtime", new) /\ blobs' = blobs
        BY <1>3, <2>1, <1>0 DEF Enable
    <2>3. new \in Plugins /\ new.key = rec.key /\ new.bin = rec.bin
        BY <2>1, <2>2 DEF Plugins
    <2>4. blobs[rec.key] = rec.bin
        BY <1>1, <1>3, <2>2 DEF Enable
    <2> QED BY <1>2, <2>2, <2>3, <2>4, ChangeBegins
<1>4. CASE Disable(a, r)
    <2>1. PICK new : new = [rec EXCEPT !.enabled = FALSE]
        OBVIOUS
    <2>2. rec \in Plugins /\ rec \in Named /\ Begin(a, "disable", r, "save", new) /\ blobs' = blobs
        BY <1>4, <2>1, <1>0 DEF Disable
    <2>3. new \in Plugins /\ new.key = rec.key /\ new.bin = rec.bin
        BY <2>1, <2>2 DEF Plugins
    <2>4. blobs[rec.key] = rec.bin
        BY <1>1, <1>4, <2>2 DEF Disable
    <2> QED BY <1>2, <2>2, <2>3, <2>4, ChangeBegins
<1>5. CASE Delete(a, r)
    BY <1>5, DeletionBegins DEF Delete
<1>6. ASSUME NEW b \in Binaries, Update(a, r, b)
      PROVE  BinariesInv'
    <2>1. PICK new : new = [rec EXCEPT !.key = clock, !.bin = b]
        OBVIOUS
    <2>2. rec \in Plugins /\ Begin(a, "update", r, "runtime", new) /\ Put(clock, b)
        BY <1>6, <2>1, <1>0 DEF Update
    <2>3. clock \in Keys
        BY NoneApart DEF LifecycleTyped, RequestsTyped
    <2>4. new \in Plugins /\ new.key = clock /\ new.bin = b
        BY <2>1, <2>2, <2>3 DEF Plugins
    <2> QED BY <1>2, <2>2, <2>4, ChangeBegins
<1>7. ASSUME NEW c \in Configs, UpdateConfig(a, r, c)
      PROVE  BinariesInv'
    <2>1. PICK new : new = [rec EXCEPT !.cfg = c]
        OBVIOUS
    <2>2. rec \in Plugins /\ rec \in Named /\ Begin(a, "config", r, "runtime", new) /\ blobs' = blobs
        BY <1>7, <2>1, <1>0 DEF UpdateConfig
    <2>3. new \in Plugins /\ new.key = rec.key /\ new.bin = rec.bin
        BY <2>1, <2>2 DEF Plugins
    <2>4. blobs[rec.key] = rec.bin
        BY <1>1, <1>7, <2>2 DEF UpdateConfig
    <2> QED BY <1>2, <2>2, <2>3, <2>4, ChangeBegins
<1>8. ASSUME NEW c \in Configs, NEW k \in Binaries, Install(a, r, k, c)
      PROVE  BinariesInv'
    <2>1. PICK new : new = [enabled |-> TRUE, key |-> k, bin |-> blobs[k], cfg |-> c]
        OBVIOUS
    <2>2. blobs[k] # None /\ Begin(a, "install", r, "runtime", new) /\ blobs' = blobs
        BY <1>8, <2>1 DEF Install
    <2>3. k \in Keys /\ blobs[k] \in Binaries
        BY <2>2, NoneApart DEF LifecycleTyped, StoresTyped
    <2>4. new \in Plugins /\ new.key = k /\ new.bin = blobs[k]
        BY <2>1, <2>3 DEF Plugins
    <2> QED BY <1>2, <2>2, <2>4, ChangeBegins
<1>9. ASSUME NEW v \in vers, Rollback(a, r, v)
      PROVE  BinariesInv'
    <2>1. PICK new : new = [rec EXCEPT !.key = v.key, !.bin = v.bin, !.cfg = v.cfg]
        OBVIOUS
    <2>2. rec \in Plugins /\ Begin(a, "rollback", r, "runtime", new) /\ blobs' = blobs /\ blobs[v.key] = v.bin
        BY <1>9, <2>1, <1>0 DEF Rollback
    <2>3. v \in Versions /\ v \in Named
        BY <1>9, NoneApart DEF LifecycleTyped, StoresTyped, Named
    <2>4. new \in Plugins /\ new.key = v.key /\ new.bin = v.bin
        BY <2>1, <2>2, <2>3 DEF Plugins, Versions
    <2> QED BY <1>2, <2>2, <2>3, <2>4, ChangeBegins
<1>10. ASSUME NEW v \in vers, DeleteVersion(a, r, v)
       PROVE  BinariesInv'
    BY <1>10, DeletionBegins DEF DeleteVersion
<1> QED BY <1>3, <1>4, <1>5, <1>6, <1>7, <1>8, <1>9, <1>10

(* The requests that a step of request a leaves as they are, and a itself. *)
LEMMA OnlyOne ==
    ASSUME LifecycleTyped, NEW a \in Requests
    PROVE  /\ \A pc : Goto(a, pc) =>
                 /\ \A b \in Requests \ {a} : op'[b] = op[b]
                 /\ op'[a].pc = pc /\ op'[a].kind = op[a].kind /\ op'[a].new = op[a].new
                 /\ op'[a].old = op[a].old /\ op'[a].at = op[a].at
           /\ Done(a) => /\ \A b \in Requests \ {a} : op'[b] = op[b]
                         /\ op'[a] = Idle
BY DEF LifecycleTyped, RequestsTyped, RequestState, Goto, Done

LEMMA GoingOn ==
    ASSUME LifecycleTyped, NEW a \in Requests
    PROVE  /\ \A pc : Goto(a, pc) /\ (pc \in {"runtime", "save"} => op[a].pc \in {"runtime", "save"}) =>
                 \A b \in Requests : Continues(b)
           /\ Done(a) => \A b \in Requests : Continues(b)
BY OnlyOne, IdleTyped DEF Continues

LEMMA RequestStepsHeld ==
    ASSUME LifecycleTyped, BinariesInv, Fine, Fine', NEW a \in Requests,
           \/ Runtime(a) \/ RuntimeError(a) \/ Save(a) \/ SaveMeta(a) \/ SaveError(a)
           \/ Stop(a) \/ Finish(a) \/ PublishError(a)
           \/ DeleteUnload(a) \/ CleanupBlobs(a) \/ DeleteRows(a) \/ DeleteError(a) \/ DropVersion(a)
    PROVE  BinariesInv'
<1>0. \A b \in Requests : Holds(b) /\ Owns(b) /\ Alone(b) /\ Spares(b)
    BY DEF BinariesInv
<1>1. \A b \in Requests : op[b].pc = "rows" => op[b].kind = "delete"
    BY RequestFacts
<1>2. ASSUME UNCHANGED <<rec, vers, blobs>>, op[a].pc # "rows",
             Done(a) \/ \E pc : Goto(a, pc) /\ (pc \in {"runtime", "save"} => op[a].pc \in {"runtime", "save"})
      PROVE  BinariesInv'
    <2>1. \A b \in Requests : Continues(b)
        BY <1>2, GoingOn
    <2>2. \A b \in Requests \ {a} : op'[b] = op[b]
        BY <1>2, OnlyOne
    <2> QED BY <1>2, <2>1, <2>2, SameHeld
<1>3. CASE Runtime(a)
    BY <1>2, <1>3 DEF Runtime, db
<1>4. CASE SaveMeta(a)
    BY <1>2, <1>4 DEF SaveMeta
<1>5. CASE Stop(a)
    BY <1>2, <1>5 DEF Stop, db
<1>6. CASE DeleteUnload(a)
    BY <1>2, <1>6 DEF DeleteUnload, db
<1>7. CASE DeleteError(a)
    <2>1. FALSE
        BY <1>7 DEF DeleteError, Fine
    <2> QED BY <2>1
<1>8. ASSUME op[a].kind = "update", op[a].pc \in {"runtime", "save"}, UNCHANGED <<rec, vers>>,
             DeleteBlobs({op[a].new.key}), Done(a)
      PROVE  BinariesInv'
    <2>1. PICK o : o = op[a]
        OBVIOUS
    <2>2. /\ \A x \in Named : x.key # o.new.key
          /\ \A b \in Requests \ {a} : op[b].kind \in Changing => op[b].new.key # o.new.key
        BY <1>0, <1>8, <2>1 DEF Owns
    <2>3. \A k \in Keys : k # o.new.key => blobs'[k] = blobs[k]
        BY <1>8, <2>1 DEF DeleteBlobs
    <2>4. \A x \in Named : x.key \in Keys
        BY DEF Named, LifecycleTyped, StoresTyped, Plugins, Versions
    <2>5. \A b \in Requests : op[b].kind \in Changing => op[b].new.key \in Keys
        BY RequestFacts DEF Plugins
    <2>6. \A b \in Requests : Continues(b)
        BY <1>8, GoingOn
    <2>7. (\A b \in Requests \ {a} : op'[b] = op[b]) /\ op'[a] = Idle
        BY <1>8, OnlyOne
    <2>8. Named' = Named
        BY <1>8 DEF Named
    <2>9. \A b \in Requests : op[b].pc = "rows" => op'[b].pc = "rows"
        BY <1>8, <2>7
    <2>10. (\A b \in Requests : op'[b].pc # "rows") => \A x \in Named' : blobs'[x.key] = x.bin
        BY <2>2, <2>3, <2>4, <2>8, <2>9 DEF BinariesInv, OnRecord
    <2>11. ASSUME NEW b \in Requests, op'[b].kind \in Changing
           PROVE  blobs'[op[b].new.key] = op[b].new.bin
        <3>1. b # a
            BY <2>7, <2>11, IdleTyped DEF Changing, Kinds
        <3>2. op[b].kind \in Changing
            BY <2>7, <2>11, <3>1
        <3> QED BY <1>0, <2>2, <2>3, <2>5, <3>1, <3>2 DEF Holds
    <2> QED BY <1>8, <2>6, <2>8, <2>10, <2>11, LessHeld
<1>9. CASE RuntimeError(a)
    <2>1. CASE op[a].kind = "update"
        BY <1>8, <1>9, <2>1 DEF RuntimeError, db
    <2>2. CASE op[a].kind # "update"
        BY <1>2, <1>9, <2>2 DEF RuntimeError, db
    <2> QED BY <2>1, <2>2
<1>10. CASE Save(a)
    <2>1. op[a].kind \in Changing /\ op[a].new \in Plugins
        BY <1>10, RequestFacts DEF Save, Changing, Kinds
    <2>2. PICK pc : pc = CASE op[a].kind = "disable" -> "stop" [] op[a].kind = "config" -> "finish" [] OTHER -> "meta"
        OBVIOUS
    <2>3. Goto(a, pc)
        BY <1>10, <2>2 DEF Save
    <2>4. pc \notin {"runtime", "save"}
        <3>1. op[a].kind = "disable" => op[a].kind # "config"
            OBVIOUS
        <3> QED BY <2>2, <3>1
    <2>5. op'[a].pc \notin {"runtime", "save"}
        BY <2>3, <2>4, OnlyOne
    <2>6. \A b \in Requests : Continues(b)
        BY <2>3, <2>4, GoingOn
    <2>7. rec' = op[a].new /\ vers' = vers /\ blobs' = blobs
        BY <1>10 DEF Save, SavePlugin
    <2>8. \A x \in Named' : x \in Named \/ (x.key = op[a].new.key /\ x.bin = op[a].new.bin)
        BY <2>7 DEF Named
    <2> QED BY <1>1, <2>1, <2>5, <2>6, <2>7, <2>8, MoreHeld
<1>11. CASE SaveError(a)
    <2>1. op[a].kind \in {"install", "enable", "disable", "update", "rollback", "config"} /\ op[a].pc # "rows"
        BY <1>11, RequestFacts DEF SaveError
    <2>2. CASE op[a].kind = "update"
        <3>1. op[a].pc = "save"
            BY <1>11, <2>2 DEF SaveError, Fine
        <3> QED BY <1>8, <1>11, <2>2, <3>1 DEF SaveError
    <2>3. CASE op[a].kind = "install"
        <3>1. rec' = None /\ vers' = vers /\ blobs' = blobs /\ Done(a)
            BY <1>11, <2>3 DEF SaveError
        <3>2. Named' \subseteq Named
            BY <3>1 DEF Named
        <3>3. \A b \in Requests : Continues(b)
            BY <3>1, GoingOn
        <3>4. (\A b \in Requests \ {a} : op'[b] = op[b]) /\ op'[a] = Idle
            BY <3>1, OnlyOne
        <3>5. \A b \in Requests : op[b].pc # "rows"
            BY <1>0, <1>1, <2>3 DEF Alone
        <3>6. \A x \in Named' : blobs'[x.key] = x.bin
            BY <3>1, <3>2, <3>5 DEF BinariesInv, OnRecord
        <3>7. ASSUME NEW b \in Requests, op'[b].kind \in Changing
              PROVE  blobs'[op[b].new.key] = op[b].new.bin
            <4>1. op[b].kind \in Changing
                BY <3>3, <3>7 DEF Continues, Changing, Kinds
            <4> QED BY <1>0, <3>1, <4>1 DEF Holds
        <3> QED BY <3>1, <3>2, <3>3, <3>6, <3>7, LessHeld
    <2>4. CASE op[a].kind \notin {"install", "update"}
        BY <1>2, <1>11, <2>1, <2>4 DEF SaveError
    <2> QED BY <2>2, <2>3, <2>4
<1>12. ASSUME Finish(a) \/ PublishError(a)
       PROVE  BinariesInv'
    <2>1. Done(a) /\ rec' = rec /\ blobs' = blobs /\ op[a].pc # "rows"
        BY <1>12 DEF Finish, PublishError
    <2>2. CASE vers' = vers
        BY <1>2, <2>1, <2>2
    <2>3. CASE op[a].kind \in {"install", "update"} /\ SaveVersion(op[a].new)
        <3>1. op[a].kind \in Changing
            BY <2>3 DEF Changing, Kinds
        <3>2. op'[a].pc \notin {"runtime", "save"}
            BY <2>1, OnlyOne, IdleTyped
        <3>3. \A x \in Named' : x \in Named \/ (x.key = op[a].new.key /\ x.bin = op[a].new.bin)
            BY <2>1, <2>3 DEF Named, SaveVersion
        <3> QED BY <1>1, <2>1, <3>1, <3>2, <3>3, GoingOn, MoreHeld
    <2> QED BY <1>12, <2>2, <2>3 DEF Finish, PublishError
<1>13. CASE CleanupBlobs(a)
    <2>1. op[a].kind = "delete" /\ Goto(a, "rows") /\ UNCHANGED <<rec, vers>>
        BY <1>13, RequestFacts DEF CleanupBlobs, db
    <2>2. \A b \in Requests : Continues(b)
        BY <2>1, GoingOn
    <2>3. \A b \in Requests : op'[b].kind \notin Changing
        <3>1. \A b \in Requests \ {a} : op'[b].kind = "none"
            BY <1>0, <2>1, OnlyOne DEF Alone
        <3>2. op'[a].kind = "delete"
            BY <2>1, OnlyOne
        <3> QED BY <3>1, <3>2 DEF Changing, Kinds
    <2>4. op'[a].pc = "rows"
        BY <2>1, OnlyOne
    <2>5. Named' = Named
        BY <2>1 DEF Named
    <2> QED BY <2>1, <2>2, <2>3, <2>4, <2>5, LessHeld
<1>14. CASE DeleteRows(a)
    <2>1. op[a].kind = "delete" /\ Goto(a, "finish") /\ rec' = None /\ vers' = {}
        BY <1>14, RequestFacts DEF DeleteRows
    <2>2. \A b \in Requests : Continues(b)
        BY <2>1, GoingOn
    <2>3. \A b \in Requests : op'[b].kind \notin Changing
        <3>1. \A b \in Requests \ {a} : op'[b].kind = "none"
            BY <1>0, <2>1, OnlyOne DEF Alone
        <3>2. op'[a].kind = "delete"
            BY <2>1, OnlyOne
        <3> QED BY <3>1, <3>2 DEF Changing, Kinds
    <2>4. Named' = {}
        BY <2>1 DEF Named
    <2> QED BY <2>1, <2>2, <2>3, <2>4, LessHeld
<1>15. CASE DropVersion(a)
    <2>1. PICK v : v = op[a].new
        OBVIOUS
    <2>2. /\ op[a].kind = "drop" /\ Done(a) /\ rec' = rec /\ vers' = vers \ {v}
          /\ IF \E w \in vers \ {v} : w.key = v.key THEN UNCHANGED blobs ELSE DeleteBlobs({v.key})
        BY <1>15, <2>1, RequestFacts DEF DropVersion
    <2>3. rec # None => rec.key # v.key
        BY <1>0, <2>1, <2>2 DEF Spares
    <2>4. \A b \in Requests \ {a} : op[b].kind = "none"
        BY <1>0, <2>2 DEF Alone
    <2>5. \A b \in Requests : op[b].pc # "rows"
        BY <1>1, <2>2, <2>4
    <2>6. Named' \subseteq Named
        BY <2>2 DEF Named
    <2>7. \A x \in Named : x.key \in Keys
        BY DEF Named, LifecycleTyped, StoresTyped, Plugins, Versions
    <2>8. \A x \in Named' : blobs'[x.key] = blobs[x.key]
        <3>1. CASE \E w \in vers \ {v} : w.key = v.key
            BY <2>2, <3>1
        <3>2. CASE ~\E w \in vers \ {v} : w.key = v.key
            <4>1. \A k \in Keys : k # v.key => blobs'[k] = blobs[k]
                BY <2>2, <3>2 DEF DeleteBlobs
            <4>2. \A x \in Named' : x.key # v.key
                BY <2>2, <2>3, <3>2 DEF Named
            <4> QED BY <2>6, <2>7, <4>1, <4>2
        <3> QED BY <3>1, <3>2
    <2>9. \A x \in Named' : blobs'[x.key] = x.bin
        BY <2>5, <2>6, <2>8 DEF BinariesInv, OnRecord
    <2>10. \A b \in Requests : Continues(b)
        BY <2>2, GoingOn
    <2>11. \A b \in Requests : op'[b].kind \notin Changing
        BY <2>2, <2>4, OnlyOne, IdleTyped DEF Changing, Kinds
    <2> QED BY <2>2, <2>6, <2>9, <2>10, <2>11, LessHeld
<1> QED BY <1>3, <1>4, <1>5, <1>6, <1>7, <1>9, <1>10, <1>11, <1>12, <1>13, <1>14, <1>15

LEMMA ReplicaStepsHeld ==
    ASSUME LifecycleTyped, BinariesInv, Fine, Fine', NEW r \in Replicas,
           \/ HandleEvent(r) \/ LoadFromStore(r) \/ LoadError(r)
           \/ Disconnect(r) \/ Reconnect(r) \/ Restart(r)
    PROVE  BinariesInv'
<1>1. UNCHANGED <<rec, vers, blobs>>
    BY DEF HandleEvent, LoadFromStore, LoadError, Disconnect, Reconnect, Restart, db
<1>2. CASE op' = op
    BY <1>1, <1>2, SameHeld DEF Continues
<1>3. CASE Restart(r)
    <2>1. \A a \in Requests : op'[a] = op[a] \/ op'[a] = Idle
        BY <1>3 DEF Restart
    <2>2. \A a \in Requests : Continues(a)
        BY <2>1, IdleTyped DEF Continues
    <2>3. ASSUME NEW a \in Requests, op[a].pc = "rows"
          PROVE  op'[a].pc = "rows"
        <3>1. op[a].at # r
            BY <1>3, <2>3 DEF Restart, Fine
        <3> QED BY <1>3, <2>3, <3>1 DEF Restart
    <2> QED BY <1>1, <2>2, <2>3, SameHeld
<1> QED BY <1>2, <1>3 DEF HandleEvent, LoadFromStore, LoadError, Disconnect, Reconnect

LEMMA UploadHeld ==
    ASSUME LifecycleTyped, BinariesInv, Fine, NEW k \in Binaries, Upload(k)
    PROVE  BinariesInv'
<1>1. blobs[k] = None /\ blobs' = [blobs EXCEPT ![k] = k] /\ UNCHANGED <<rec, vers, op>>
    BY DEF Upload, Put, db
<1>2. \A q \in Keys : q # k => blobs'[q] = blobs[q]
    BY <1>1 DEF LifecycleTyped, StoresTyped
<1>3. Named' = Named
    BY <1>1 DEF Named
<1>4. \A x \in Named : x.key \in Keys /\ x.bin \in Binaries
    BY DEF Named, LifecycleTyped, StoresTyped, Plugins, Versions
<1>5. \A b \in Requests : op[b].kind \in Changing => op[b].new.key \in Keys /\ op[b].new.bin \in Binaries
    BY RequestFacts DEF Plugins
<1>6. \A b \in Requests : Continues(b)
    BY <1>1 DEF Continues
<1>7. (\A b \in Requests : op'[b].pc # "rows") => \A x \in Named' : blobs'[x.key] = x.bin
    <2> SUFFICES ASSUME \A b \in Requests : op[b].pc # "rows", NEW x \in Named
                 PROVE  blobs'[x.key] = x.bin
        BY <1>1, <1>3
    <2>1. blobs[x.key] = x.bin
        BY DEF BinariesInv, OnRecord
    <2>2. x.key # k
        BY <1>1, <1>4, <2>1, NoneApart
    <2> QED BY <1>2, <1>4, <2>1, <2>2
<1>8. ASSUME NEW b \in Requests, op[b].kind \in Changing
      PROVE  blobs'[op[b].new.key] = op[b].new.bin
    <2>1. blobs[op[b].new.key] = op[b].new.bin
        BY <1>8 DEF BinariesInv, Holds
    <2>2. op[b].new.key # k
        BY <1>1, <1>5, <1>8, <2>1, NoneApart
    <2> QED BY <1>2, <1>5, <1>8, <2>1, <2>2
<1> QED BY <1>1, <1>3, <1>6, <1>7, <1>8, LessHeld

LEMMA BinariesStayHeld ==
    ASSUME LifecycleTyped, BinariesInv, [Next]_vars
    PROVE  BinariesInv'
<1> SUFFICES ASSUME Fine'
             PROVE  BinariesInv'
    BY DEF BinariesInv
<1>1. Fine
    BY OddityStays DEF Fine
<1>2. Tick \/ UNCHANGED vars => BinariesInv'
    <2>1. Tick \/ UNCHANGED vars => UNCHANGED <<rec, vers, blobs, op>>
        BY DEF Tick, vars, db
    <2> QED BY <1>1, <2>1, SameHeld DEF Continues
<1> QED BY <1>1, <1>2, BeginningsHeld, RequestStepsHeld, ReplicaStepsHeld, UploadHeld DEF Next

(* BinariesKept: the binary of the record and of every version is in the   *)
(* store as recorded, whatever requests overlap, except during and after a *)
(* delete that overlaps them.  An update that fails deletes only a binary  *)
(* that nothing else refers to.                                            *)
THEOREM BinariesStay == Spec => []BinariesKept
<1>1. Init => LifecycleTyped /\ BinariesInv
    <2> SUFFICES ASSUME Init
                 PROVE  LifecycleTyped /\ BinariesInv
        OBVIOUS
    <2>1. Named = {} /\ \A a \in Requests : op[a].kind = "none"
        BY IdleTyped DEF Init, Named
    <2> QED BY <2>1, LifecycleStartsTyped
            DEF BinariesInv, OnRecord, Holds, Owns, Alone, Spares, Changing, Kinds
<1>2. LifecycleTyped /\ BinariesInv /\ [Next]_vars => (LifecycleTyped /\ BinariesInv)'
    BY LifecycleStepTyped, BinariesStayHeld
<1>3. LifecycleTyped /\ BinariesInv => BinariesKept
    <2> SUFFICES ASSUME LifecycleTyped, BinariesInv, Fine,
                        \A a \in Requests : op[a].kind \notin {"delete", "drop"}
                 PROVE  \A x \in Named : blobs[x.key] = x.bin
        BY DEF BinariesKept, Fine, Named
    <2>1. \A a \in Requests : op[a].pc # "rows"
        BY RequestFacts
    <2> QED BY <2>1 DEF BinariesInv, OnRecord
<1> QED BY <1>1, <1>2, <1>3, PTL DEF Spec

-----------------------------------------------------------------------------
(* Replicas.                                                               *)

LEMMA OverlapIsNoted ==
    ASSUME [Next]_vars, "overlapped delete" \in odd => "overlap" \in odd
    PROVE  ("overlapped delete" \in odd => "overlap" \in odd)'
<1>a. \A kind : "overlapped delete" \in Oddities(kind) => "overlap" \in Oddities(kind)
    BY DEF Oddities
<1>b. \A a, kind, r, pc, new : Begin(a, kind, r, pc, new) => odd' = odd \cup Oddities(kind)
    BY DEF Begin
<1>1. \A a, kind, r, pc, new : Begin(a, kind, r, pc, new) => ("overlapped delete" \in odd' => "overlap" \in odd')
    BY <1>a, <1>b
<1>2. ASSUME NEW a \in Requests, NEW r \in Replicas,
             \/ Enable(a, r) \/ Disable(a, r) \/ Delete(a, r)
             \/ \E b \in Binaries : Update(a, r, b)
             \/ \E c \in Configs : UpdateConfig(a, r, c) \/ \E k \in Binaries : Install(a, r, k, c)
             \/ \E v \in vers : Rollback(a, r, v) \/ DeleteVersion(a, r, v)
      PROVE  "overlapped delete" \in odd' => "overlap" \in odd'
    BY <1>1, <1>2 DEF Enable, Disable, Delete, Update, UpdateConfig, Install, Rollback, DeleteVersion
<1>3. ASSUME NEW a \in Requests,
             \/ Runtime(a) \/ RuntimeError(a) \/ Save(a) \/ SaveMeta(a) \/ SaveError(a)
             \/ Stop(a) \/ Finish(a) \/ PublishError(a)
             \/ DeleteUnload(a) \/ CleanupBlobs(a) \/ DeleteRows(a) \/ DeleteError(a) \/ DropVersion(a)
      PROVE  odd' = odd \/ odd' = odd \cup {"half"}
    BY <1>3 DEF Runtime, RuntimeError, Save, SaveMeta, SaveError, Stop, Finish, PublishError,
                DeleteUnload, CleanupBlobs, DeleteRows, DeleteError, DropVersion, history
<1>4. ASSUME NEW r \in Replicas,
             \/ HandleEvent(r) \/ LoadFromStore(r) \/ LoadError(r)
             \/ Disconnect(r) \/ Reconnect(r) \/ Restart(r)
      PROVE  odd' = odd \/ odd' = odd \cup {"half"}
    BY <1>4 DEF HandleEvent, LoadFromStore, LoadError, Disconnect, Reconnect, Restart, history
<1>5. (\E b \in Binaries : Upload(b)) \/ Tick \/ UNCHANGED vars => odd' = odd
    BY DEF Upload, Tick, vars, history
<1>6. ASSUME odd' = odd \/ odd' = odd \cup {"half"}
      PROVE  "overlapped delete" \in odd' => "overlap" \in odd'
    <2>1. CASE odd' = odd
        BY <2>1
    <2>2. CASE odd' = odd \cup {"half"}
        <3>1. "overlapped delete" # "half"
            OBVIOUS
        <3> QED BY <2>2, <3>1
    <2> QED BY <1>6, <2>1, <2>2
<1>7. ASSUME NEW a \in Requests,
             \/ Runtime(a) \/ RuntimeError(a) \/ Save(a) \/ SaveMeta(a) \/ SaveError(a)
             \/ Stop(a) \/ Finish(a) \/ PublishError(a)
             \/ DeleteUnload(a) \/ CleanupBlobs(a) \/ DeleteRows(a) \/ DeleteError(a) \/ DropVersion(a)
      PROVE  "overlapped delete" \in odd' => "overlap" \in odd'
    BY <1>3, <1>6, <1>7
<1>8. ASSUME NEW r \in Replicas,
             \/ HandleEvent(r) \/ LoadFromStore(r) \/ LoadError(r)
             \/ Disconnect(r) \/ Reconnect(r) \/ Restart(r)
      PROVE  "overlapped delete" \in odd' => "overlap" \in odd'
    BY <1>4, <1>6, <1>8
<1>9. (\E b \in Binaries : Upload(b)) \/ Tick \/ UNCHANGED vars =>
         ("overlapped delete" \in odd' => "overlap" \in odd')
    BY <1>5
<1> QED BY <1>2, <1>7, <1>8, <1>9 DEF Next

(* A request that is under way, and none.                                  *)
LEMMA StillRunning ==
    ASSUME NEW a \in Requests, NEW n, n = op'[a], n.kind # "none",
           \A b \in Requests \ {a} : op'[b].kind = "none",
           \A r \in Replicas : inbox'[r] = <<>> /\ hand'[r].kind = "none",
           StoresAt(n)', Served(n)', \A r \in Replicas : Trails(n, r)'
    PROVE  ReplicasOK'
<1>1. ASSUME NEW b \in Requests
      PROVE  Single(b)' /\ Progress(op[b])'
    <2>1. CASE b = a
        <3>1. Single(b)'
            BY <2>1 DEF Single
        <3>2. PICK o : o = op'[b]
            OBVIOUS
        <3>3. Progress(o)'
            BY <2>1, <3>2 DEF Progress
        <3> QED BY <3>1, <3>2, <3>3
    <2>2. CASE b # a
        BY <2>2 DEF Single, Progress
    <2> QED BY <2>1, <2>2
<1>2. ~NoRequest'
    BY DEF NoRequest
<1> QED BY <1>1, <1>2 DEF ReplicasOK

LEMMA NoneRunning ==
    ASSUME \A b \in Requests : op'[b].kind = "none", metadata' = Describes(rec)',
           \A r \in Replicas : Caught(r)'
    PROVE  ReplicasOK'
BY DEF ReplicasOK, Single, Progress

LEMMA Settled ==
    ASSUME \A b \in Requests : op'[b].kind = "none", metadata' = Describes(rec)',
           \A r \in Replicas : inbox'[r] = <<>> /\ hand'[r].kind = "none",
           \A r \in Replicas : r \notin missed' => run'[r] = What(rec)'
    PROVE  ReplicasOK'
<1>1. \A r \in Replicas : Caught(r)'
    BY SMTT(30) DEF Caught
<1> QED BY <1>1, NoneRunning

LEMMA SameView ==
    ASSUME ReplicasOK, UNCHANGED <<rec, metadata, run, inbox, hand, op, missed>>
    PROVE  ReplicasOK'
BY DEF ReplicasOK, Single, Progress, StoresAt, Served, Trails, NoRequest, Caught, Expects, What, Describes,
       Result, Runs

(* A request that begins by itself finds the replicas at the record.       *)
LEMMA BeginsAlone ==
    ASSUME LifecycleTyped, ReplicasOK, Steady', NEW a \in Requests, NEW kind, NEW r \in Replicas, NEW pc, NEW new,
           kind # "none", pc \in {"runtime", "unload", "drop"} \/ (pc = "save" /\ kind = "disable"),
           Begin(a, kind, r, pc, new)
    PROVE  ReplicasOK'
<1>1. Quiet
    <2>1. odd' = odd \cup Oddities(kind)
        BY DEF Begin
    <2> QED BY <2>1 DEF Oddities, Steady
<1>2. \A b \in Requests : op[b].kind = "none"
    BY <1>1, RequestFacts DEF Quiet
<1>3. \A q \in Replicas : inbox[q] = <<>> /\ hand[q].kind = "none"
    BY <1>1 DEF Quiet
<1>4. metadata = Describes(rec) /\ \A q \in Replicas : q \notin missed => run[q] = What(rec)
    BY <1>2, <1>3 DEF ReplicasOK, NoRequest, Caught
<1>5. PICK n : n = [pc |-> pc, kind |-> kind, at |-> r, old |-> rec, new |-> new]
    OBVIOUS
<1>6. op' = [op EXCEPT ![a] = n] /\ UNCHANGED <<rec, metadata, run, inbox, hand, missed>>
    BY <1>5 DEF Begin, db
<1>7. n = op'[a] /\ \A b \in Requests \ {a} : op'[b] = op[b]
    BY <1>6 DEF LifecycleTyped, RequestsTyped
<1>8. n.pc = pc /\ n.kind = kind /\ n.at = r /\ n.old = rec
    BY <1>5
<1>9. StoresAt(n)'
    BY <1>4, <1>6, <1>8 DEF StoresAt, Describes
<1>10. Served(n)'
    <2>1. (r \in Replicas /\ r \notin missed) => run[r] = What(rec)
        BY <1>4
    <2> QED BY <1>6, <1>8, <2>1 DEF Served, What, Runs
<1>11. \A q \in Replicas : Trails(n, q)'
    BY <1>4, <1>6, <1>8 DEF Trails, What, Runs
<1> QED BY <1>2, <1>3, <1>6, <1>7, <1>8, <1>9, <1>10, <1>11, StillRunning

(* What is loaded, when the binary of the record is in the store.          *)
LEMMA WhatIs ==
    /\ What(None) = None
    /\ \A x \in Plugins : /\ x # None
                          /\ What(x) = IF x.enabled THEN Runs(x) ELSE None
                          /\ Runs(x) = [bin |-> x.bin, cfg |-> x.cfg] /\ Runs(x) # None
BY NoneApart, RunsTyped DEF What, Runs

LEMMA WithConfigIs ==
    ASSUME LifecycleTyped, NEW r \in Replicas, NEW x \in Plugins, NEW c \in Configs, NEW b,
           run[r] # None, run[r].bin = x.bin, blobs[x.key] = x.bin,
           b \in WithConfig(r, x.key, c)
    PROVE  b = [bin |-> x.bin, cfg |-> c]
<1>1. run[r] \in Loaded
    BY DEF LifecycleTyped, ReplicasTyped
<1>2. [run[r] EXCEPT !.cfg = c] = [bin |-> x.bin, cfg |-> c]
    BY <1>1 DEF Loaded
<1> QED BY <1>2 DEF WithConfig

LEMMA AutoloadIs ==
    ASSUME LifecycleTyped, rec # None => blobs[rec.key] = rec.bin
    PROVE  Autoload = What(rec)
<1>1. rec # None => rec \in Plugins /\ rec.bin # None
    BY NoneApart DEF LifecycleTyped, StoresTyped, Plugins
<1>2. rec = None => Autoload = What(rec)
    BY DEF Autoload, What
<1>3. ASSUME rec # None
      PROVE  Autoload = What(rec)
    BY <1>1, <1>3 DEF Autoload, What, Runs
<1> QED BY <1>2, <1>3

(* What is in the store: the record, unless rows are being deleted.        *)
LEMMA RecordInStore ==
    ASSUME LifecycleTyped, BinariesInv, Fine, \A b \in Requests : op[b].pc # "rows", rec # None
    PROVE  blobs[rec.key] = rec.bin
BY DEF BinariesInv, OnRecord, Named

LEMMA AppliedIs ==
    ASSUME LifecycleTyped, NEW a \in Requests, NEW o, o = op[a], o.pc = "runtime",
           run[o.at] = What(o.old), o.old # None => blobs[o.old.key] = o.old.bin,
           NEW x \in Applied(a)
    PROVE  x = What(o.new)
<1>1. o \in RequestState /\ RequestOK(o) /\ o.at \in Replicas /\ o.new \in Plugins
      /\ o.kind \in {"install", "enable", "update", "rollback", "config"}
    BY RequestFacts
<1>2. What(o.new) = IF o.new.enabled THEN Runs(o.new) ELSE None
    BY <1>1, WhatIs
<1>3. CASE o.kind \in {"install", "enable"}
    <2>1. o.new.enabled
        <3>1. o.kind = "enable" => o.new = [o.old EXCEPT !.enabled = TRUE] /\ o.old \in Plugins
            BY <1>1 DEF RequestOK
        <3>2. o.kind = "enable" => o.new.enabled
            BY <3>1 DEF Plugins
        <3> QED BY <1>1, <1>3, <3>2 DEF RequestOK
    <2>2. Applied(a) = {Runs(o.new)}
        BY <1>3 DEF Applied
    <2> QED BY <1>2, <2>1, <2>2
<1>4. CASE o.kind \in {"update", "rollback", "config"}
    <2>1. o.old \in Plugins
        BY <1>1, <1>4 DEF RequestOK
    <2>2. What(o.old) = (IF o.old.enabled THEN Runs(o.old) ELSE None) /\ Runs(o.old) # None
          /\ o.old # None
        BY <2>1, WhatIs
    <2>3. ASSUME o.kind = "config"
          PROVE  /\ o.new.enabled = o.old.enabled
                 /\ o.new.cfg \in Configs
                 /\ Runs(o.new) = [bin |-> o.old.bin, cfg |-> o.new.cfg]
        <3>1. PICK c \in Configs : o.new = [o.old EXCEPT !.cfg = c]
            BY <1>1, <2>3 DEF RequestOK
        <3> QED BY <2>1, <3>1 DEF Plugins, Runs
    <2>4. o.new.enabled = o.old.enabled
        BY <1>1, <1>4, <2>3 DEF RequestOK
    <2>5. CASE ~o.old.enabled
        <3>1. Applied(a) = {run[o.at]}
            BY <1>4, <2>5 DEF Applied
        <3> QED BY <1>2, <2>2, <2>4, <2>5, <3>1
    <2>6. CASE o.old.enabled
        <3>1. run[o.at] = Runs(o.old) /\ run[o.at] # None
            BY <2>2, <2>6
        <3>2. CASE o.kind = "config"
            <4>1. x \in WithConfig(o.at, o.old.key, o.new.cfg)
                BY <2>6, <3>1, <3>2 DEF Applied
            <4>2. run[o.at].bin = o.old.bin
                BY <3>1 DEF Runs
            <4>3. x = [bin |-> o.old.bin, cfg |-> o.new.cfg]
                BY <1>1, <2>1, <2>2, <2>3, <3>1, <3>2, <4>1, <4>2, WithConfigIs
            <4> QED BY <1>2, <2>3, <2>4, <2>6, <3>2, <4>3
        <3>3. CASE o.kind # "config"
            <4>1. Applied(a) = {Runs(o.new)}
                BY <1>4, <2>6, <3>1, <3>3 DEF Applied
            <4> QED BY <1>2, <2>4, <2>6, <4>1
        <3> QED BY <3>2, <3>3
    <2> QED BY <2>5, <2>6
<1> QED BY <1>1, <1>3, <1>4

(* Undoing what was applied restores what was there.                       *)
LEMMA RolledBackIs ==
    ASSUME LifecycleTyped, NEW a \in Requests, NEW o, o = op[a], o.pc = "save",
           run[o.at] = (IF o.kind = "disable" THEN What(o.old) ELSE What(o.new)),
           o.old # None => blobs[o.old.key] = o.old.bin,
           NEW x \in RolledBack(a)
    PROVE  x = What(o.old)
<1>1. o \in RequestState /\ RequestOK(o) /\ o.at \in Replicas /\ o.new \in Plugins
      /\ o.kind \in {"install", "enable", "disable", "update", "rollback", "config"}
    BY RequestFacts
<1>2. CASE o.kind \in {"install", "enable"}
    <2>1. RolledBack(a) = {None}
        BY <1>2 DEF RolledBack
    <2>2. o.kind = "install" => o.old = None
        BY <1>1 DEF RequestOK
    <2>3. o.kind = "enable" => o.old \in Plugins /\ ~o.old.enabled
        BY <1>1 DEF RequestOK
    <2> QED BY <1>2, <2>1, <2>2, <2>3, WhatIs
<1>3. CASE o.kind = "disable"
    <2>1. RolledBack(a) = {run[o.at]}
        BY <1>3 DEF RolledBack
    <2> QED BY <1>3, <2>1
<1>4. CASE o.kind \in {"update", "rollback", "config"}
    <2>1. o.old \in Plugins
        BY <1>1, <1>4 DEF RequestOK
    <2>2. What(o.old) = (IF o.old.enabled THEN Runs(o.old) ELSE None) /\ o.old # None
          /\ Runs(o.old) = [bin |-> o.old.bin, cfg |-> o.old.cfg] /\ o.old.bin # None
          /\ o.old.cfg \in Configs
        BY <2>1, WhatIs, NoneApart DEF Plugins
    <2>3. What(o.new) = (IF o.new.enabled THEN Runs(o.new) ELSE None) /\ Runs(o.new) # None
        BY <1>1, WhatIs
    <2>4. o.kind = "config" => o.new.enabled = o.old.enabled /\ o.new.bin = o.old.bin
        <3>1. o.kind = "config" => \E c \in Configs : o.new = [o.old EXCEPT !.cfg = c]
            BY <1>1 DEF RequestOK
        <3> QED BY <2>1, <3>1 DEF Plugins
    <2>5. o.new.enabled = o.old.enabled
        BY <1>1, <1>4, <2>4 DEF RequestOK
    <2>6. run[o.at] = What(o.new)
        BY <1>4
    <2>7. CASE ~o.old.enabled
        <3>1. RolledBack(a) = {run[o.at]}
            BY <1>4, <2>7 DEF RolledBack
        <3> QED BY <2>2, <2>3, <2>5, <2>6, <2>7, <3>1
    <2>8. CASE o.old.enabled
        <3>1. run[o.at] = Runs(o.new) /\ run[o.at] # None
            BY <2>3, <2>5, <2>6, <2>8
        <3>2. CASE o.kind = "config"
            <4>1. x \in WithConfig(o.at, o.old.key, o.old.cfg)
                BY <2>8, <3>1, <3>2 DEF RolledBack
            <4>2. run[o.at].bin = o.old.bin
                BY <2>4, <3>1, <3>2 DEF Runs
            <4>3. x = [bin |-> o.old.bin, cfg |-> o.old.cfg]
                BY <1>1, <2>1, <2>2, <3>1, <4>1, <4>2, WithConfigIs
            <4> QED BY <2>2, <2>8, <4>3
        <3>3. CASE o.kind # "config"
            <4>1. RolledBack(a) = {[bin |-> blobs[o.old.key], cfg |-> o.old.cfg]}
                BY <1>4, <2>2, <2>8, <3>1, <3>3 DEF RolledBack
            <4> QED BY <2>2, <2>8, <4>1
        <3> QED BY <3>2, <3>3
    <2> QED BY <2>7, <2>8
<1> QED BY <1>1, <1>2, <1>3, <1>4

LEMMA Underway ==
    ASSUME ReplicasOK, NEW a \in Requests, op[a].kind # "none"
    PROVE  /\ \A b \in Requests \ {a} : op[b].kind = "none"
           /\ \A r \in Replicas : inbox[r] = <<>> /\ hand[r].kind = "none"
           /\ StoresAt(op[a]) /\ Served(op[a]) /\ \A r \in Replicas : Trails(op[a], r)
BY DEF ReplicasOK, Single, Progress

LEMMA GoingInView ==
    ASSUME LifecycleTyped, ReplicasOK, NEW a \in Requests, NEW pc, Goto(a, pc), op[a].pc # "idle",
           UNCHANGED <<inbox, hand>>,
           NEW n, n = op'[a], StoresAt(n)', Served(n)', \A r \in Replicas : Trails(n, r)'
    PROVE  ReplicasOK'
<1>1. op[a].kind # "none"
    BY RequestFacts
<1>2. n.kind # "none" /\ \A b \in Requests \ {a} : op'[b].kind = "none"
    BY <1>1, OnlyOne, Underway
<1>3. \A r \in Replicas : inbox'[r] = <<>> /\ hand'[r].kind = "none"
    BY <1>1, Underway
<1> QED BY <1>2, <1>3, StillRunning

LEMMA DoneInView ==
    ASSUME LifecycleTyped, ReplicasOK, NEW a \in Requests, Done(a), op[a].pc # "idle",
           UNCHANGED <<inbox, hand>>, metadata' = Describes(rec)',
           \A r \in Replicas : r \notin missed' => run'[r] = What(rec)'
    PROVE  ReplicasOK'
<1>1. op[a].kind # "none"
    BY RequestFacts
<1>2. \A b \in Requests : op'[b].kind = "none"
    BY <1>1, OnlyOne, IdleTyped, Underway
<1>3. \A r \in Replicas : inbox'[r] = <<>> /\ hand'[r].kind = "none"
    BY <1>1, Underway
<1> QED BY <1>2, <1>3, Settled

LEMMA RequestStepsInView ==
    ASSUME LifecycleTyped, BinariesInv, Fine, ReplicasOK, Steady', NEW a \in Requests,
           \/ Runtime(a) \/ RuntimeError(a) \/ Save(a) \/ SaveMeta(a) \/ SaveError(a)
           \/ Stop(a) \/ DeleteUnload(a) \/ CleanupBlobs(a) \/ DeleteRows(a) \/ DeleteError(a) \/ DropVersion(a)
    PROVE  ReplicasOK'
<1>1. PICK o : o = op[a]
    OBVIOUS
<1>2. PICK n : n = op'[a]
    OBVIOUS
<1>3. o.pc # "idle"
    BY <1>1 DEF Runtime, RuntimeError, Save, SaveMeta, SaveError, Stop,
                DeleteUnload, CleanupBlobs, DeleteRows, DeleteError, DropVersion
<1>4. o.kind # "none" /\ RequestOK(o) /\ o.at \in Replicas
    BY <1>1, <1>3, RequestFacts
<1>5. /\ \A b \in Requests \ {a} : op[b].kind = "none"
      /\ StoresAt(o) /\ Served(o) /\ \A r \in Replicas : Trails(o, r)
    BY <1>1, <1>4, Underway
<1>6. \A b \in Requests \ {a} : op[b].pc # "rows"
    BY <1>5, RequestFacts
<1>7. \A pc : Goto(a, pc) => n.pc = pc /\ n.kind = o.kind /\ n.at = o.at /\ n.old = o.old /\ n.new = o.new
    BY <1>1, <1>2, OnlyOne
<1>8. rec = o.old /\ o.pc # "rows" /\ o.old # None => blobs[o.old.key] = o.old.bin
    BY <1>1, <1>6, RecordInStore
<1>9. run \in [Replicas -> Loaded \cup {None}]
    BY DEF LifecycleTyped, ReplicasTyped
<1>10. CASE Runtime(a)
    <2>1. o.pc = "runtime" /\ Goto(a, "save") /\ UNCHANGED <<rec, metadata, inbox, hand, missed>>
        BY <1>1, <1>10 DEF Runtime, db, history
    <2>2. rec = o.old /\ metadata = Describes(o.old)
        BY <1>5, <2>1 DEF StoresAt
    <2>3. PICK x \in Applied(a) : run' = [run EXCEPT ![o.at] = x]
        BY <1>1, <1>10 DEF Runtime
    <2>4. o.at \notin missed => x = What(o.new)
        BY <1>1, <1>5, <1>8, <2>1, <2>2, AppliedIs DEF Served
    <2>5. o.kind # "disable"
        BY <1>1, <2>1, RequestFacts
    <2>6. n.pc = "save" /\ n.kind = o.kind /\ n.at = o.at /\ n.old = o.old /\ n.new = o.new
        BY <1>7, <2>1
    <2>7. StoresAt(n)'
        BY <2>1, <2>2, <2>6 DEF StoresAt, Describes
    <2>8. Served(n)'
        BY <1>4, <1>9, <2>1, <2>3, <2>4, <2>5, <2>6 DEF Served, What, Runs
    <2>9. \A r \in Replicas : Trails(n, r)'
        BY <1>5, <1>9, <2>1, <2>3, <2>6 DEF Trails, What, Runs
    <2> QED BY <1>1, <1>2, <1>3, <2>1, <2>7, <2>8, <2>9, GoingInView
<1>11. CASE RuntimeError(a)
    <2>1. o.pc = "runtime" /\ Done(a) /\ UNCHANGED <<rec, metadata, run, inbox, hand, missed>>
        BY <1>1, <1>11 DEF RuntimeError, db
    <2>2. rec = o.old /\ metadata = Describes(o.old)
        BY <1>5, <2>1 DEF StoresAt
    <2>3. \A r \in Replicas : r \notin missed => run[r] = What(o.old)
        BY <1>5, <2>1 DEF Served, Trails
    <2>4. metadata' = Describes(rec)' /\ \A r \in Replicas : r \notin missed' => run'[r] = What(rec)'
        BY <2>1, <2>2, <2>3 DEF What, Describes, Runs
    <2> QED BY <1>1, <1>3, <2>1, <2>4, DoneInView
<1>12. CASE Save(a)
    <2>1. o.pc = "save" /\ rec' = o.new /\ UNCHANGED <<metadata, run, inbox, hand, missed>>
          /\ o.kind \in {"install", "enable", "disable", "update", "rollback", "config"} /\ o.new \in Plugins
        BY <1>1, <1>12, RequestFacts DEF Save, SavePlugin, history
    <2>2. rec = o.old /\ metadata = Describes(o.old)
        BY <1>5, <2>1 DEF StoresAt
    <2>3. PICK pc : pc = CASE op[a].kind = "disable" -> "stop" [] op[a].kind = "config" -> "finish" [] OTHER -> "meta"
        OBVIOUS
    <2>4. Goto(a, pc)
        BY <1>12, <2>3 DEF Save
    <2>5. pc = (IF o.kind = "disable" THEN "stop" ELSE IF o.kind = "config" THEN "finish" ELSE "meta")
        BY <1>1, <2>3
    <2>6. n.pc = pc /\ n.kind = o.kind /\ n.at = o.at /\ n.old = o.old /\ n.new = o.new
        BY <1>7, <2>4
    <2>7. o.kind \in {"disable", "config"} => Describes(o.new) = Describes(o.old)
        <3>1. o.kind \in {"disable", "config"} => o.old \in Plugins
                 /\ (o.new = [o.old EXCEPT !.enabled = FALSE] \/ \E c \in Configs : o.new = [o.old EXCEPT !.cfg = c])
            BY <1>4 DEF RequestOK
        <3>2. o.kind \in {"disable", "config"} => o.new.bin = o.old.bin /\ o.old # None /\ o.new # None
            BY <2>1, <3>1, WhatIs DEF Plugins
        <3> QED BY <3>2 DEF Describes
    <2>8. StoresAt(n)'
        BY <2>1, <2>2, <2>5, <2>6, <2>7 DEF StoresAt, Describes, Result
    <2>9. Served(n)'
        BY <1>5, <2>1, <2>5, <2>6 DEF Served, What, Runs, Result
    <2>10. \A r \in Replicas : Trails(n, r)'
        BY <1>5, <2>1, <2>5, <2>6 DEF Trails, What, Runs
    <2> QED BY <1>1, <1>2, <1>3, <2>1, <2>4, <2>8, <2>9, <2>10, GoingInView
<1>13. CASE SaveMeta(a)
    <2>1. o.pc = "meta" /\ metadata' = o.new.bin /\ Goto(a, "finish") /\ UNCHANGED <<rec, run, inbox, hand, missed>>
          /\ o.kind \in {"install", "enable", "update", "rollback"} /\ o.new \in Plugins
        BY <1>1, <1>13, RequestFacts DEF SaveMeta, SavePluginMetadata, history
    <2>2. rec = o.new
        BY <1>5, <2>1 DEF StoresAt
    <2>3. n.pc = "finish" /\ n.kind = o.kind /\ n.at = o.at /\ n.old = o.old /\ n.new = o.new
        BY <1>7, <2>1
    <2>4. StoresAt(n)'
        BY <2>1, <2>2, <2>3, WhatIs DEF StoresAt, Describes, Result
    <2>5. Served(n)'
        BY <1>5, <2>1, <2>3 DEF Served, What, Runs, Result
    <2>6. \A r \in Replicas : Trails(n, r)'
        BY <1>5, <2>1, <2>3 DEF Trails, What, Runs
    <2> QED BY <1>1, <1>2, <1>3, <2>1, <2>4, <2>5, <2>6, GoingInView
<1>14. CASE SaveError(a)
    <2>1. o.pc \in {"save", "meta"} /\ Done(a) /\ UNCHANGED <<inbox, hand>>
        BY <1>1, <1>14 DEF SaveError
    <2>2. o.pc = "meta" => o.kind = "install"
        BY <1>1, <1>14 DEF SaveError, Steady
    <2>3. o.kind = "install" => o.old = None
        BY <1>4 DEF RequestOK
    <2>4. o.pc = "save" => rec = o.old /\ metadata = Describes(o.old)
        BY <1>5 DEF StoresAt
    <2>5. IF o.kind = "install" THEN rec' = None /\ metadata' = None ELSE UNCHANGED <<rec, metadata>>
        BY <1>1, <1>14 DEF SaveError
    <2>6. rec' = o.old /\ metadata' = Describes(o.old)
        BY <2>1, <2>2, <2>3, <2>4, <2>5 DEF Describes
    <2>7. PICK x \in RolledBack(a) : run' = [run EXCEPT ![o.at] = x]
        BY <1>1, <1>14 DEF SaveError
    <2>8. missed' = (IF o.kind = "install" /\ o.pc = "meta"
                     THEN missed \cup {q \in Replicas \ {o.at} : run[q] # None} ELSE missed)
        BY <1>1, <1>14 DEF SaveError
    <2>9. o.at \notin missed => x = What(o.old)
        <3>1. CASE o.pc = "save"
            BY <1>1, <1>5, <1>8, <2>4, <3>1, RolledBackIs DEF Served
        <3>2. CASE o.pc = "meta"
            <4>1. x = None
                BY <1>1, <2>2, <2>7, <3>2 DEF RolledBack
            <4> QED BY <2>2, <2>3, <3>2, <4>1, WhatIs
        <3> QED BY <2>1, <3>1, <3>2
    <2>10. ASSUME NEW r \in Replicas, r # o.at, r \notin missed'
           PROVE  run[r] = What(o.old)
        <3>1. CASE o.pc = "save"
            BY <1>5, <2>8, <2>10, <3>1 DEF Trails
        <3>2. CASE o.pc = "meta"
            BY <2>2, <2>3, <2>8, <2>10, <3>2, WhatIs
        <3> QED BY <2>1, <3>1, <3>2
    <2>11. ASSUME NEW r \in Replicas, r \notin missed'
           PROVE  run'[r] = What(rec)'
        <3>1. run'[r] = What(o.old)
            BY <1>4, <1>9, <2>7, <2>8, <2>9, <2>10, <2>11
        <3> QED BY <2>6, <3>1 DEF What, Runs
    <2>12. metadata' = Describes(rec)'
        BY <2>6 DEF Describes
    <2> QED BY <1>1, <1>3, <2>1, <2>11, <2>12, DoneInView
<1>15. CASE Stop(a)
    <2>1. o.pc = "stop" /\ o.kind = "disable" /\ Goto(a, "finish") /\ run' = [run EXCEPT ![o.at] = None]
          /\ UNCHANGED <<rec, metadata, inbox, hand, missed>>
        BY <1>1, <1>15, RequestFacts DEF Stop, db, history
    <2>2. n.pc = "finish" /\ n.kind = o.kind /\ n.at = o.at /\ n.old = o.old /\ n.new = o.new
        BY <1>7, <2>1
    <2>3. What(o.new) = None
        <3>1. o.old \in Plugins /\ o.new = [o.old EXCEPT !.enabled = FALSE]
            BY <1>4, <2>1 DEF RequestOK
        <3>2. ~o.new.enabled
            BY <3>1 DEF Plugins
        <3> QED BY <3>2 DEF What
    <2>4. StoresAt(n)'
        BY <1>5, <2>1, <2>2 DEF StoresAt, Describes, Result
    <2>5. Served(n)'
        BY <1>4, <1>9, <2>1, <2>2, <2>3 DEF Served, What, Runs, Result
    <2>6. \A r \in Replicas : Trails(n, r)'
        BY <1>5, <1>9, <2>1, <2>2 DEF Trails, What, Runs
    <2> QED BY <1>1, <1>2, <1>3, <2>1, <2>4, <2>5, <2>6, GoingInView
<1>16. CASE DeleteUnload(a)
    <2>1. o.pc = "unload" /\ o.kind = "delete" /\ Goto(a, "blobs") /\ run' = [run EXCEPT ![o.at] = None]
          /\ UNCHANGED <<rec, metadata, inbox, hand, missed>>
        BY <1>1, <1>16, RequestFacts DEF DeleteUnload, db, history
    <2>2. n.pc = "blobs" /\ n.kind = o.kind /\ n.at = o.at /\ n.old = o.old /\ n.new = o.new
        BY <1>7, <2>1
    <2>4. StoresAt(n)'
        BY <1>5, <2>1, <2>2 DEF StoresAt, Describes, Result
    <2>5. Served(n)'
        BY <1>4, <1>9, <2>1, <2>2 DEF Served
    <2>6. \A r \in Replicas : Trails(n, r)'
        BY <1>5, <1>9, <2>1, <2>2 DEF Trails, What, Runs
    <2> QED BY <1>1, <1>2, <1>3, <2>1, <2>4, <2>5, <2>6, GoingInView
<1>17. CASE CleanupBlobs(a)
    <2>1. o.pc = "blobs" /\ o.kind = "delete" /\ Goto(a, "rows")
          /\ UNCHANGED <<rec, metadata, run, inbox, hand, missed>>
        BY <1>1, <1>17, RequestFacts DEF CleanupBlobs, db, history
    <2>2. n.pc = "rows" /\ n.kind = o.kind /\ n.at = o.at /\ n.old = o.old /\ n.new = o.new
        BY <1>7, <2>1
    <2>4. StoresAt(n)'
        BY <1>5, <2>1, <2>2 DEF StoresAt, Describes, Result
    <2>5. Served(n)'
        BY <1>5, <2>1, <2>2 DEF Served
    <2>6. \A r \in Replicas : Trails(n, r)'
        BY <2>2 DEF Trails
    <2> QED BY <1>1, <1>2, <1>3, <2>1, <2>4, <2>5, <2>6, GoingInView
<1>18. CASE DeleteRows(a)
    <2>1. o.pc = "rows" /\ o.kind = "delete" /\ Goto(a, "finish") /\ rec' = None /\ metadata' = None
          /\ UNCHANGED <<run, inbox, hand, missed>>
        BY <1>1, <1>18, RequestFacts DEF DeleteRows, history
    <2>2. n.pc = "finish" /\ n.kind = o.kind /\ n.at = o.at /\ n.old = o.old /\ n.new = o.new
        BY <1>7, <2>1
    <2>4. StoresAt(n)'
        BY <2>1, <2>2 DEF StoresAt, Describes, Result
    <2>5. Served(n)'
        BY <1>5, <2>1, <2>2, WhatIs DEF Served, What, Runs, Result
    <2>6. \A r \in Replicas : Trails(n, r)'
        BY <2>1, <2>2 DEF Trails
    <2> QED BY <1>1, <1>2, <1>3, <2>1, <2>4, <2>5, <2>6, GoingInView
<1>19. CASE DeleteError(a)
    <2>1. FALSE
        BY <1>19 DEF DeleteError, Steady
    <2> QED BY <2>1
<1>20. CASE DropVersion(a)
    <2>1. o.pc = "drop" /\ Done(a) /\ UNCHANGED <<rec, metadata, run, inbox, hand, missed>>
        BY <1>1, <1>20 DEF DropVersion, history
    <2>2. rec = o.old /\ metadata = Describes(o.old)
        BY <1>5, <2>1 DEF StoresAt
    <2>3. \A r \in Replicas : r \notin missed => run[r] = What(o.old)
        BY <1>5, <2>1 DEF Served, Trails
    <2>4. metadata' = Describes(rec)' /\ \A r \in Replicas : r \notin missed' => run'[r] = What(rec)'
        BY <2>1, <2>2, <2>3 DEF What, Describes, Runs
    <2> QED BY <1>1, <1>3, <2>1, <2>4, DoneInView
<1> QED BY <1>10, <1>11, <1>12, <1>13, <1>14, <1>15, <1>16, <1>17, <1>18, <1>19, <1>20

LEMMA EndsInView ==
    ASSUME LifecycleTyped, ReplicasOK, NEW a \in Requests, Finish(a) \/ PublishError(a)
    PROVE  ReplicasOK'
<1>1. PICK o : o = op[a]
    OBVIOUS
<1>2. o.pc = "finish" /\ Done(a) /\ UNCHANGED <<rec, metadata, run, hand>>
    BY <1>1 DEF Finish, PublishError
<1>3. o.kind \in Kinds /\ o.kind # "none" /\ RequestOK(o) /\ o.at \in Replicas
    BY <1>1, <1>2, RequestFacts
<1>4. /\ \A b \in Requests \ {a} : op[b].kind = "none"
      /\ \A r \in Replicas : inbox[r] = <<>> /\ hand[r].kind = "none"
      /\ StoresAt(o) /\ Served(o) /\ \A r \in Replicas : Trails(o, r)
    BY <1>1, <1>3, Underway
<1>5. \A b \in Requests : op'[b].kind = "none"
    BY <1>2, <1>4, OnlyOne, IdleTyped
<1>6. rec = Result(o) /\ metadata = Describes(rec)
    BY <1>2, <1>4 DEF StoresAt
<1>7. metadata' = Describes(rec)'
    BY <1>2, <1>6 DEF Describes
<1>8. o.at \notin missed => run[o.at] = What(rec)
    BY <1>2, <1>4, <1>6 DEF Served
<1>9. CASE PublishError(a)
    <2>1. missed' = missed \cup (Replicas \ {o.at}) /\ inbox' = inbox
        BY <1>1, <1>9 DEF PublishError
    <2>2. \A r \in Replicas : r \notin missed' => run'[r] = What(rec)'
        BY <1>2, <1>8, <2>1 DEF What, Runs
    <2>3. \A r \in Replicas : inbox'[r] = <<>> /\ hand'[r].kind = "none"
        BY <1>2, <1>4, <2>1
    <2> QED BY <1>5, <1>7, <2>2, <2>3, Settled
<1>10. CASE Finish(a)
    <2>1. PICK kind : kind = o.kind
        OBVIOUS
    <2>2. /\ inbox' = [q \in Replicas |-> IF q \in Replicas \ {o.at} /\ listening[q]
                                          THEN Append(inbox[q], kind) ELSE inbox[q]]
          /\ missed' = missed \cup {q \in Replicas \ {o.at} : ~listening[q]}
        BY <1>1, <1>10, <2>1 DEF Finish, Publish
    <2>3. ASSUME NEW r \in Replicas
          PROVE  Caught(r)'
        <3>1. hand'[r].kind = "none"
            BY <1>2, <1>4
        <3>2. CASE r = o.at
            <4>1. inbox'[r] = <<>>
                BY <1>4, <2>2, <3>2
            <4>2. r \notin missed' => run'[r] = What(rec)'
                BY <1>2, <1>8, <2>2, <3>2 DEF What, Runs
            <4> QED BY <3>1, <4>1, <4>2 DEF Caught
        <3>3. CASE r # o.at /\ ~listening[r]
            BY <2>2, <3>3 DEF Caught
        <3>4. CASE r # o.at /\ listening[r]
            <4>1. inbox'[r] = Append(<<>>, kind)
                BY <1>4, <2>2, <3>4
            <4>2. inbox'[r] # <<>> /\ Tail(inbox'[r]) = <<>> /\ Head(inbox'[r]) = kind
                BY <1>3, <2>1, <4>1
            <4>3. ASSUME r \notin missed
                  PROVE  Expects(kind, r)
                <5>1. kind # "delete" => run[r] \in {What(o.old), What(o.new)}
                    BY <1>2, <1>4, <2>1, <3>4, <4>3 DEF Trails
                <5>2. kind # "delete" => rec = o.new /\ o.new \in Plugins
                    BY <1>3, <1>6, <2>1 DEF Result, RequestOK, Changing
                <5>3. kind = "delete" => What(rec) = None
                    BY <1>6, <2>1, WhatIs DEF Result
                <5>4. kind = "disable" => What(rec) = None
                    <6>1. kind = "disable" => o.old \in Plugins /\ o.new = [o.old EXCEPT !.enabled = FALSE]
                        BY <1>3, <2>1 DEF RequestOK
                    <6>2. kind = "disable" => ~o.new.enabled
                        BY <6>1 DEF Plugins
                    <6> QED BY <5>2, <6>2, WhatIs
                <5>5. ASSUME kind \in {"install", "enable"}
                      PROVE  What(rec) # None
                    <6>1. o.new.enabled
                        <7>1. kind = "enable" => o.old \in Plugins /\ o.new = [o.old EXCEPT !.enabled = TRUE]
                            BY <1>3, <2>1 DEF RequestOK
                        <7>2. kind = "enable" => o.new.enabled
                            BY <7>1 DEF Plugins
                        <7> QED BY <1>3, <2>1, <5>5, <7>2 DEF RequestOK
                    <6> QED BY <5>2, <5>5, <6>1, WhatIs
                <5>6. ASSUME kind \in {"update", "rollback", "config"}
                      PROVE  o.old \in Plugins /\ o.new.enabled = o.old.enabled
                             /\ (kind = "config" => o.new.bin = o.old.bin)
                    <6>1. o.old \in Plugins
                        BY <1>3, <2>1, <5>6 DEF RequestOK
                    <6>2. kind = "config" => \E c \in Configs : o.new = [o.old EXCEPT !.cfg = c]
                        BY <1>3, <2>1 DEF RequestOK
                    <6>3. kind = "config" => o.new.enabled = o.old.enabled /\ o.new.bin = o.old.bin
                        BY <6>1, <6>2 DEF Plugins
                    <6>4. kind # "config" => o.new.enabled = o.old.enabled
                        BY <1>3, <2>1, <5>6 DEF RequestOK
                    <6> QED BY <6>1, <6>3, <6>4
                <5>7. ASSUME kind \notin {"disable", "delete"}, What(rec) = None
                      PROVE  run[r] = None
                    <6>1. kind \in {"update", "rollback", "config"}
                        BY <1>3, <2>1, <5>5, <5>7 DEF Kinds
                    <6>2. ~o.new.enabled
                        BY <5>2, <5>7, WhatIs
                    <6>3. What(o.old) = None /\ What(o.new) = None
                        BY <5>2, <5>6, <5>7, <6>1, <6>2, WhatIs
                    <6> QED BY <5>1, <5>7, <6>3
                <5>8. ASSUME kind = "config", What(rec) # None
                      PROVE  run[r] # None /\ run[r].bin = rec.bin
                    <6>1. o.new.enabled /\ o.old.enabled
                        BY <5>2, <5>6, <5>8, WhatIs
                    <6>2. What(o.old) = [bin |-> o.old.bin, cfg |-> o.old.cfg] /\ What(o.old) # None
                        BY <5>6, <5>8, <6>1, WhatIs
                    <6>3. What(o.new) = [bin |-> o.new.bin, cfg |-> o.new.cfg] /\ What(o.new) # None
                        BY <5>2, <5>8, <6>1, WhatIs
                    <6> QED BY <5>1, <5>2, <5>6, <5>8, <6>2, <6>3
                <5> QED BY <5>3, <5>4, <5>7, <5>8 DEF Expects
            <4>4. r \notin missed => Expects(kind, r)'
                BY <1>2, <4>3 DEF Expects, What, Runs
            <4>5. PICK h : h = Head(inbox'[r])
                OBVIOUS
            <4>6. r \notin missed' => Expects(h, r)'
                BY <2>2, <4>2, <4>4, <4>5
            <4> QED BY <3>1, <4>2, <4>5, <4>6 DEF Caught
        <3> QED BY <3>2, <3>3, <3>4
    <2> QED BY <1>5, <1>7, <2>3, NoneRunning
<1> QED BY <1>9, <1>10

(* A notification on its way, or being handled, means that no request runs. *)
LEMMA Mailed ==
    ASSUME LifecycleTyped, ReplicasOK, NEW r \in Replicas, inbox[r] # <<>> \/ hand[r].kind # "none"
    PROVE  /\ \A b \in Requests : op[b].kind = "none" /\ op[b].pc # "rows"
           /\ metadata = Describes(rec) /\ \A q \in Replicas : Caught(q)
<1>1. \A b \in Requests : op[b].kind = "none"
    BY Underway
<1>2. \A b \in Requests : op[b].pc # "rows"
    BY <1>1, RequestFacts
<1> QED BY <1>1, <1>2 DEF ReplicasOK, NoRequest

(* What happens to one replica leaves the others caught up.                *)
LEMMA OthersCaught ==
    ASSUME NEW r \in Replicas, \A q \in Replicas : Caught(q), UNCHANGED rec, missed \ {r} \subseteq missed',
           \A q \in Replicas \ {r} : run'[q] = run[q] /\ inbox'[q] = inbox[q] /\ hand'[q] = hand[q]
    PROVE  \A q \in Replicas \ {r} : Caught(q)'
<1> TAKE q \in Replicas \ {r}
<1>1. q \notin missed' => q \notin missed
    OBVIOUS
<1>2. PICK h : h = Head(inbox[q])
    OBVIOUS
<1>3. PICK k : k = hand[q].kind
    OBVIOUS
<1>4. q \notin missed =>
        /\ inbox[q] = <<>> /\ k = "none" => run[q] = What(rec)
        /\ inbox[q] # <<>> => Tail(inbox[q]) = <<>> /\ k = "none" /\ Expects(h, q)
        /\ k # "none" => inbox[q] = <<>> /\ hand[q].rec = rec /\ What(rec) # None /\ Expects(k, q)
    BY <1>2, <1>3 DEF Caught
<1>5. \A kind : Expects(kind, q) => Expects(kind, q)'
    BY DEF Expects, What, Runs
<1>6. What(rec)' = What(rec)
    BY DEF What, Runs
<1>7. Head(inbox'[q]) = h /\ hand'[q].kind = k
    BY <1>2, <1>3
<1> QED BY <1>1, <1>4, <1>5, <1>6, <1>7 DEF Caught

LEMMA HandledInView ==
    ASSUME LifecycleTyped, ReplicasOK, NEW r \in Replicas, HandleEvent(r)
    PROVE  ReplicasOK'
<1>1. inbox[r] # <<>> /\ hand[r].kind = "none"
    BY DEF HandleEvent
<1>2. UNCHANGED <<rec, metadata, op, missed>>
    BY DEF HandleEvent, db, history
<1>3. \A b \in Requests : op[b].kind = "none"
    BY <1>1, Mailed
<1>4. metadata = Describes(rec) /\ \A q \in Replicas : Caught(q)
    BY <1>1, Mailed
<1>5. PICK kind : kind = Head(inbox[r])
    OBVIOUS
<1>6. PICK h : h = [kind |-> kind, rec |-> rec]
    OBVIOUS
<1>7. /\ inbox' = [inbox EXCEPT ![r] = Tail(@)]
      /\ kind \in {"disable", "delete"} => run' = [run EXCEPT ![r] = None] /\ hand' = hand
      /\ kind \notin {"disable", "delete"} =>
            /\ run' = run
            /\ hand' = IF rec = None \/ (rec # None /\ ~rec.enabled) THEN hand
                       ELSE IF kind = "config" /\ run[r] = None THEN hand
                       ELSE [hand EXCEPT ![r] = h]
    BY <1>5, <1>6 DEF HandleEvent
<1>8. /\ run \in [Replicas -> Loaded \cup {None}] /\ inbox \in [Replicas -> Seq(Kinds)]
      /\ hand \in [Replicas -> Handling]
    BY DEF LifecycleTyped, ReplicasTyped
<1>9. \A q \in Replicas \ {r} : run'[q] = run[q] /\ inbox'[q] = inbox[q] /\ hand'[q] = hand[q]
    BY <1>7, <1>8
<1>10. inbox[r] \in Seq(Kinds)
    BY <1>8
<1>11. kind \in Kinds
    BY <1>1, <1>5, <1>10
<1>12. Caught(r)'
    <2> SUFFICES ASSUME r \notin missed
                 PROVE  Caught(r)'
        BY <1>2 DEF Caught
    <2>1. Tail(inbox[r]) = <<>> /\ Expects(kind, r)
        BY <1>1, <1>4, <1>5 DEF Caught
    <2>2. inbox'[r] = <<>>
        BY <1>7, <1>8, <2>1
    <2>3. What(rec)' = What(rec)
        BY <1>2 DEF What, Runs
    <2>4. rec # None => rec \in Plugins
        BY DEF LifecycleTyped, StoresTyped
    <2>5. CASE kind \in {"disable", "delete"}
        <3>1. run'[r] = None /\ hand'[r].kind = "none"
            BY <1>1, <1>7, <1>8, <2>5
        <3>2. What(rec) = None
            BY <2>1, <2>5 DEF Expects
        <3> QED BY <2>2, <2>3, <3>1, <3>2 DEF Caught
    <2>6. CASE kind \notin {"disable", "delete"} /\ What(rec) = None
        <3>1. rec = None \/ (rec # None /\ ~rec.enabled)
            BY <2>4, <2>6, WhatIs
        <3>2. run'[r] = run[r] /\ hand'[r].kind = "none"
            BY <1>1, <1>7, <2>6, <3>1
        <3>3. run[r] = None
            BY <2>1, <2>6 DEF Expects
        <3> QED BY <2>2, <2>3, <2>6, <3>2, <3>3 DEF Caught
    <2>7. CASE kind \notin {"disable", "delete"} /\ What(rec) # None
        <3>1. rec # None /\ rec.enabled
            BY <2>4, <2>7, WhatIs
        <3>2. kind = "config" => run[r] # None
            BY <2>1, <2>7 DEF Expects
        <3>3. run' = run /\ hand' = [hand EXCEPT ![r] = h]
            BY <1>7, <2>7, <3>1, <3>2
        <3>4. hand'[r].kind = kind /\ hand'[r].rec = rec
            BY <1>6, <1>8, <3>3
        <3>5. Expects(kind, r)'
            BY <1>2, <2>1, <3>3 DEF Expects, What, Runs
        <3>6. kind # "none"
            BY <1>11 DEF Kinds
        <3>7. PICK k : k = hand'[r].kind
            OBVIOUS
        <3>8. Expects(k, r)'
            BY <3>4, <3>5, <3>7
        <3> QED BY <1>2, <2>2, <2>3, <2>7, <3>4, <3>6, <3>7, <3>8 DEF Caught
    <2> QED BY <2>5, <2>6, <2>7
<1>13. \A q \in Replicas : Caught(q)'
    BY <1>2, <1>4, <1>9, <1>12, OthersCaught
<1>14. metadata' = Describes(rec)'
    BY <1>2, <1>4 DEF Describes
<1> QED BY <1>2, <1>3, <1>13, <1>14, NoneRunning

LEMMA LoadedInView ==
    ASSUME LifecycleTyped, BinariesInv, Fine, ReplicasOK, NEW r \in Replicas, LoadFromStore(r) \/ LoadError(r)
    PROVE  ReplicasOK'
<1>1. hand[r].kind # "none" /\ Unhand(r) /\ UNCHANGED <<rec, metadata, op, inbox>>
    BY DEF LoadFromStore, LoadError, db
<1>2. /\ \A b \in Requests : op[b].kind = "none"
      /\ \A b \in Requests : op[b].pc # "rows"
      /\ metadata = Describes(rec) /\ \A q \in Replicas : Caught(q)
    BY <1>1, Mailed
<1>3. /\ run \in [Replicas -> Loaded \cup {None}] /\ inbox \in [Replicas -> Seq(Kinds)]
      /\ hand \in [Replicas -> Handling]
    BY DEF LifecycleTyped, ReplicasTyped
<1>4. (\A q \in Replicas \ {r} : hand'[q] = hand[q]) /\ hand'[r].kind = "none"
    <2>1. PICK h : h = [kind |-> "none", rec |-> None]
        OBVIOUS
    <2>2. hand' = [hand EXCEPT ![r] = h] /\ h.kind = "none"
        BY <1>1, <2>1 DEF Unhand
    <2> QED BY <1>3, <2>2
<1>5. metadata' = Describes(rec)'
    BY <1>1, <1>2 DEF Describes
<1>6. CASE LoadError(r)
    <2>1. missed' = missed \cup {r} /\ run' = run
        BY <1>6 DEF LoadError
    <2>2. Caught(r)'
        BY <2>1 DEF Caught
    <2>3. \A q \in Replicas : Caught(q)'
        BY <1>1, <1>2, <1>4, <2>1, <2>2, OthersCaught
    <2> QED BY <1>1, <1>2, <1>5, <2>3, NoneRunning
<1>7. CASE LoadFromStore(r)
    <2>1. PICK x \in Follow(r) : run' = [run EXCEPT ![r] = x]
        BY <1>7 DEF LoadFromStore
    <2>2. missed' = missed
        BY <1>7 DEF LoadFromStore, history
    <2>3. ASSUME r \notin missed
          PROVE  x = What(rec) /\ inbox[r] = <<>>
        <3>1. PICK k : k = hand[r].kind
            OBVIOUS
        <3>2. /\ inbox[r] = <<>> /\ hand[r].rec = rec /\ What(rec) # None /\ Expects(k, r)
            BY <1>1, <1>2, <2>3, <3>1 DEF Caught
        <3>3. rec \in Plugins /\ rec # None
            BY <3>2, WhatIs DEF LifecycleTyped, StoresTyped
        <3>4. What(rec) = [bin |-> rec.bin, cfg |-> rec.cfg] /\ rec.cfg \in Configs
            BY <3>2, <3>3, WhatIs DEF Plugins
        <3>5. blobs[rec.key] = rec.bin
            BY <1>2, <3>3, RecordInStore
        <3>6. CASE k = "config"
            <4>1. run[r] # None /\ run[r].bin = rec.bin
                BY <3>2, <3>6 DEF Expects
            <4>2. x \in WithConfig(r, rec.key, rec.cfg)
                BY <2>1, <3>1, <3>2, <3>6, <4>1 DEF Follow
            <4> QED BY <3>2, <3>3, <3>4, <3>5, <4>1, <4>2, WithConfigIs
        <3>7. CASE k # "config"
            <4>1. x = [bin |-> blobs[rec.key], cfg |-> rec.cfg]
                BY <2>1, <3>1, <3>2, <3>7 DEF Follow
            <4> QED BY <3>2, <3>4, <3>5, <4>1
        <3> QED BY <3>6, <3>7
    <2>4. What(rec)' = What(rec)
        BY <1>1 DEF What, Runs
    <2>5. Caught(r)'
        BY <1>1, <1>3, <1>4, <2>1, <2>2, <2>3, <2>4 DEF Caught
    <2>6. \A q \in Replicas \ {r} : run'[q] = run[q] /\ inbox'[q] = inbox[q] /\ hand'[q] = hand[q]
        BY <1>1, <1>3, <1>4, <2>1
    <2>7. \A q \in Replicas : Caught(q)'
        BY <1>1, <1>2, <2>2, <2>5, <2>6, OthersCaught
    <2> QED BY <1>1, <1>2, <1>5, <2>7, NoneRunning
<1> QED BY <1>6, <1>7

LEMMA DisconnectedInView ==
    ASSUME LifecycleTyped, ReplicasOK, NEW r \in Replicas, Disconnect(r)
    PROVE  ReplicasOK'
<1>1. /\ UNCHANGED <<rec, metadata, run, hand, op>>
      /\ inbox' = [inbox EXCEPT ![r] = <<>>]
      /\ missed' = IF inbox[r] = <<>> THEN missed ELSE missed \cup {r}
    BY DEF Disconnect, db
<1>2. inbox \in [Replicas -> Seq(Kinds)]
    BY DEF LifecycleTyped, ReplicasTyped
<1>3. CASE inbox[r] = <<>>
    <2>1. inbox' = inbox /\ missed' = missed
        BY <1>1, <1>2, <1>3
    <2> QED BY <1>1, <2>1, SameView
<1>4. CASE inbox[r] # <<>>
    <2>1. /\ \A b \in Requests : op[b].kind = "none"
          /\ metadata = Describes(rec) /\ \A q \in Replicas : Caught(q)
        BY <1>4, Mailed
    <2>2. Caught(r)'
        BY <1>1, <1>4 DEF Caught
    <2>3. \A q \in Replicas \ {r} : run'[q] = run[q] /\ inbox'[q] = inbox[q] /\ hand'[q] = hand[q]
        BY <1>1, <1>2
    <2>4. \A q \in Replicas : Caught(q)'
        BY <1>1, <2>1, <2>2, <2>3, OthersCaught
    <2>5. metadata' = Describes(rec)'
        BY <1>1, <2>1 DEF Describes
    <2> QED BY <1>1, <2>1, <2>4, <2>5, NoneRunning
<1> QED BY <1>3, <1>4

LEMMA RestartedInView ==
    ASSUME LifecycleTyped, BinariesInv, Fine, ReplicasOK, Steady', NEW r \in Replicas, Restart(r)
    PROVE  ReplicasOK'
<1>1. PICK x : x = Autoload
    OBVIOUS
<1>2. /\ UNCHANGED <<rec, metadata>>
      /\ run' = [run EXCEPT ![r] = x]
      /\ inbox' = [inbox EXCEPT ![r] = <<>>]
      /\ Unhand(r)
    BY <1>1 DEF Restart, db
<1>3. /\ run \in [Replicas -> Loaded \cup {None}] /\ inbox \in [Replicas -> Seq(Kinds)]
      /\ hand \in [Replicas -> Handling]
    BY DEF LifecycleTyped, ReplicasTyped
<1>4. (\A q \in Replicas \ {r} : hand'[q] = hand[q]) /\ hand'[r].kind = "none"
    <2>1. PICK h : h = [kind |-> "none", rec |-> None]
        OBVIOUS
    <2>2. hand' = [hand EXCEPT ![r] = h] /\ h.kind = "none"
        BY <1>2, <2>1 DEF Unhand
    <2> QED BY <1>3, <2>2
<1>5. /\ \A q \in Replicas \ {r} : run'[q] = run[q] /\ inbox'[q] = inbox[q] /\ hand'[q] = hand[q]
      /\ run'[r] = x /\ inbox'[r] = <<>>
    BY <1>2, <1>3, <1>4
<1>6. (\A b \in Requests : op[b].pc # "rows") => x = What(rec)
    BY <1>1, AutoloadIs, RecordInStore
<1>7. What(rec)' = What(rec) /\ Describes(rec)' = Describes(rec)
    BY <1>2 DEF What, Describes, Runs
<1>8. \A b \in Requests : op'[b] = IF op[b].at = r THEN Idle ELSE op[b]
    BY DEF Restart
<1>9. CASE \A b \in Requests : op[b].kind = "none"
    <2>1. \A b \in Requests : op[b].pc = "idle"
        BY <1>9, RequestFacts
    <2>2. missed' = missed \ {r}
        BY <2>1 DEF Restart
    <2>3. metadata = Describes(rec) /\ \A q \in Replicas : Caught(q)
        BY <1>9 DEF ReplicasOK, NoRequest
    <2>4. x = What(rec)
        BY <1>6, <2>1
    <2>5. Caught(r)'
        BY <1>4, <1>5, <1>7, <2>4 DEF Caught
    <2>6. \A q \in Replicas : Caught(q)'
        BY <1>2, <1>5, <2>2, <2>3, <2>5, OthersCaught
    <2>7. \A b \in Requests : op'[b].kind = "none"
        BY <1>8, <1>9, IdleTyped
    <2> QED BY <1>2, <1>7, <2>3, <2>6, <2>7, NoneRunning
<1>10. ASSUME NEW a \in Requests, op[a].kind # "none"
       PROVE  ReplicasOK'
    <2>1. PICK o : o = op[a]
        OBVIOUS
    <2>2. /\ \A b \in Requests \ {a} : op[b].kind = "none"
          /\ \A q \in Replicas : inbox[q] = <<>> /\ hand[q].kind = "none"
          /\ StoresAt(o) /\ Served(o) /\ \A q \in Replicas : Trails(o, q)
        BY <1>10, <2>1, Underway
    <2>3. RequestOK(o) /\ o \in RequestState /\ o.at \in Replicas /\ o.pc # "idle"
        BY <1>10, <2>1, RequestFacts DEF RequestOK
    <2>4. \A b \in Requests \ {a} : op[b].pc = "idle"
        BY <2>2, RequestFacts
    <2>5. o.pc # "rows" => x = What(rec)
        BY <1>6, <2>1, <2>4
    <2>6. \A q \in Replicas : inbox'[q] = <<>> /\ hand'[q].kind = "none"
        BY <1>4, <1>5, <2>2
    <2>7. CASE o.at = r
        <3>1. \A b \in Requests : op'[b].kind = "none"
            BY <1>8, <2>1, <2>2, <2>7, IdleTyped
        <3>2. o.pc \notin {"meta", "blobs", "rows"}
            BY <2>1, <2>7 DEF Restart, Steady
        <3>3. CASE o.pc \in {"finish", "stop"}
            <4>1. missed' = (missed \ {r}) \cup (Replicas \ {r})
                BY <2>1, <2>7, <3>3 DEF Restart
            <4>2. metadata = Describes(rec)
                BY <2>2, <3>3 DEF StoresAt
            <4>3. \A q \in Replicas : q \notin missed' => run'[q] = What(rec)'
                BY <1>5, <1>7, <2>5, <3>2, <4>1
            <4> QED BY <1>2, <1>7, <2>6, <3>1, <4>2, <4>3, Settled
        <3>4. CASE o.pc \in {"runtime", "save", "unload", "drop"}
            <4>1. missed' = missed \ {r}
                <5>1. ~\E b \in {c \in Requests : op[c].at = r} : op[b].pc \in {"meta", "finish", "stop"}
                    BY <2>1, <2>4, <3>4
                <5> QED BY <5>1 DEF Restart
            <4>2. rec = o.old /\ metadata = Describes(rec)
                BY <2>2, <3>4 DEF StoresAt
            <4>3. \A q \in Replicas \ {r} : q \notin missed => run[q] = What(rec)
                BY <2>2, <2>7, <3>4, <4>2 DEF Trails
            <4>4. \A q \in Replicas : q \notin missed' => run'[q] = What(rec)'
                BY <1>5, <1>7, <2>5, <3>2, <4>1, <4>3
            <4> QED BY <1>2, <1>7, <2>6, <3>1, <4>2, <4>4, Settled
        <3>5. o.pc \in {"runtime", "save", "unload", "drop", "finish", "stop"}
            BY <2>3, <3>2 DEF RequestState, LifecyclePcs
        <3> QED BY <3>3, <3>4, <3>5
    <2>8. CASE o.at # r
        <3>1. op'[a] = o /\ \A b \in Requests \ {a} : op'[b].kind = "none"
            BY <1>8, <2>1, <2>2, <2>8, IdleTyped
        <3>2. missed' = missed \ {r}
            <4>1. ~\E b \in {c \in Requests : op[c].at = r} : op[b].pc \in {"meta", "finish", "stop"}
                BY <2>1, <2>4, <2>8
            <4> QED BY <4>1 DEF Restart
        <3>3. StoresAt(o)'
            BY <1>2, <2>2 DEF StoresAt, Describes, Result
        <3>4. Served(o)'
            BY <1>5, <2>2, <2>3, <2>8, <3>2 DEF Served, What, Runs, Result
        <3>5. ASSUME NEW q \in Replicas
              PROVE  Trails(o, q)'
            <4>1. CASE q = r
                <5>1. o.pc \in {"runtime", "save", "unload", "blobs", "drop"} => x = What(o.old)
                    BY <2>2, <2>5 DEF StoresAt
                <5>2. o.pc \in {"meta", "stop", "finish"} /\ o.kind # "delete" => x = What(o.new)
                    BY <2>2, <2>5 DEF StoresAt, Result
                <5> QED BY <1>5, <4>1, <5>1, <5>2 DEF Trails, What, Runs
            <4>2. CASE q # r
                BY <1>5, <2>2, <3>2, <4>2 DEF Trails, What, Runs
            <4> QED BY <4>1, <4>2
        <3> QED BY <1>10, <2>1, <2>6, <3>1, <3>3, <3>4, <3>5, StillRunning
    <2> QED BY <2>7, <2>8
<1> QED BY <1>9, <1>10

LEMMA BeginningsInView ==
    ASSUME LifecycleTyped, ReplicasOK, Steady', NEW a \in Requests, NEW r \in Replicas,
           \/ Enable(a, r) \/ Disable(a, r) \/ Delete(a, r)
           \/ \E b \in Binaries : Update(a, r, b)
           \/ \E c \in Configs : UpdateConfig(a, r, c) \/ \E k \in Binaries : Install(a, r, k, c)
           \/ \E v \in vers : Rollback(a, r, v) \/ DeleteVersion(a, r, v)
    PROVE  ReplicasOK'
<1>1. CASE Enable(a, r)
    BY <1>1, BeginsAlone DEF Enable
<1>2. CASE Disable(a, r)
    BY <1>2, BeginsAlone DEF Disable
<1>3. CASE Delete(a, r)
    BY <1>3, BeginsAlone DEF Delete
<1>4. ASSUME NEW b \in Binaries, Update(a, r, b)
      PROVE  ReplicasOK'
    BY <1>4, BeginsAlone DEF Update
<1>5. ASSUME NEW c \in Configs, UpdateConfig(a, r, c)
      PROVE  ReplicasOK'
    BY <1>5, BeginsAlone DEF UpdateConfig
<1>6. ASSUME NEW c \in Configs, NEW k \in Binaries, Install(a, r, k, c)
      PROVE  ReplicasOK'
    BY <1>6, BeginsAlone DEF Install
<1>7. ASSUME NEW v \in vers, Rollback(a, r, v)
      PROVE  ReplicasOK'
    BY <1>7, BeginsAlone DEF Rollback
<1>8. ASSUME NEW v \in vers, DeleteVersion(a, r, v)
      PROVE  ReplicasOK'
    BY <1>8, BeginsAlone DEF DeleteVersion
<1> QED BY <1>1, <1>2, <1>3, <1>4, <1>5, <1>6, <1>7, <1>8

LEMMA ReplicasStayInView ==
    ASSUME LifecycleTyped, BinariesInv, ReplicasInv, [Next]_vars
    PROVE  ReplicasInv'
<1>1. ("overlapped delete" \in odd => "overlap" \in odd)'
    BY OverlapIsNoted DEF ReplicasInv
<1> SUFFICES ASSUME Steady'
             PROVE  ReplicasOK'
    BY <1>1 DEF ReplicasInv
<1>2. Steady
    BY OddityStays DEF Steady
<1>3. ReplicasOK /\ Fine
    BY <1>2 DEF ReplicasInv, Steady, Fine
<1>4. ASSUME NEW b \in Binaries, Upload(b)
      PROVE  ReplicasOK'
    BY <1>3, <1>4, SameView DEF Upload, db, history
<1>5. ASSUME Tick \/ UNCHANGED vars
      PROVE  ReplicasOK'
    BY <1>3, <1>5, SameView DEF Tick, vars, db, history
<1>6. ASSUME NEW r \in Replicas, Reconnect(r)
      PROVE  ReplicasOK'
    BY <1>3, <1>6, SameView DEF Reconnect, db, history
<1>7. ASSUME NEW r \in Replicas,
             \/ HandleEvent(r) \/ LoadFromStore(r) \/ LoadError(r)
             \/ Disconnect(r) \/ Reconnect(r) \/ Restart(r)
      PROVE  ReplicasOK'
    BY <1>3, <1>6, <1>7, HandledInView, LoadedInView, DisconnectedInView, RestartedInView
<1>8. ASSUME NEW a \in Requests,
             \/ Runtime(a) \/ RuntimeError(a) \/ Save(a) \/ SaveMeta(a) \/ SaveError(a)
             \/ Stop(a) \/ Finish(a) \/ PublishError(a)
             \/ DeleteUnload(a) \/ CleanupBlobs(a) \/ DeleteRows(a) \/ DeleteError(a) \/ DropVersion(a)
      PROVE  ReplicasOK'
    BY <1>3, <1>8, RequestStepsInView, EndsInView
<1> QED BY <1>3, <1>4, <1>5, <1>7, <1>8, BeginningsInView DEF Next

(* ReplicasFollowRecord: after requests that did not overlap, whether they *)
(* succeeded, failed or were cut off by a restart, and once every          *)
(* notification was handled, each replica that missed no change runs what  *)
(* the record says, for any number of replicas and faults.                 *)
THEOREM ReplicasFollow == Spec => []ReplicasFollowRecord
<1>1. Init => LifecycleTyped /\ BinariesInv /\ ReplicasInv
    <2> SUFFICES ASSUME Init
                 PROVE  LifecycleTyped /\ BinariesInv /\ ReplicasInv
        OBVIOUS
    <2>1. Named = {} /\ \A a \in Requests : op[a].kind = "none"
        BY IdleTyped DEF Init, Named
    <2>2. LifecycleTyped /\ BinariesInv
        BY <2>1, LifecycleStartsTyped
           DEF BinariesInv, OnRecord, Holds, Owns, Alone, Spares, Changing, Kinds
    <2>3. metadata = Describes(rec) /\ odd = {}
        BY DEF Init, Describes
    <2>4. \A r \in Replicas : Caught(r)
        BY WhatIs DEF Init, Caught
    <2>5. \A a \in Requests : Single(a) /\ Progress(op[a])
        BY <2>1 DEF Single, Progress
    <2> QED BY <2>2, <2>3, <2>4, <2>5 DEF ReplicasInv, ReplicasOK
<1>2. LifecycleTyped /\ BinariesInv /\ ReplicasInv /\ [Next]_vars =>
         (LifecycleTyped /\ BinariesInv /\ ReplicasInv)'
    BY LifecycleStepTyped, BinariesStayHeld, ReplicasStayInView
<1>3. LifecycleTyped /\ ReplicasInv => ReplicasFollowRecord
    <2> SUFFICES ASSUME LifecycleTyped, ReplicasInv, Quiet, Steady
                 PROVE  /\ \A r \in Replicas \ missed : run[r] = What(rec)
                        /\ metadata = Describes(rec)
        BY DEF ReplicasFollowRecord, Steady, What, Describes
    <2>1. NoRequest
        BY RequestFacts DEF Quiet, NoRequest
    <2> QED BY <2>1 DEF ReplicasInv, ReplicasOK, Caught, Quiet
<1> QED BY <1>1, <1>2, <1>3, PTL DEF Spec
=============================================================================
