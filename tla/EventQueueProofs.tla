-------------------------- MODULE EventQueueProofs --------------------------
(***************************************************************************)
(* Safety of the Postgres event bus for any number of events, consumers    *)
(* and subscribers, any MaxRetries, BatchSize and number of faults.        *)
(* The bus implements the contract of Delivery.                            *)
(***************************************************************************)
EXTENDS EventQueue, TLAPS

(* A consumer handles only an event it claimed, and calls subscriptions    *)
(* only while it handles one.                                              *)
HandlesClaimed ==
    \A c \in Consumers :
        /\ cur[c] # NoEvent => Holds(c, cur[c])
        /\ cur[c] = NoEvent => todo[c] = {}

(* Nothing is known of an event before it is published.                    *)
UnknownBeforePublish ==
    \A e \in Events \ published :
        row[e].status = "none" /\ \A c \in Consumers : ~Holds(c, e)

(* While no error is pending, every pinned subscriber that has been called *)
(* has processed the event.                                                *)
ServedSoFar ==
    \A c \in Consumers : cur[c] # NoEvent /\ ~failed[c] =>
        Pinned \subseteq todo[c] \cup handled[cur[c]]

(* Neither the stored count nor one read at claim time exceeds the number  *)
(* of failed runs.                                                         *)
RetriesAreFailures ==
    \A e \in Events :
        /\ row[e].retries <= fails[e]
        /\ \A c \in Consumers : held[c][e] <= fails[e]
        /\ row[e].status = "dead" => row[e].retries > MaxRetries

(* Unless its lease lapsed under a holder, a held row is leased and has    *)
(* one holder.                                                             *)
HeldIsLeased ==
    \A e \in Events \ lapsed : \A c \in Consumers :
        Holds(c, e) => row[e].status = "processing" /\ row[e].leased

IInv ==
    /\ TypeOK
    /\ HandlesClaimed
    /\ UnknownBeforePublish
    /\ ServedSoFar
    /\ NoEventLost
    /\ RetriesAreFailures
    /\ HeldIsLeased
    /\ ExclusiveUnlessLapsed

-----------------------------------------------------------------------------
(* The initial state satisfies the invariant. *)
LEMMA InitIInv == Init => IInv
  <1> SUFFICES ASSUME Init PROVE IInv
    OBVIOUS
  <1> USE EventQueueAssumption DEF Init, NotHeld, Holds, NoRow, Row
  <1>1. TypeOK
    BY DEF TypeOK
  <1>2. HandlesClaimed /\ UnknownBeforePublish /\ ServedSoFar /\ NoEventLost
    BY DEF HandlesClaimed, UnknownBeforePublish, ServedSoFar, NoEventLost
  <1>3. RetriesAreFailures /\ HeldIsLeased /\ ExclusiveUnlessLapsed
    BY DEF RetriesAreFailures, HeldIsLeased, ExclusiveUnlessLapsed
  <1> QED
    BY <1>1, <1>2, <1>3 DEF IInv

(* Publishing preserves the invariant. *)
LEMMA PublishIInv ==
  ASSUME IInv, NEW e \in Events, Publish(e)
  PROVE  IInv'
  <1> USE EventQueueAssumption DEF IInv, TypeOK, Publish, NotHeld, Holds, Row, consumerVars, historyVars
  <1>1. TypeOK'
    BY DEF TypeOK
  <1>2. HandlesClaimed' /\ ServedSoFar'
    BY DEF HandlesClaimed, ServedSoFar
  <1>3. UnknownBeforePublish' /\ NoEventLost'
    BY DEF UnknownBeforePublish, NoEventLost
  <1>4. RetriesAreFailures' /\ HeldIsLeased' /\ ExclusiveUnlessLapsed'
    BY DEF RetriesAreFailures, HeldIsLeased, ExclusiveUnlessLapsed, UnknownBeforePublish
  <1> QED
    BY <1>1, <1>2, <1>3, <1>4

(* Starting a handler preserves the invariant. *)
LEMMA BeginHandleIInv ==
  ASSUME IInv, NEW c \in Consumers, NEW e \in Events, BeginHandle(c, e)
  PROVE  IInv'
  <1> USE EventQueueAssumption DEF IInv, TypeOK, BeginHandle, NotHeld, Holds, Row, consumerVars, historyVars
  <1>1. TypeOK'
    BY DEF TypeOK
  <1>2. HandlesClaimed' /\ ServedSoFar'
    BY DEF HandlesClaimed, ServedSoFar
  <1>3. UnknownBeforePublish' /\ NoEventLost'
    BY DEF UnknownBeforePublish, NoEventLost, HandlesClaimed, ServedSoFar
  <1>4. RetriesAreFailures'
    BY DEF RetriesAreFailures, HandlesClaimed
  <1>5. HeldIsLeased' /\ ExclusiveUnlessLapsed'
    BY DEF HeldIsLeased, ExclusiveUnlessLapsed, HandlesClaimed
  <1> QED
    BY <1>1, <1>2, <1>3, <1>4, <1>5

(* A successful call of a subscription preserves the invariant. *)
LEMMA DeliverOKIInv ==
  ASSUME IInv, NEW c \in Consumers, NEW s \in Subscribers, DeliverOK(c, s)
  PROVE  IInv'
  <1> USE EventQueueAssumption DEF IInv, TypeOK, DeliverOK, NotHeld, Holds, Row, consumerVars, historyVars
  <1>1. TypeOK'
    BY DEF TypeOK
  <1>2. HandlesClaimed' /\ ServedSoFar'
    BY DEF HandlesClaimed, ServedSoFar
  <1>3. UnknownBeforePublish' /\ NoEventLost'
    BY DEF UnknownBeforePublish, NoEventLost, HandlesClaimed, ServedSoFar
  <1>4. RetriesAreFailures'
    BY DEF RetriesAreFailures, HandlesClaimed
  <1>5. HeldIsLeased' /\ ExclusiveUnlessLapsed'
    BY DEF HeldIsLeased, ExclusiveUnlessLapsed, HandlesClaimed
  <1> QED
    BY <1>1, <1>2, <1>3, <1>4, <1>5

(* A failed call of a subscription preserves the invariant. *)
LEMMA DeliverErrorIInv ==
  ASSUME IInv, NEW c \in Consumers, NEW s \in Subscribers, DeliverError(c, s)
  PROVE  IInv'
  <1> USE EventQueueAssumption DEF IInv, TypeOK, DeliverError, NotHeld, Holds, Row, consumerVars, historyVars
  <1>1. TypeOK'
    BY DEF TypeOK
  <1>2. HandlesClaimed' /\ ServedSoFar'
    BY DEF HandlesClaimed, ServedSoFar
  <1>3. UnknownBeforePublish' /\ NoEventLost'
    BY DEF UnknownBeforePublish, NoEventLost, HandlesClaimed, ServedSoFar
  <1>4. RetriesAreFailures'
    BY DEF RetriesAreFailures, HandlesClaimed
  <1>5. HeldIsLeased' /\ ExclusiveUnlessLapsed'
    BY DEF HeldIsLeased, ExclusiveUnlessLapsed, HandlesClaimed
  <1> QED
    BY <1>1, <1>2, <1>3, <1>4, <1>5

(* Deleting a processed event preserves the invariant. *)
LEMMA MarkSuccessIInv ==
  ASSUME IInv, NEW c \in Consumers, MarkSuccess(c)
  PROVE  IInv'
  <1> USE EventQueueAssumption DEF IInv, TypeOK, MarkSuccess, Returned, NextOfBatch, NoRow, NotHeld, Holds, Row, consumerVars, historyVars
  <1>1. TypeOK'
    BY DEF TypeOK
  <1>2. HandlesClaimed' /\ ServedSoFar'
    BY DEF HandlesClaimed, ServedSoFar
  <1>3. UnknownBeforePublish' /\ NoEventLost'
    BY DEF UnknownBeforePublish, NoEventLost, HandlesClaimed, ServedSoFar
  <1>4. RetriesAreFailures'
    BY DEF RetriesAreFailures, HandlesClaimed
  <1>5. HeldIsLeased' /\ ExclusiveUnlessLapsed'
    BY DEF HeldIsLeased, ExclusiveUnlessLapsed, HandlesClaimed
  <1> QED
    BY <1>1, <1>2, <1>3, <1>4, <1>5

(* Requeueing or dead-lettering preserves the invariant. *)
LEMMA MarkFailureIInv ==
  ASSUME IInv, NEW c \in Consumers, MarkFailure(c)
  PROVE  IInv'
  <1> USE EventQueueAssumption DEF IInv, TypeOK, MarkFailure, Returned, NextOfBatch, FailedRow, NotHeld, Holds, Row, consumerVars, historyVars
  <1>1. TypeOK'
    BY DEF TypeOK
  <1>2. HandlesClaimed' /\ ServedSoFar'
    BY DEF HandlesClaimed, ServedSoFar
  <1>3. UnknownBeforePublish' /\ NoEventLost'
    BY DEF UnknownBeforePublish, NoEventLost, HandlesClaimed, ServedSoFar
  <1>4. RetriesAreFailures'
    <2> SUFFICES ASSUME NEW e \in Events
                 PROVE  /\ row'[e].retries <= fails'[e]
                        /\ \A d \in Consumers : held'[d][e] <= fails'[e]
                        /\ row'[e].status = "dead" => row'[e].retries > MaxRetries
      BY DEF RetriesAreFailures
    <2>1. CASE e = cur[c]
      <3>1. fails'[e] = fails[e] + 1 /\ held[c][e] \in Nat
        BY <2>1 DEF HandlesClaimed
      <3>2. \A d \in Consumers : held'[d][e] <= held[d][e] \/ held'[d][e] = NotHeld
        BY <2>1
      <3>3. row'[e] = FailedRow(row[e], held[c][e] + 1)
        BY <2>1
      <3>4. row[e].retries <= fails[e] /\ \A d \in Consumers : held[d][e] <= fails[e]
        BY DEF RetriesAreFailures
      <3>5. \A d \in Consumers : held'[d][e] <= fails'[e]
        BY <3>1, <3>2, <3>4
      <3>6. row'[e].retries <= fails'[e]
        BY <3>1, <3>3, <3>4
      <3>7. row'[e].status = "dead" => row'[e].retries > MaxRetries
        BY <3>1, <3>3 DEF RetriesAreFailures
      <3> QED
        BY <3>5, <3>6, <3>7
    <2>2. CASE e # cur[c]
      BY <2>2 DEF RetriesAreFailures
    <2> QED
      BY <2>1, <2>2
  <1>5. HeldIsLeased' /\ ExclusiveUnlessLapsed'
    BY DEF HeldIsLeased, ExclusiveUnlessLapsed, HandlesClaimed
  <1> QED
    BY <1>1, <1>2, <1>3, <1>4, <1>5

(* A lost mark preserves the invariant. *)
LEMMA MarkErrorIInv ==
  ASSUME IInv, NEW c \in Consumers, MarkError(c)
  PROVE  IInv'
  <1> USE EventQueueAssumption DEF IInv, TypeOK, MarkError, Returned, NextOfBatch, NotHeld, Holds, Row, consumerVars, historyVars
  <1>1. TypeOK'
    BY DEF TypeOK
  <1>2. HandlesClaimed' /\ ServedSoFar'
    BY DEF HandlesClaimed, ServedSoFar
  <1>3. UnknownBeforePublish' /\ NoEventLost'
    BY DEF UnknownBeforePublish, NoEventLost, HandlesClaimed, ServedSoFar
  <1>4. RetriesAreFailures'
    BY DEF RetriesAreFailures, HandlesClaimed
  <1>5. HeldIsLeased' /\ ExclusiveUnlessLapsed'
    BY DEF HeldIsLeased, ExclusiveUnlessLapsed, HandlesClaimed
  <1> QED
    BY <1>1, <1>2, <1>3, <1>4, <1>5

(* A crash preserves the invariant. *)
LEMMA CrashIInv ==
  ASSUME IInv, NEW c \in Consumers, Crash(c)
  PROVE  IInv'
  <1> USE EventQueueAssumption DEF IInv, TypeOK, Crash, NotHeld, Holds, Row, consumerVars, historyVars
  <1>1. TypeOK'
    BY DEF TypeOK
  <1>2. HandlesClaimed' /\ ServedSoFar'
    BY DEF HandlesClaimed, ServedSoFar
  <1>3. UnknownBeforePublish' /\ NoEventLost'
    BY DEF UnknownBeforePublish, NoEventLost, HandlesClaimed, ServedSoFar
  <1>4. RetriesAreFailures'
    BY DEF RetriesAreFailures, HandlesClaimed
  <1>5. HeldIsLeased' /\ ExclusiveUnlessLapsed'
    BY DEF HeldIsLeased, ExclusiveUnlessLapsed, HandlesClaimed
  <1> QED
    BY <1>1, <1>2, <1>3, <1>4, <1>5

(* The end of a backoff preserves the invariant. *)
LEMMA BecomeDueIInv ==
  ASSUME IInv, NEW e \in Events, BecomeDue(e)
  PROVE  IInv'
  <1> USE EventQueueAssumption DEF IInv, TypeOK, BecomeDue, NotHeld, Holds, Row, consumerVars, historyVars
  <1>1. TypeOK'
    BY DEF TypeOK
  <1>2. HandlesClaimed' /\ ServedSoFar'
    BY DEF HandlesClaimed, ServedSoFar
  <1>3. UnknownBeforePublish' /\ NoEventLost'
    BY DEF UnknownBeforePublish, NoEventLost, HandlesClaimed, ServedSoFar
  <1>4. RetriesAreFailures'
    BY DEF RetriesAreFailures, HandlesClaimed
  <1>5. HeldIsLeased' /\ ExclusiveUnlessLapsed'
    BY DEF HeldIsLeased, ExclusiveUnlessLapsed, HandlesClaimed
  <1> QED
    BY <1>1, <1>2, <1>3, <1>4, <1>5

(* The end of a lease preserves the invariant. *)
LEMMA LeaseExpiresIInv ==
  ASSUME IInv, NEW e \in Events, LeaseExpires(e)
  PROVE  IInv'
  <1> USE EventQueueAssumption DEF IInv, TypeOK, LeaseExpires, NotHeld, Holds, Row, consumerVars, historyVars
  <1>1. TypeOK'
    BY DEF TypeOK
  <1>2. HandlesClaimed' /\ ServedSoFar'
    BY DEF HandlesClaimed, ServedSoFar
  <1>3. UnknownBeforePublish' /\ NoEventLost'
    BY DEF UnknownBeforePublish, NoEventLost, HandlesClaimed, ServedSoFar
  <1>4. RetriesAreFailures'
    BY DEF RetriesAreFailures, HandlesClaimed
  <1>5. HeldIsLeased' /\ ExclusiveUnlessLapsed'
    BY DEF HeldIsLeased, ExclusiveUnlessLapsed, HandlesClaimed
  <1> QED
    BY <1>1, <1>2, <1>3, <1>4, <1>5

(* Loading and unloading a plugin preserves the invariant. *)
LEMMA RegistryIInv ==
  ASSUME IInv, NEW s \in Subscribers, RegisterTriggers(s) \/ UnregisterTriggers(s)
  PROVE  IInv'
  <1> USE EventQueueAssumption DEF IInv, TypeOK, RegisterTriggers, UnregisterTriggers, NotHeld, Holds, Row, consumerVars, historyVars
  <1>1. TypeOK'
    BY DEF TypeOK
  <1>2. HandlesClaimed' /\ ServedSoFar'
    BY DEF HandlesClaimed, ServedSoFar
  <1>3. UnknownBeforePublish' /\ NoEventLost'
    BY DEF UnknownBeforePublish, NoEventLost, HandlesClaimed, ServedSoFar
  <1>4. RetriesAreFailures'
    BY DEF RetriesAreFailures, HandlesClaimed
  <1>5. HeldIsLeased' /\ ExclusiveUnlessLapsed'
    BY DEF HeldIsLeased, ExclusiveUnlessLapsed, HandlesClaimed
  <1> QED
    BY <1>1, <1>2, <1>3, <1>4, <1>5

(* Claiming a batch preserves the invariant: a claimed row is not leased,  *)
(* so unless its lease lapsed nobody holds it.                             *)
LEMMA ClaimBatchIInv ==
  ASSUME IInv, NEW c \in Consumers, ClaimBatch(c)
  PROVE  IInv'
  <1> USE EventQueueAssumption DEF IInv, TypeOK, NotHeld, Holds, Row, historyVars
  <1>1. PICK S \in SUBSET {e \in Events : Claimable(e)} :
          /\ row' = [e \in Events |-> IF e \in S
                        THEN [status |-> "processing", retries |-> row[e].retries,
                              due |-> row[e].due, leased |-> TRUE]
                        ELSE row[e]]
          /\ held' = [held EXCEPT ![c] = [e \in Events |->
                        IF e \in S THEN row[e].retries ELSE NotHeld]]
    BY DEF ClaimBatch
  <1>2. /\ UNCHANGED <<published, cur, todo, failed, subs, faults, handled, fails, lapsed>>
        /\ \A e \in Events : ~Holds(c, e)
    BY DEF ClaimBatch
  <1>3. \A e \in S : /\ e \in Events
                     /\ row[e].status \in {"pending", "processing"}
                     /\ row[e].status = "processing" => ~row[e].leased
                     /\ row'[e].status = "processing" /\ row'[e].leased
                     /\ row'[e].retries = row[e].retries
    BY <1>1 DEF Claimable
  <1>4. \A e \in Events \ S : row'[e] = row[e]
    BY <1>1
  <1>5. /\ \A d \in Consumers \ {c} : held'[d] = held[d]
        /\ \A e \in S : held'[c][e] = row[e].retries
        /\ \A e \in Events \ S : held'[c][e] = NotHeld
    BY <1>1
  <1>6. TypeOK'
    BY <1>1, <1>2 DEF TypeOK
  <1>7. HandlesClaimed' /\ ServedSoFar'
    <2>1. cur[c] = NoEvent
      BY <1>2 DEF HandlesClaimed
    <2> QED
      BY <2>1, <1>2, <1>5 DEF HandlesClaimed, ServedSoFar
  <1>8. UnknownBeforePublish' /\ NoEventLost'
    <2>1. S \subseteq published
      BY <1>3 DEF UnknownBeforePublish
    <2>2. UnknownBeforePublish'
      BY <2>1, <1>2, <1>4, <1>5 DEF UnknownBeforePublish
    <2>3. NoEventLost'
      BY <1>2, <1>3, <1>4 DEF NoEventLost
    <2> QED
      BY <2>2, <2>3
  <1>9. RetriesAreFailures'
    <2> SUFFICES ASSUME NEW e \in Events
                 PROVE  /\ row'[e].retries <= fails[e]
                        /\ \A d \in Consumers : held'[d][e] <= fails[e]
                        /\ row'[e].status = "dead" => row'[e].retries > MaxRetries
      BY <1>2 DEF RetriesAreFailures
    <2>1. CASE e \in S
      BY <2>1, <1>3, <1>5 DEF RetriesAreFailures
    <2>2. CASE e \notin S
      BY <2>2, <1>4, <1>5 DEF RetriesAreFailures
    <2> QED
      BY <2>1, <2>2
  <1>10. \A e \in S \ lapsed, d \in Consumers : ~Holds(d, e)
    BY <1>3 DEF HeldIsLeased
  <1>11. HeldIsLeased'
    <2> SUFFICES ASSUME NEW e \in Events \ lapsed, NEW d \in Consumers, held'[d][e] # NotHeld
                 PROVE  row'[e].status = "processing" /\ row'[e].leased
      BY <1>2 DEF HeldIsLeased
    <2>1. CASE e \in S
      BY <2>1, <1>3
    <2>2. CASE e \notin S
      BY <2>2, <1>4, <1>5 DEF HeldIsLeased
    <2> QED
      BY <2>1, <2>2
  <1>12. ExclusiveUnlessLapsed'
    <2> SUFFICES ASSUME NEW e \in Events \ lapsed, NEW d1 \in Consumers, NEW d2 \in Consumers,
                        held'[d1][e] # NotHeld, held'[d2][e] # NotHeld
                 PROVE  d1 = d2
      BY <1>2 DEF ExclusiveUnlessLapsed
    <2>1. CASE e \in S
      BY <2>1, <1>5, <1>10
    <2>2. CASE e \notin S
      BY <2>2, <1>5 DEF ExclusiveUnlessLapsed
    <2> QED
      BY <2>1, <2>2
  <1> QED
    BY <1>6, <1>7, <1>8, <1>9, <1>11, <1>12

-----------------------------------------------------------------------------
(* The inductive invariant holds in every reachable state.                 *)
THEOREM Invariance == Spec => []IInv
  <1>1. Init => IInv
    BY InitIInv
  <1>2. IInv /\ [Next]_vars => IInv'
    <2> SUFFICES ASSUME IInv, [Next]_vars PROVE IInv'
      OBVIOUS
    <2>1. CASE \E e \in Events : Publish(e) \/ BecomeDue(e) \/ LeaseExpires(e)
      BY <2>1, PublishIInv, BecomeDueIInv, LeaseExpiresIInv
    <2>2. CASE \E c \in Consumers : ConsumerStep(c) \/ MarkError(c) \/ Crash(c)
      BY <2>2, ClaimBatchIInv, BeginHandleIInv, DeliverOKIInv, DeliverErrorIInv,
         MarkSuccessIInv, MarkFailureIInv, MarkErrorIInv, CrashIInv DEF ConsumerStep
    <2>3. CASE \E s \in Subscribers : RegisterTriggers(s) \/ UnregisterTriggers(s)
      BY <2>3, RegistryIInv
    <2>4. CASE UNCHANGED vars
      BY <2>4 DEF vars, IInv, TypeOK, HandlesClaimed, UnknownBeforePublish, ServedSoFar,
         NoEventLost, RetriesAreFailures, HeldIsLeased, ExclusiveUnlessLapsed, Holds
    <2> QED
      BY <2>1, <2>2, <2>3, <2>4 DEF Next
  <1> QED
    BY <1>1, <1>2, PTL DEF Spec

(* Every variable of the bus keeps its type.                               *)
THEOREM TypeCorrect == Spec => []TypeOK
  BY Invariance, PTL DEF IInv

(* At-least-once delivery: an event leaves wasm_event_queue only after     *)
(* every plugin subscribed throughout has processed it.                    *)
THEOREM EventsAreNotLost == Spec => []NoEventLost
  BY Invariance, PTL DEF IInv

(* Dead-lettering takes more than MaxRetries recorded failures.            *)
THEOREM DeadLettersAreExhausted == Spec => []DeadOnlyAfterRetries
  <1>1. IInv => DeadOnlyAfterRetries
    BY EventQueueAssumption
       DEF IInv, TypeOK, Row, RetriesAreFailures, DeadOnlyAfterRetries
  <1> QED
    BY <1>1, Invariance, PTL

(* Claims are exclusive for as long as leases are not overrun.             *)
THEOREM ClaimsAreExclusive == Spec => []ExclusiveUnlessLapsed
  BY Invariance, PTL DEF IInv

-----------------------------------------------------------------------------
(* What becomes of an event, as its publisher sees it.                     *)
Outcome(e) ==
    CASE e \notin published -> "unpublished"
      [] e \in published /\ row[e].status = "none" -> "done"
      [] e \in published /\ row[e].status = "dead" -> "dead"
      [] e \in published /\ row[e].status \in {"pending", "processing"} -> "queued"

Fate == [e \in Events |-> Outcome(e)]

Promise == INSTANCE Delivery WITH fate <- Fate

(* What the rows say of the outcomes.                                      *)
LEMMA Outcomes ==
  ASSUME IInv, NEW e \in Events
  PROVE  /\ Outcome(e) = "unpublished" <=> e \notin published
         /\ Outcome(e) = "done" <=> e \in published /\ row[e].status = "none"
         /\ Outcome(e) = "dead" <=> e \in published /\ row[e].status = "dead"
         /\ Outcome(e) = "queued" <=> e \in published /\ row[e].status \in {"pending", "processing"}
  BY DEF IInv, TypeOK, Row, Outcome

(* A step that takes no event in or out of the queue changes no outcome.   *)
LEMMA FateKept ==
  ASSUME IInv, IInv', published' = published,
         \A e \in Events : \/ row'[e].status = row[e].status
                           \/ {row[e].status, row'[e].status} \subseteq {"pending", "processing"}
  PROVE  Fate' = Fate
  <1>1. ASSUME NEW e \in Events
        PROVE  Outcome(e)' = Outcome(e)
    BY DEF Outcome
  <1> QED
    BY <1>1 DEF Fate

(* A step that changes the outcome of one event.                           *)
LEMMA FateMoves ==
  ASSUME NEW x \in Events, NEW f, Outcome(x)' = f, \A e \in Events : e # x => Outcome(e)' = Outcome(e)
  PROVE  Fate' = [Fate EXCEPT ![x] = f]
  BY DEF Fate

(* Every step of the bus is one of the promise, or none.                   *)
LEMMA StepDelivers ==
  ASSUME IInv, IInv', [Next]_vars
  PROVE  [Promise!Next]_(Promise!vars)
  <1>1. \A e \in Events : row[e] \in Row
    BY DEF IInv, TypeOK
  <1>2. ASSUME Fate' = Fate, UNCHANGED <<handled, fails>>
        PROVE  [Promise!Next]_(Promise!vars)
    BY <1>2 DEF Promise!vars
  <1>3. CASE UNCHANGED vars
    BY <1>2, <1>3 DEF vars, Fate, Outcome
  <1>4. ASSUME NEW e \in Events, Publish(e)
        PROVE  [Promise!Next]_(Promise!vars)
    <2>0. /\ e \notin published /\ published' = published \cup {e} /\ row'[e].status = "pending"
          /\ \A d \in Events : d # e => row'[d] = row[d]
      BY <1>4 DEF Publish, IInv, TypeOK
    <2>1. Outcome(e)' = "queued" /\ Outcome(e) = "unpublished" /\ \A d \in Events : d # e => Outcome(d)' = Outcome(d)
      BY <2>0 DEF Outcome
    <2>2. Fate' = [Fate EXCEPT ![e] = "queued"]
      BY <2>1, FateMoves
    <2>3. Promise!Publish(e)
      BY <1>4, <2>1, <2>2 DEF Promise!Publish, Promise!Becomes, Fate, Publish, historyVars
    <2> QED
      BY <2>3 DEF Promise!Next
  <1>5. ASSUME NEW e \in Events, BecomeDue(e) \/ LeaseExpires(e)
        PROVE  [Promise!Next]_(Promise!vars)
    <2>1. UNCHANGED <<published, handled, fails>>
      BY <1>5 DEF BecomeDue, LeaseExpires, historyVars
    <2>2. \A d \in Events : row'[d].status = row[d].status
      <3>1. CASE BecomeDue(e)
        BY <1>1, <3>1 DEF BecomeDue, IInv, TypeOK, Row
      <3>2. CASE LeaseExpires(e)
        BY <1>1, <3>2 DEF LeaseExpires, IInv, TypeOK, Row
      <3> QED
        BY <1>5, <3>1, <3>2
    <2> QED
      BY <1>2, <2>1, <2>2, FateKept
  <1>6. ASSUME NEW c \in Consumers, ClaimBatch(c)
        PROVE  [Promise!Next]_(Promise!vars)
    <2>1. UNCHANGED <<published, handled, fails>>
      BY <1>6 DEF ClaimBatch, historyVars
    <2>2. \A e \in Events : \/ row'[e].status = row[e].status
                            \/ {row[e].status, row'[e].status} \subseteq {"pending", "processing"}
      BY <1>6 DEF ClaimBatch, Claimable
    <2> QED
      BY <1>2, <2>1, <2>2, FateKept
  <1>7. ASSUME NEW c \in Consumers, NEW s \in Subscribers, DeliverOK(c, s)
        PROVE  [Promise!Next]_(Promise!vars)
    <2>1. PICK e \in Events : e = cur[c]
      BY <1>7 DEF DeliverOK, IInv, TypeOK, HandlesClaimed
    <2>2. e \in published
      BY <2>1, EventQueueAssumption DEF IInv, HandlesClaimed, UnknownBeforePublish
    <2>3. /\ UNCHANGED <<published, row, fails>>
          /\ handled' = [handled EXCEPT ![e] = @ \cup {s}]
      BY <1>7, <2>1 DEF DeliverOK
    <2>4. Fate' = Fate
      BY <2>3, FateKept
    <2>6. Fate[e] # "unpublished"
      BY <2>2, Outcomes DEF Fate
    <2>5. Promise!Handle(e, s)
      BY <2>3, <2>4, <2>6 DEF Promise!Handle
    <2> QED
      BY <2>5 DEF Promise!Next
  <1>8. ASSUME NEW c \in Consumers, MarkSuccess(c)
        PROVE  [Promise!Next]_(Promise!vars)
    <2>1. PICK e \in Events : e = cur[c]
      BY <1>8 DEF MarkSuccess, Returned, IInv, TypeOK
    <2>2. e \in published /\ Pinned \subseteq handled[e]
      BY <1>8, <2>1 DEF MarkSuccess, Returned, IInv, TypeOK, HandlesClaimed, UnknownBeforePublish, ServedSoFar
    <2>3. UNCHANGED <<published, handled, fails>> /\ row' = [row EXCEPT ![e] = NoRow]
      BY <1>8, <2>1 DEF MarkSuccess, NextOfBatch, historyVars
    <2>4. row'[e].status = "none" /\ \A d \in Events : d # e => row'[d] = row[d]
      BY <2>3 DEF IInv, TypeOK, NoRow
    <2>5. CASE row[e].status = "none"
      BY <1>2, <2>3, <2>4, <2>5, FateKept
    <2>6. CASE row[e].status # "none"
      <3>1. Outcome(e)' = "done" /\ Outcome(e) \in {"queued", "dead"} /\ \A d \in Events : d # e => Outcome(d)' = Outcome(d)
        <4>1. Outcome(e)' = "done" /\ \A d \in Events : d # e => Outcome(d)' = Outcome(d)
          BY <2>2, <2>3, <2>4 DEF Outcome
        <4>2. Outcome(e) \in {"queued", "dead"}
          BY <1>1, <2>2, <2>6, Outcomes DEF Row
        <4> QED
          BY <4>1, <4>2
      <3>2. Fate' = [Fate EXCEPT ![e] = "done"]
        BY <3>1, FateMoves
      <3>3. Promise!Finish(e)
        BY <2>2, <2>3, <3>1, <3>2 DEF Promise!Finish, Promise!Becomes, Fate
      <3> QED
        BY <3>3 DEF Promise!Next
    <2> QED
      BY <2>5, <2>6
  <1>9. ASSUME NEW c \in Consumers, MarkFailure(c)
        PROVE  [Promise!Next]_(Promise!vars)
    <2>1. PICK e \in Events : e = cur[c]
      BY <1>9 DEF MarkFailure, Returned, IInv, TypeOK
    <2>0. PICK n : n = held[c][e] + 1
      OBVIOUS
    <2>2. e \in published
      BY <1>9, <2>1 DEF MarkFailure, Returned, IInv, TypeOK, HandlesClaimed, UnknownBeforePublish
    <2>3. /\ UNCHANGED <<published, handled>> /\ fails' = [fails EXCEPT ![e] = @ + 1]
          /\ row' = [row EXCEPT ![e] = FailedRow(@, n)]
      BY <1>9, <2>0, <2>1 DEF MarkFailure, NextOfBatch
    <2>4. row'[e] = FailedRow(row[e], n) /\ \A d \in Events : d # e => row'[d] = row[d]
      BY <2>3 DEF IInv, TypeOK
    <2>5. Fate[e] # "unpublished"
      BY <2>2, Outcomes DEF Fate
    <2>6. \A d \in Events : d # e => Outcome(d)' = Outcome(d)
      BY <2>3, <2>4 DEF Outcome
    <2>7. CASE Fate' = Fate
      BY <2>3, <2>5, <2>7 DEF Promise!Next, Promise!Fail
    <2>8. CASE row[e].status \in {"pending", "processing"} /\ row'[e].status = "dead"
      <3>1. Outcome(e) = "queued" /\ Outcome(e)' = "dead"
        BY <2>2, <2>3, <2>8 DEF Outcome
      <3>2. fails'[e] > MaxRetries
        <4>1. row'[e].retries > MaxRetries /\ row'[e].retries <= fails'[e]
          BY <2>8 DEF IInv, RetriesAreFailures
        <4>2. fails'[e] \in Nat /\ row'[e].retries \in Nat
          BY DEF IInv, TypeOK, Row
        <4> QED
          BY <4>1, <4>2, EventQueueAssumption
      <3>3. Fate' = [Fate EXCEPT ![e] = "dead"]
        BY <2>6, <3>1, FateMoves
      <3>4. Promise!Fail(e)
        BY <2>3, <3>1, <3>2, <3>3 DEF Promise!Fail, Promise!Becomes, Fate
      <3> QED
        BY <3>4 DEF Promise!Next
    <2>9. CASE row[e].status = "dead" /\ row'[e].status = "pending"
      <3>1. Outcome(e) = "dead" /\ Outcome(e)' = "queued"
        BY <2>2, <2>3, <2>9 DEF Outcome
      <3>2. Fate' = [Fate EXCEPT ![e] = "queued"]
        BY <2>6, <3>1, FateMoves
      <3>3. Promise!Fail(e)
        BY <2>3, <3>1, <3>2 DEF Promise!Fail, Promise!Becomes, Fate
      <3> QED
        BY <3>3 DEF Promise!Next
    <2>10. \/ row'[e].status = row[e].status
           \/ {row[e].status, row'[e].status} \subseteq {"pending", "processing"}
           \/ row[e].status \in {"pending", "processing"} /\ row'[e].status = "dead"
           \/ row[e].status = "dead" /\ row'[e].status = "pending"
      BY <1>1, <2>4 DEF FailedRow, Row
    <2>11. CASE \/ row'[e].status = row[e].status
                \/ {row[e].status, row'[e].status} \subseteq {"pending", "processing"}
      <3>1. Fate' = Fate
        BY <2>3, <2>4, <2>11, FateKept
      <3> QED
        BY <2>7, <3>1
    <2> QED
      BY <2>8, <2>9, <2>10, <2>11
  <1>10. ASSUME NEW c \in Consumers,
                \/ \E e \in Events : BeginHandle(c, e)
                \/ \E s \in Subscribers : DeliverError(c, s)
                \/ MarkError(c) \/ Crash(c)
         PROVE  [Promise!Next]_(Promise!vars)
    <2>1. UNCHANGED <<published, row, handled, fails>>
      BY <1>10 DEF BeginHandle, DeliverError, MarkError, NextOfBatch, Crash, historyVars
    <2> QED
      BY <1>2, <2>1 DEF Fate, Outcome
  <1>11. ASSUME NEW s \in Subscribers, RegisterTriggers(s) \/ UnregisterTriggers(s)
         PROVE  [Promise!Next]_(Promise!vars)
    <2>1. UNCHANGED <<published, row, handled, fails>>
      BY <1>11 DEF RegisterTriggers, UnregisterTriggers, historyVars
    <2> QED
      BY <1>2, <2>1 DEF Fate, Outcome
  <1> QED
    BY <1>3, <1>4, <1>5, <1>6, <1>7, <1>8, <1>9, <1>10, <1>11 DEF Next, ConsumerStep

(* The empty queue: nothing is published.                                  *)
LEMMA InitDelivers == Init => Promise!Init
  BY DEF Init, Promise!Init, Fate, Outcome

(* The bus keeps its promise to publishers: one abstract step, or none,    *)
(* for each of its own.  Claims, leases, crashes and lost marks are not    *)
(* visible; a verdict that comes too late for a deleted event is only a    *)
(* failed run more.                                                        *)
THEOREM QueueKeepsPromise == Spec => Promise!Spec
  <1>1. Init => Promise!Init
    BY InitDelivers
  <1>2. IInv /\ IInv' /\ [Next]_vars => [Promise!Next]_(Promise!vars)
    BY StepDelivers
  <1> QED
    BY <1>1, <1>2, Invariance, PTL DEF Spec, Promise!Spec

=============================================================================
