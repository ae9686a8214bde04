------------------------ MODULE ScheduledNotifyProofs ------------------------
(***************************************************************************)
(* Safety of delayed notifications for any number of messages and workers, *)
(* any length of the day, any settings and any number of faults.           *)
(***************************************************************************)
EXTENDS ScheduledNotify, Integers, TLAPS

(* A worker's job names a message exactly while it is busy with one.       *)
JobsHaveMessages ==
    \A w \in Workers : job[w].step = "idle" <=> job[w].msg = NoMessage

(* Only a message that was stored has a row, a holder or a delivery.       *)
OnlyStored ==
    \A m \in Messages : stage[m] # "stored" =>
        ~row[m].stored /\ sent[m] = 0 /\ ~Held(m)

(* A worker deletes a row only after it sent the message.                  *)
CompletedWasSent ==
    \A w \in Workers : job[w].step = "complete" => sent[job[w].msg] > 0

(* Unless its lease was overrun, a message that a worker has is leased.    *)
HeldIsLeased ==
    \A m \in Messages \ suspect : Held(m) => row[m].leased

(* ... by one worker, either in its batch or as its job,                   *)
HolderIsUnique ==
    \A m \in Messages \ suspect : \A v, w \in Workers :
        /\ m \in batch[v] => job[w].msg # m
        /\ m \in batch[v] /\ m \in batch[w] => v = w
        /\ job[v].msg = m /\ job[w].msg = m => v = w

(* ... and once it was sent, its row is gone or about to be deleted.       *)
SentIsCompleted ==
    \A m \in Messages \ suspect : sent[m] > 0 =>
        \/ ~row[m].stored /\ ~Held(m)
        \/ \E w \in Workers : job[w].msg = m /\ job[w].step = "complete"

IInv ==
    /\ TypeOK
    /\ JobsHaveMessages
    /\ OnlyStored
    /\ CompletedWasSent
    /\ NotificationNotLost
    /\ HeldIsLeased
    /\ HolderIsUnique
    /\ SentIsCompleted
    /\ DuplicateOnlyAfterOverrun

-----------------------------------------------------------------------------
(* The hour in the user's time zone is an hour of the day. *)
LEMMA LocalHourType ==
  ASSUME NEW p \in WorkHours, NEW h \in 0..(HoursPerDay - 1)
  PROVE  LocalHour(p, h) \in 0..(HoursPerDay - 1)
  <1>1. HoursPerDay \in Nat /\ HoursPerDay > 0 /\ p.tz \in Nat /\ h \in Nat
    BY ScheduledNotifyAssumption DEF WorkHours
  <1>2. ASSUME NEW x \in Nat, NEW n \in Nat, n > 0 PROVE x % n \in 0..(n - 1)
    BY <1>2
  <1> QED
    BY <1>1, <1>2 DEF LocalHour

(* nextWorkTime is at most a day ahead. *)
LEMMA NextWorkTimeType ==
  ASSUME NEW p \in Prefs, NEW h \in 0..(HoursPerDay - 1)
  PROVE  NextWorkTime(p, h) \in 0..HoursPerDay
  <1>1. p \in WorkHours /\ HoursPerDay \in Nat \ {0}
    BY ScheduledNotifyAssumption
  <1>2. PICK l \in 0..(HoursPerDay - 1) : l = LocalHour(p, h)
    BY <1>1, LocalHourType
  <1>3. p.start \in 0..(HoursPerDay - 1)
    BY <1>1 DEF WorkHours
  <1> QED
    BY <1>1, <1>2, <1>3 DEF NextWorkTime

(* The initial state satisfies the invariant. *)
LEMMA InitIInv == Init => IInv
  <1> SUFFICES ASSUME Init PROVE IInv
    OBVIOUS
  <1> USE ScheduledNotifyAssumption DEF Init, NoRow, Row, Job, Steps, Held
  <1>1. TypeOK
    BY DEF TypeOK
  <1>2. JobsHaveMessages /\ OnlyStored /\ CompletedWasSent /\ NotificationNotLost
    BY DEF JobsHaveMessages, OnlyStored, CompletedWasSent, NotificationNotLost
  <1>3. HeldIsLeased /\ HolderIsUnique /\ SentIsCompleted /\ DuplicateOnlyAfterOverrun
    BY DEF HeldIsLeased, HolderIsUnique, SentIsCompleted, DuplicateOnlyAfterOverrun
  <1> QED
    BY <1>1, <1>2, <1>3 DEF IInv

(* Deciding whether to delay a message preserves the invariant. *)
LEMMA NotifyUserIInv ==
  ASSUME IInv, NEW m \in Messages, NotifyUser(m)
  PROVE  IInv'
  <1> USE ScheduledNotifyAssumption DEF IInv, TypeOK, NotifyUser, Row, Job, Steps, Held
  <1>1. TypeOK'
    BY DEF TypeOK
  <1>2. JobsHaveMessages' /\ OnlyStored' /\ CompletedWasSent'
    BY DEF JobsHaveMessages, OnlyStored, CompletedWasSent
  <1>3. NotificationNotLost' /\ DuplicateOnlyAfterOverrun'
    BY DEF NotificationNotLost, DuplicateOnlyAfterOverrun, SentIsCompleted, HolderIsUnique, CompletedWasSent, OnlyStored, JobsHaveMessages
  <1>4. HeldIsLeased'
    BY DEF HeldIsLeased, JobsHaveMessages, HolderIsUnique, OnlyStored
  <1>5. HolderIsUnique'
    BY DEF HolderIsUnique, HeldIsLeased, JobsHaveMessages
  <1>6. SentIsCompleted'
    BY DEF SentIsCompleted, HolderIsUnique, HeldIsLeased, JobsHaveMessages, OnlyStored
  <1> QED
    BY <1>1, <1>2, <1>3, <1>4, <1>5, <1>6

(* Storing a delayed message preserves the invariant. *)
LEMMA ScheduleIInv ==
  ASSUME IInv, NEW m \in Messages, Schedule(m)
  PROVE  IInv'
  <1> USE ScheduledNotifyAssumption DEF IInv, TypeOK, Schedule, Row, Job, Steps, Held
  <1>1. TypeOK'
    BY NextWorkTimeType DEF TypeOK
  <1>2. JobsHaveMessages' /\ OnlyStored' /\ CompletedWasSent'
    BY DEF JobsHaveMessages, OnlyStored, CompletedWasSent
  <1>3. NotificationNotLost' /\ DuplicateOnlyAfterOverrun'
    BY DEF NotificationNotLost, DuplicateOnlyAfterOverrun, SentIsCompleted, HolderIsUnique, CompletedWasSent, OnlyStored, JobsHaveMessages
  <1>4. HeldIsLeased'
    BY DEF HeldIsLeased, JobsHaveMessages, HolderIsUnique, OnlyStored
  <1>5. HolderIsUnique'
    BY DEF HolderIsUnique, HeldIsLeased, JobsHaveMessages
  <1>6. SentIsCompleted'
    BY DEF SentIsCompleted, HolderIsUnique, HeldIsLeased, JobsHaveMessages, OnlyStored
  <1> QED
    BY <1>1, <1>2, <1>3, <1>4, <1>5, <1>6

(* A refused message preserves the invariant. *)
LEMMA NotifyErrorIInv ==
  ASSUME IInv, NEW m \in Messages, NotifyError(m)
  PROVE  IInv'
  <1> USE ScheduledNotifyAssumption DEF IInv, TypeOK, NotifyError, Row, Job, Steps, Held
  <1>1. TypeOK'
    BY DEF TypeOK
  <1>2. JobsHaveMessages' /\ OnlyStored' /\ CompletedWasSent'
    BY DEF JobsHaveMessages, OnlyStored, CompletedWasSent
  <1>3. NotificationNotLost' /\ DuplicateOnlyAfterOverrun'
    BY DEF NotificationNotLost, DuplicateOnlyAfterOverrun, SentIsCompleted, HolderIsUnique, CompletedWasSent, OnlyStored, JobsHaveMessages
  <1>4. HeldIsLeased'
    BY DEF HeldIsLeased, JobsHaveMessages, HolderIsUnique, OnlyStored
  <1>5. HolderIsUnique'
    BY DEF HolderIsUnique, HeldIsLeased, JobsHaveMessages
  <1>6. SentIsCompleted'
    BY DEF SentIsCompleted, HolderIsUnique, HeldIsLeased, JobsHaveMessages, OnlyStored
  <1> QED
    BY <1>1, <1>2, <1>3, <1>4, <1>5, <1>6

(* Claiming a batch preserves the invariant. *)
LEMMA ClaimDueIInv ==
  ASSUME IInv, NEW w \in Workers, ClaimDue(w)
  PROVE  IInv'
  <1> USE ScheduledNotifyAssumption DEF IInv, TypeOK, ClaimDue, Due, Lease, Row, Job, Steps, Held
  <1>1. TypeOK'
    BY DEF TypeOK
  <1>2. JobsHaveMessages' /\ OnlyStored' /\ CompletedWasSent'
    BY DEF JobsHaveMessages, OnlyStored, CompletedWasSent
  <1>3. NotificationNotLost' /\ DuplicateOnlyAfterOverrun'
    BY DEF NotificationNotLost, DuplicateOnlyAfterOverrun, SentIsCompleted, HolderIsUnique, CompletedWasSent, OnlyStored, JobsHaveMessages
  <1>4. HeldIsLeased'
    BY DEF HeldIsLeased, JobsHaveMessages, HolderIsUnique, OnlyStored
  <1>5. HolderIsUnique'
    BY DEF HolderIsUnique, HeldIsLeased, JobsHaveMessages
  <1>6. SentIsCompleted'
    BY DEF SentIsCompleted, HolderIsUnique, HeldIsLeased, JobsHaveMessages, OnlyStored
  <1> QED
    BY <1>1, <1>2, <1>3, <1>4, <1>5, <1>6

(* A claim that nobody works on preserves the invariant. *)
LEMMA ClaimDueErrorIInv ==
  ASSUME IInv, ClaimDueError
  PROVE  IInv'
  <1> USE ScheduledNotifyAssumption DEF IInv, TypeOK, ClaimDueError, Due, Lease, Row, Job, Steps, Held
  <1>1. TypeOK'
    BY DEF TypeOK
  <1>2. JobsHaveMessages' /\ OnlyStored' /\ CompletedWasSent'
    BY DEF JobsHaveMessages, OnlyStored, CompletedWasSent
  <1>3. NotificationNotLost' /\ DuplicateOnlyAfterOverrun'
    BY DEF NotificationNotLost, DuplicateOnlyAfterOverrun, SentIsCompleted, HolderIsUnique, CompletedWasSent, OnlyStored, JobsHaveMessages
  <1>4. HeldIsLeased'
    BY DEF HeldIsLeased, JobsHaveMessages, HolderIsUnique, OnlyStored
  <1>5. HolderIsUnique'
    BY DEF HolderIsUnique, HeldIsLeased, JobsHaveMessages
  <1>6. SentIsCompleted'
    BY DEF SentIsCompleted, HolderIsUnique, HeldIsLeased, JobsHaveMessages, OnlyStored
  <1> QED
    BY <1>1, <1>2, <1>3, <1>4, <1>5, <1>6

(* Looking at a due message preserves the invariant. *)
LEMMA DecideIInv ==
  ASSUME IInv, NEW w \in Workers, NEW m \in Messages, Decide(w, m)
  PROVE  IInv'
  <1> USE ScheduledNotifyAssumption DEF IInv, TypeOK, Decide, Row, Job, Steps, Held
  <1>1. TypeOK'
    BY DEF TypeOK
  <1>2. JobsHaveMessages' /\ OnlyStored' /\ CompletedWasSent'
    BY DEF JobsHaveMessages, OnlyStored, CompletedWasSent
  <1>3. NotificationNotLost' /\ DuplicateOnlyAfterOverrun'
    BY DEF NotificationNotLost, DuplicateOnlyAfterOverrun, SentIsCompleted, HolderIsUnique, CompletedWasSent, OnlyStored, JobsHaveMessages
  <1>4. HeldIsLeased'
    BY DEF HeldIsLeased, JobsHaveMessages, HolderIsUnique, OnlyStored
  <1>5. HolderIsUnique'
    BY DEF HolderIsUnique, HeldIsLeased, JobsHaveMessages
  <1>6. SentIsCompleted'
    BY DEF SentIsCompleted, HolderIsUnique, HeldIsLeased, JobsHaveMessages, OnlyStored
  <1> QED
    BY <1>1, <1>2, <1>3, <1>4, <1>5, <1>6

(* A failed look at a due message preserves the invariant. *)
LEMMA LookupErrorIInv ==
  ASSUME IInv, NEW w \in Workers, NEW m \in Messages, LookupError(w, m)
  PROVE  IInv'
  <1> USE ScheduledNotifyAssumption DEF IInv, TypeOK, LookupError, Row, Job, Steps, Held
  <1>1. TypeOK'
    BY DEF TypeOK
  <1>2. JobsHaveMessages' /\ OnlyStored' /\ CompletedWasSent'
    BY DEF JobsHaveMessages, OnlyStored, CompletedWasSent
  <1>3. NotificationNotLost' /\ DuplicateOnlyAfterOverrun'
    BY DEF NotificationNotLost, DuplicateOnlyAfterOverrun, SentIsCompleted, HolderIsUnique, CompletedWasSent, OnlyStored, JobsHaveMessages
  <1>4. HeldIsLeased'
    BY DEF HeldIsLeased, JobsHaveMessages, HolderIsUnique, OnlyStored
  <1>5. HolderIsUnique'
    BY DEF HolderIsUnique, HeldIsLeased, JobsHaveMessages
  <1>6. SentIsCompleted'
    BY DEF SentIsCompleted, HolderIsUnique, HeldIsLeased, JobsHaveMessages, OnlyStored
  <1> QED
    BY <1>1, <1>2, <1>3, <1>4, <1>5, <1>6

(* Deferring a message to the work hours preserves the invariant. *)
LEMMA DeferIInv ==
  ASSUME IInv, NEW w \in Workers, Defer(w)
  PROVE  IInv'
  <1> USE ScheduledNotifyAssumption DEF IInv, TypeOK, Defer, JobDone, Reschedule, Row, Job, Steps, Held
  <1>1. TypeOK'
    BY NextWorkTimeType DEF TypeOK, JobsHaveMessages
  <1>2. JobsHaveMessages' /\ OnlyStored' /\ CompletedWasSent'
    BY DEF JobsHaveMessages, OnlyStored, CompletedWasSent
  <1>3. NotificationNotLost' /\ DuplicateOnlyAfterOverrun'
    BY DEF NotificationNotLost, DuplicateOnlyAfterOverrun, SentIsCompleted, HolderIsUnique, CompletedWasSent, OnlyStored, JobsHaveMessages
  <1>4. HeldIsLeased'
    BY DEF HeldIsLeased, JobsHaveMessages, HolderIsUnique, OnlyStored
  <1>5. HolderIsUnique'
    BY DEF HolderIsUnique, HeldIsLeased, JobsHaveMessages
  <1>6. SentIsCompleted'
    BY DEF SentIsCompleted, HolderIsUnique, HeldIsLeased, JobsHaveMessages, OnlyStored
  <1> QED
    BY <1>1, <1>2, <1>3, <1>4, <1>5, <1>6

(* A delivery preserves the invariant. *)
LEMMA SendOKIInv ==
  ASSUME IInv, NEW w \in Workers, SendOK(w)
  PROVE  IInv'
  <1> USE ScheduledNotifyAssumption DEF IInv, TypeOK, SendOK, AtStep, Row, Job, Steps, Held
  <1>1. TypeOK'
    BY DEF TypeOK, JobsHaveMessages
  <1>2. JobsHaveMessages' /\ OnlyStored' /\ CompletedWasSent'
    BY DEF JobsHaveMessages, OnlyStored, CompletedWasSent
  <1>3. NotificationNotLost' /\ DuplicateOnlyAfterOverrun'
    BY DEF NotificationNotLost, DuplicateOnlyAfterOverrun, SentIsCompleted, HolderIsUnique, CompletedWasSent, OnlyStored, JobsHaveMessages
  <1>4. HeldIsLeased'
    BY DEF HeldIsLeased, JobsHaveMessages, HolderIsUnique, OnlyStored
  <1>5. HolderIsUnique'
    BY DEF HolderIsUnique, HeldIsLeased, JobsHaveMessages
  <1>6. SentIsCompleted'
    BY DEF SentIsCompleted, HolderIsUnique, HeldIsLeased, JobsHaveMessages, OnlyStored
  <1> QED
    BY <1>1, <1>2, <1>3, <1>4, <1>5, <1>6

(* A failed delivery preserves the invariant. *)
LEMMA SendErrorIInv ==
  ASSUME IInv, NEW w \in Workers, SendError(w)
  PROVE  IInv'
  <1> USE ScheduledNotifyAssumption DEF IInv, TypeOK, SendError, AtStep, Row, Job, Steps, Held
  <1>1. TypeOK'
    BY DEF TypeOK
  <1>2. JobsHaveMessages' /\ OnlyStored' /\ CompletedWasSent'
    BY DEF JobsHaveMessages, OnlyStored, CompletedWasSent
  <1>3. NotificationNotLost' /\ DuplicateOnlyAfterOverrun'
    BY DEF NotificationNotLost, DuplicateOnlyAfterOverrun, SentIsCompleted, HolderIsUnique, CompletedWasSent, OnlyStored, JobsHaveMessages
  <1>4. HeldIsLeased'
    BY DEF HeldIsLeased, JobsHaveMessages, HolderIsUnique, OnlyStored
  <1>5. HolderIsUnique'
    BY DEF HolderIsUnique, HeldIsLeased, JobsHaveMessages
  <1>6. SentIsCompleted'
    BY DEF SentIsCompleted, HolderIsUnique, HeldIsLeased, JobsHaveMessages, OnlyStored
  <1> QED
    BY <1>1, <1>2, <1>3, <1>4, <1>5, <1>6

(* Scheduling a retry preserves the invariant. *)
LEMMA RescheduleAfterFailureIInv ==
  ASSUME IInv, NEW w \in Workers, RescheduleAfterFailure(w)
  PROVE  IInv'
  <1> USE ScheduledNotifyAssumption DEF IInv, TypeOK, RescheduleAfterFailure, JobDone, Reschedule, Row, Job, Steps, Held
  <1>1. TypeOK'
    BY DEF TypeOK, JobsHaveMessages
  <1>2. JobsHaveMessages' /\ OnlyStored' /\ CompletedWasSent'
    BY DEF JobsHaveMessages, OnlyStored, CompletedWasSent
  <1>3. NotificationNotLost' /\ DuplicateOnlyAfterOverrun'
    BY DEF NotificationNotLost, DuplicateOnlyAfterOverrun, SentIsCompleted, HolderIsUnique, CompletedWasSent, OnlyStored, JobsHaveMessages
  <1>4. HeldIsLeased'
    BY DEF HeldIsLeased, JobsHaveMessages, HolderIsUnique, OnlyStored
  <1>5. HolderIsUnique'
    BY DEF HolderIsUnique, HeldIsLeased, JobsHaveMessages
  <1>6. SentIsCompleted'
    BY DEF SentIsCompleted, HolderIsUnique, HeldIsLeased, JobsHaveMessages, OnlyStored
  <1> QED
    BY <1>1, <1>2, <1>3, <1>4, <1>5, <1>6

(* Deleting a row preserves the invariant. *)
LEMMA CompleteIInv ==
  ASSUME IInv, NEW w \in Workers, Complete(w)
  PROVE  IInv'
  <1> USE ScheduledNotifyAssumption DEF IInv, TypeOK, Complete, JobDone, NoRow, Row, Job, Steps, Held
  <1>1. TypeOK'
    BY DEF TypeOK, JobsHaveMessages
  <1>2. JobsHaveMessages' /\ OnlyStored' /\ CompletedWasSent'
    BY DEF JobsHaveMessages, OnlyStored, CompletedWasSent
  <1>3. NotificationNotLost' /\ DuplicateOnlyAfterOverrun'
    BY DEF NotificationNotLost, DuplicateOnlyAfterOverrun, SentIsCompleted, HolderIsUnique, CompletedWasSent, OnlyStored, JobsHaveMessages
  <1>4. HeldIsLeased'
    BY DEF HeldIsLeased, JobsHaveMessages, HolderIsUnique, OnlyStored
  <1>5. HolderIsUnique'
    BY DEF HolderIsUnique, HeldIsLeased, JobsHaveMessages
  <1>6. SentIsCompleted'
    BY DEF SentIsCompleted, HolderIsUnique, HeldIsLeased, JobsHaveMessages, OnlyStored
  <1> QED
    BY <1>1, <1>2, <1>3, <1>4, <1>5, <1>6

(* A failed closing statement preserves the invariant. *)
LEMMA StoreErrorIInv ==
  ASSUME IInv, NEW w \in Workers, StoreError(w)
  PROVE  IInv'
  <1> USE ScheduledNotifyAssumption DEF IInv, TypeOK, StoreError, JobDone, Row, Job, Steps, Held
  <1>1. TypeOK'
    BY DEF TypeOK, JobsHaveMessages
  <1>2. JobsHaveMessages' /\ OnlyStored' /\ CompletedWasSent'
    BY DEF JobsHaveMessages, OnlyStored, CompletedWasSent
  <1>3. NotificationNotLost' /\ DuplicateOnlyAfterOverrun'
    BY DEF NotificationNotLost, DuplicateOnlyAfterOverrun, SentIsCompleted, HolderIsUnique, CompletedWasSent, OnlyStored, JobsHaveMessages
  <1>4. HeldIsLeased'
    BY DEF HeldIsLeased, JobsHaveMessages, HolderIsUnique, OnlyStored
  <1>5. HolderIsUnique'
    BY DEF HolderIsUnique, HeldIsLeased, JobsHaveMessages
  <1>6. SentIsCompleted'
    BY DEF SentIsCompleted, HolderIsUnique, HeldIsLeased, JobsHaveMessages, OnlyStored
  <1> QED
    BY <1>1, <1>2, <1>3, <1>4, <1>5, <1>6

(* A crash preserves the invariant. *)
LEMMA CrashIInv ==
  ASSUME IInv, NEW w \in Workers, Crash(w)
  PROVE  IInv'
  <1> USE ScheduledNotifyAssumption DEF IInv, TypeOK, Crash, Row, Job, Steps, Held
  <1>1. TypeOK'
    BY DEF TypeOK, JobsHaveMessages
  <1>2. JobsHaveMessages' /\ OnlyStored' /\ CompletedWasSent'
    BY DEF JobsHaveMessages, OnlyStored, CompletedWasSent
  <1>3. NotificationNotLost' /\ DuplicateOnlyAfterOverrun'
    BY DEF NotificationNotLost, DuplicateOnlyAfterOverrun, SentIsCompleted, HolderIsUnique, CompletedWasSent, OnlyStored, JobsHaveMessages
  <1>4. HeldIsLeased'
    BY DEF HeldIsLeased, JobsHaveMessages, HolderIsUnique, OnlyStored
  <1>5. HolderIsUnique'
    BY DEF HolderIsUnique, HeldIsLeased, JobsHaveMessages
  <1>6. SentIsCompleted'
    BY DEF SentIsCompleted, HolderIsUnique, HeldIsLeased, JobsHaveMessages, OnlyStored
  <1> QED
    BY <1>1, <1>2, <1>3, <1>4, <1>5, <1>6

(* An hour preserves the invariant. *)
LEMMA TickIInv ==
  ASSUME IInv, Tick
  PROVE  IInv'
  <1> USE ScheduledNotifyAssumption DEF IInv, TypeOK, Tick, Row, Job, Steps, Held
  <1>1. TypeOK'
    BY DEF TypeOK
  <1>2. JobsHaveMessages' /\ OnlyStored' /\ CompletedWasSent'
    BY DEF JobsHaveMessages, OnlyStored, CompletedWasSent
  <1>3. NotificationNotLost' /\ DuplicateOnlyAfterOverrun'
    BY DEF NotificationNotLost, DuplicateOnlyAfterOverrun, SentIsCompleted, HolderIsUnique, CompletedWasSent, OnlyStored, JobsHaveMessages
  <1>4. HeldIsLeased'
    BY DEF HeldIsLeased, JobsHaveMessages, HolderIsUnique, OnlyStored
  <1>5. HolderIsUnique'
    BY DEF HolderIsUnique, HeldIsLeased, JobsHaveMessages
  <1>6. SentIsCompleted'
    BY DEF SentIsCompleted, HolderIsUnique, HeldIsLeased, JobsHaveMessages, OnlyStored
  <1> QED
    BY <1>1, <1>2, <1>3, <1>4, <1>5, <1>6

(* The end of a retry delay preserves the invariant. *)
LEMMA RetryDelayEndsIInv ==
  ASSUME IInv, NEW m \in Messages, RetryDelayEnds(m)
  PROVE  IInv'
  <1> USE ScheduledNotifyAssumption DEF IInv, TypeOK, RetryDelayEnds, Row, Job, Steps, Held
  <1>1. TypeOK'
    BY DEF TypeOK
  <1>2. JobsHaveMessages' /\ OnlyStored' /\ CompletedWasSent'
    BY DEF JobsHaveMessages, OnlyStored, CompletedWasSent
  <1>3. NotificationNotLost' /\ DuplicateOnlyAfterOverrun'
    BY DEF NotificationNotLost, DuplicateOnlyAfterOverrun, SentIsCompleted, HolderIsUnique, CompletedWasSent, OnlyStored, JobsHaveMessages
  <1>4. HeldIsLeased'
    BY DEF HeldIsLeased, JobsHaveMessages, HolderIsUnique, OnlyStored
  <1>5. HolderIsUnique'
    BY DEF HolderIsUnique, HeldIsLeased, JobsHaveMessages
  <1>6. SentIsCompleted'
    BY DEF SentIsCompleted, HolderIsUnique, HeldIsLeased, JobsHaveMessages, OnlyStored
  <1> QED
    BY <1>1, <1>2, <1>3, <1>4, <1>5, <1>6

(* The end of a lease preserves the invariant. *)
LEMMA LeaseExpiresIInv ==
  ASSUME IInv, NEW m \in Messages, LeaseExpires(m)
  PROVE  IInv'
  <1> USE ScheduledNotifyAssumption DEF IInv, TypeOK, LeaseExpires, Row, Job, Steps, Held
  <1>1. TypeOK'
    BY DEF TypeOK
  <1>2. JobsHaveMessages' /\ OnlyStored' /\ CompletedWasSent'
    BY DEF JobsHaveMessages, OnlyStored, CompletedWasSent
  <1>3. NotificationNotLost' /\ DuplicateOnlyAfterOverrun'
    BY DEF NotificationNotLost, DuplicateOnlyAfterOverrun, SentIsCompleted, HolderIsUnique, CompletedWasSent, OnlyStored, JobsHaveMessages
  <1>4. HeldIsLeased'
    BY DEF HeldIsLeased, JobsHaveMessages, HolderIsUnique, OnlyStored
  <1>5. HolderIsUnique'
    BY DEF HolderIsUnique, HeldIsLeased, JobsHaveMessages
  <1>6. SentIsCompleted'
    BY DEF SentIsCompleted, HolderIsUnique, HeldIsLeased, JobsHaveMessages, OnlyStored
  <1> QED
    BY <1>1, <1>2, <1>3, <1>4, <1>5, <1>6

(* A change of settings preserves the invariant. *)
LEMMA SetWorkHoursIInv ==
  ASSUME IInv, NEW p \in Prefs, SetWorkHours(p)
  PROVE  IInv'
  <1> USE ScheduledNotifyAssumption DEF IInv, TypeOK, SetWorkHours, Row, Job, Steps, Held
  <1>1. TypeOK'
    BY DEF TypeOK
  <1>2. JobsHaveMessages' /\ OnlyStored' /\ CompletedWasSent'
    BY DEF JobsHaveMessages, OnlyStored, CompletedWasSent
  <1>3. NotificationNotLost' /\ DuplicateOnlyAfterOverrun'
    BY DEF NotificationNotLost, DuplicateOnlyAfterOverrun, SentIsCompleted, HolderIsUnique, CompletedWasSent, OnlyStored, JobsHaveMessages
  <1>4. HeldIsLeased'
    BY DEF HeldIsLeased, JobsHaveMessages, HolderIsUnique, OnlyStored
  <1>5. HolderIsUnique'
    BY DEF HolderIsUnique, HeldIsLeased, JobsHaveMessages
  <1>6. SentIsCompleted'
    BY DEF SentIsCompleted, HolderIsUnique, HeldIsLeased, JobsHaveMessages, OnlyStored
  <1> QED
    BY <1>1, <1>2, <1>3, <1>4, <1>5, <1>6

-----------------------------------------------------------------------------
(* The inductive invariant holds in every reachable state of the scheduled *)
(* notifications: one lemma per disjunct of Next shows that it is kept.    *)
THEOREM Invariance == Spec => []IInv
  <1>1. IInv /\ [Next]_vars => IInv'
    <2> SUFFICES ASSUME IInv, [Next]_vars PROVE IInv'
      OBVIOUS
    <2>1. CASE UNCHANGED vars
      <3> USE <2>1 DEF IInv, vars, Held
      <3>1. TypeOK'
        BY DEF TypeOK
      <3>2. JobsHaveMessages' /\ OnlyStored' /\ CompletedWasSent' /\ NotificationNotLost'
        BY DEF JobsHaveMessages, OnlyStored, CompletedWasSent, NotificationNotLost
      <3>3. HeldIsLeased' /\ HolderIsUnique' /\ SentIsCompleted' /\ DuplicateOnlyAfterOverrun'
        BY DEF HeldIsLeased, HolderIsUnique, SentIsCompleted, DuplicateOnlyAfterOverrun
      <3> QED
        BY <3>1, <3>2, <3>3
    <2>2. ASSUME NEW m \in Messages,
                 \/ NotifyUser(m) \/ Schedule(m) \/ NotifyError(m)
                 \/ RetryDelayEnds(m) \/ LeaseExpires(m)
          PROVE  IInv'
      BY <2>2, NotifyUserIInv, ScheduleIInv, NotifyErrorIInv, RetryDelayEndsIInv, LeaseExpiresIInv
    <2>3. ASSUME NEW w \in Workers, Work(w) PROVE IInv'
      BY <2>3, ClaimDueIInv, DecideIInv, LookupErrorIInv, DeferIInv, SendOKIInv,
         SendErrorIInv, RescheduleAfterFailureIInv, CompleteIInv DEF Work
    <2>4. ASSUME NEW w \in Workers, StoreError(w) \/ Crash(w) PROVE IInv'
      BY <2>4, StoreErrorIInv, CrashIInv
    <2>5. CASE ClaimDueError \/ Tick \/ \E p \in Prefs : SetWorkHours(p)
      BY <2>5, ClaimDueErrorIInv, TickIInv, SetWorkHoursIInv
    <2> QED
      BY <2>1, <2>2, <2>3, <2>4, <2>5 DEF Next
  <1> QED
    BY InitIInv, <1>1, PTL DEF Spec

(* The queue of delayed notifications keeps its types. *)
THEOREM TypeCorrect == Spec => []TypeOK
  <1>1. IInv => TypeOK
    BY DEF IInv
  <1> QED
    BY Invariance, <1>1, PTL

(* A row of scheduled_notifications disappears only after its message was  *)
(* sent.                                                                   *)
THEOREM NotificationsAreNotLost == Spec => []NotificationNotLost
  <1>1. IInv => NotificationNotLost
    BY DEF IInv
  <1> QED
    BY Invariance, <1>1, PTL

(* A second delivery needs an overrun lease or an unfinished deletion.     *)
THEOREM DuplicatesNeedOverrun == Spec => []DuplicateOnlyAfterOverrun
  <1>1. IInv => DuplicateOnlyAfterOverrun
    BY DEF IInv
  <1> QED
    BY Invariance, <1>1, PTL

(* A worker about to send is inside the current work hours unless the hour *)
(* or the settings changed after its decision.                             *)
THEOREM QuietHoursAreKept == Spec => []QuietHoursKept
  <1>1. Init => QuietHoursKept
    BY DEF Init, QuietHoursKept
  <1>2. TypeOK /\ QuietHoursKept /\ [Next]_vars => QuietHoursKept'
    <2> SUFFICES ASSUME TypeOK, QuietHoursKept, [Next]_vars PROVE QuietHoursKept'
      OBVIOUS
    <2> USE DEF TypeOK, QuietHoursKept, ShouldDelay, Job, Steps
    <2>1. CASE UNCHANGED vars
      BY <2>1 DEF vars, WithinWorkHours, LocalHour
    <2>2. ASSUME NEW w \in Workers, NEW m \in Messages, Decide(w, m)
          PROVE  QuietHoursKept'
      <3>1. WithinWorkHours(prefs, hour)' = WithinWorkHours(prefs, hour)
        BY <2>2 DEF Decide, WithinWorkHours, LocalHour
      <3>2. job'[w].step = "send" => WithinWorkHours(prefs, hour)
        BY <2>2 DEF Decide
      <3>3. \A v \in Workers \ {w} : job'[v] = job[v]
        BY <2>2, Zenon DEF Decide
      <3>4. fresh' = fresh \cup {w}
        BY <2>2 DEF Decide
      <3> QED
        BY <3>1, <3>2, <3>3, <3>4
    <2>3. CASE Tick \/ \E p \in Prefs : SetWorkHours(p)
      BY <2>3 DEF Tick, SetWorkHours
    <2>4. ASSUME /\ UNCHANGED <<hour, prefs>>
                 /\ fresh' \subseteq fresh
                 /\ \A v \in Workers : job'[v].step = "send" => job[v].step = "send"
          PROVE  QuietHoursKept'
      BY <2>4 DEF WithinWorkHours, LocalHour
    <2>5. ASSUME NEW w \in Workers, Work(w), \A m \in Messages : ~Decide(w, m)
          PROVE  QuietHoursKept'
      <3>1. UNCHANGED <<hour, prefs>> /\ fresh' \subseteq fresh
        BY <2>5 DEF Work, ClaimDue, LookupError, Defer, SendOK, SendError,
                    RescheduleAfterFailure, Complete, JobDone
      <3>2. \A v \in Workers : job'[v].step = "send" => job[v].step = "send"
        <4>1. CASE JobDone(w)
          BY <4>1 DEF JobDone
        <4>2. CASE ClaimDue(w)
          BY <4>2 DEF ClaimDue
        <4>3. CASE Defer(w) \/ RescheduleAfterFailure(w) \/ Complete(w)
          BY <4>1, <4>3 DEF Defer, RescheduleAfterFailure, Complete
        <4>4. CASE SendOK(w) \/ SendError(w)
          BY <4>4 DEF SendOK, SendError, AtStep
        <4>5. CASE \E m \in Messages : LookupError(w, m)
          BY <4>5 DEF LookupError
        <4> QED
          BY <2>5, <4>2, <4>3, <4>4, <4>5 DEF Work
      <3> QED
        BY <2>4, <3>1, <3>2
    <2>6. ASSUME NEW w \in Workers, StoreError(w) \/ Crash(w) PROVE QuietHoursKept'
      BY <2>4, <2>6 DEF StoreError, Crash, JobDone
    <2>7. ASSUME NEW m \in Messages,
                 \/ NotifyUser(m) \/ Schedule(m) \/ NotifyError(m)
                 \/ RetryDelayEnds(m) \/ LeaseExpires(m)
          PROVE  QuietHoursKept'
      BY <2>4, <2>7 DEF NotifyUser, Schedule, NotifyError, RetryDelayEnds, LeaseExpires
    <2>8. CASE ClaimDueError
      BY <2>4, <2>8 DEF ClaimDueError
    <2> QED
      BY <2>1, <2>2, <2>3, <2>5, <2>6, <2>7, <2>8 DEF Next, Work
  <1> QED
    BY <1>1, <1>2, TypeCorrect, PTL DEF Spec

-----------------------------------------------------------------------------
(* Remainders are unique. *)
LEMMA SameRemainder ==
  ASSUME NEW n \in Nat \ {0}, NEW q \in Int, NEW p \in Int, NEW r \in 0..(n - 1), NEW s \in 0..(n - 1),
         n * q + r = n * p + s
  PROVE  r = s
  <1>1. CASE q = p
    BY <1>1
  <1>2. ASSUME NEW x \in Int, NEW y \in Int, x > y
        PROVE  n * x >= n * y + n
    <2>1. PICK d \in Nat : x = y + 1 + d
      <3>1. x - y - 1 \in Nat /\ x = y + 1 + (x - y - 1)
        BY <1>2
      <3> QED
        BY <3>1
    <2>2. n * x = n * y + n + n * d
      BY <2>1
    <2>3. n * d >= 0
      BY <2>1
    <2>4. n * x \in Int /\ n * y \in Int /\ n * d \in Int
      BY <2>1
    <2> QED
      BY <2>2, <2>3, <2>4
  <1>3. n * q \in Int /\ n * p \in Int
    OBVIOUS
  <1>4. CASE q > p
    BY <1>2, <1>3, <1>4
  <1>5. CASE q < p
    BY <1>2, <1>3, <1>5
  <1> QED
    BY <1>1, <1>4, <1>5

LEMMA Division ==
  ASSUME NEW n \in Nat \ {0}, NEW a \in Nat
  PROVE  \E q \in Int, r \in 0..(n - 1) :
            a % n = r /\ a = n * q + r /\ n * q \in Int /\ n * (q + 1) = n * q + n
  <1>1. PICK q \in Int, r \in 0..(n - 1) : q = a \div n /\ r = a % n
    OBVIOUS
  <1>2. a = q * n + r
    BY <1>1
  <1>3. n * q \in Int /\ n * (q + 1) = n * q + n /\ q * n = n * q
    OBVIOUS
  <1> QED
    BY <1>1, <1>2, <1>3

LEMMA Remainder ==
  ASSUME NEW n \in Nat \ {0}, NEW a \in Nat, NEW r \in 0..(n - 1), NEW q \in Int, a = n * q + r
  PROVE  a % n = r
  <1>1. PICK p \in Int, s \in 0..(n - 1) :
           a % n = s /\ a = n * p + s /\ n * p \in Int /\ n * (p + 1) = n * p + n
    BY Division
  <1>2. n * q + r = n * p + s
    BY <1>1
  <1>3. r = s
    BY <1>2, SameRemainder
  <1> QED
    BY <1>1, <1>3

(* The local hour some hours later, past midnight or not. *)
LEMMA LocalHourLater ==
  ASSUME NEW p \in WorkHours, NEW h \in Nat, NEW k \in Nat, NEW l, l = LocalHour(p, h)
  PROVE  /\ l \in 0..(HoursPerDay - 1)
         /\ l + k < HoursPerDay => LocalHour(p, h + k) = l + k
         /\ l + k >= HoursPerDay /\ k <= HoursPerDay => LocalHour(p, h + k) = l + k - HoursPerDay
  <1>1. PICK n \in Nat \ {0} : n = HoursPerDay
    BY ScheduledNotifyAssumption
  <1>2. PICK a \in Nat : a = h + p.tz
    BY <1>1 DEF WorkHours
  <1>3. l = a % n
    BY <1>1, <1>2 DEF LocalHour
  <1>4. PICK q \in Int, r \in 0..(n - 1) :
           a % n = r /\ a = n * q + r /\ n * q \in Int /\ n * (q + 1) = n * q + n
    BY Division
  <1>5. PICK b \in Nat : b = a + k
    OBVIOUS
  <1>6. LocalHour(p, h + k) = b % n
    <2>1. p.tz \in Nat
      BY <1>1 DEF WorkHours
    <2>2. (h + k) + p.tz = b
      BY <1>2, <1>5, <2>1
    <2> QED
      BY <1>1, <2>2 DEF LocalHour
  <1>7. l = r
    BY <1>3, <1>4
  <1>8. ASSUME r + k < n
        PROVE  b % n = r + k
    <2>1. PICK t \in 0..(n - 1) : t = r + k
      BY <1>8
    <2>2. b = n * q + t
      BY <1>4, <1>5, <2>1
    <2>3. b % n = t
      BY <2>2, Remainder
    <2> QED
      BY <2>1, <2>3
  <1>9. ASSUME r + k >= n, k <= n
        PROVE  b % n = r + k - n
    <2>1. PICK t \in 0..(n - 1) : t = r + k - n
      BY <1>9
    <2>2. PICK v \in Int : v = q + 1
      OBVIOUS
    <2>3. b = n * v + t
      BY <1>4, <1>5, <2>1, <2>2
    <2>4. b % n = t
      BY <2>3, Remainder
    <2> QED
      BY <2>1, <2>4
  <1> QED
    BY <1>1, <1>6, <1>7, <1>8, <1>9

(* Midnight in UTC does not change the local hour. *)
LEMMA LocalHourOfDay ==
  ASSUME NEW p \in WorkHours, NEW h \in Nat, NEW k \in Nat
  PROVE  LocalHour(p, (h % HoursPerDay) + k) = LocalHour(p, h + k)
  <1>1. PICK n \in Nat \ {0} : n = HoursPerDay
    BY ScheduledNotifyAssumption
  <1>2. PICK c \in Nat : c = k + p.tz
    BY <1>1 DEF WorkHours
  <1>3. PICK q \in Int, s \in 0..(n - 1) : h % n = s /\ h = n * q + s /\ n * q \in Int
    BY Division
  <1>4. PICK e \in Nat, f \in Nat : e = s + c /\ f = h + c
    <2>1. s + c \in Nat /\ h + c \in Nat
      OBVIOUS
    <2> QED
      BY <2>1
  <1>5. PICK u \in Int, r \in 0..(n - 1) :
           e % n = r /\ e = n * u + r /\ n * u \in Int /\ n * (u + 1) = n * u + n
    BY Division
  <1>6. PICK v \in Int : v = q + u
    OBVIOUS
  <1>7. n * v = n * q + n * u
    BY <1>6
  <1>8. f = n * v + r
    BY <1>3, <1>4, <1>5, <1>7
  <1>9. f % n = e % n
    BY <1>5, <1>8, Remainder
  <1>10. p.tz \in Nat
    BY <1>1 DEF WorkHours
  <1>11. (s + k) + p.tz = e /\ (h + k) + p.tz = f
    BY <1>2, <1>4, <1>10
  <1> QED
    BY <1>1, <1>3, <1>9, <1>11 DEF LocalHour

(* What nextWorkTime computes: the hours until the clock shows the opening. *)
LEMMA NextWorkTimeOpens ==
  ASSUME NEW p \in Prefs, NEW h \in Nat, NEW n, n = NextWorkTime(p, h), NEW l, l = LocalHour(p, h)
  PROVE  /\ p \in WorkHours /\ l \in 0..(HoursPerDay - 1) /\ p.start \in 0..(HoursPerDay - 1)
         /\ p.end \in 0..(HoursPerDay - 1) /\ HoursPerDay \in Nat
         /\ p.on => /\ n = (IF l < p.start THEN p.start - l ELSE p.start + HoursPerDay - l)
                    /\ n \in 1..HoursPerDay /\ LocalHour(p, h + n) = p.start
         /\ ~p.on => n = 0
  <1>1. p \in WorkHours /\ HoursPerDay \in Nat
    BY ScheduledNotifyAssumption
  <1>2. l \in 0..(HoursPerDay - 1)
    BY <1>1, LocalHourLater
  <1>3. p.start \in 0..(HoursPerDay - 1) /\ p.end \in 0..(HoursPerDay - 1)
    BY <1>1 DEF WorkHours
  <1>4. /\ p.on => n = IF l < p.start THEN p.start - l ELSE p.start + HoursPerDay - l
        /\ ~p.on => n = 0
    BY DEF NextWorkTime
  <1>5. ASSUME p.on
        PROVE  n \in 1..HoursPerDay /\ LocalHour(p, h + n) = p.start
    <2>1. n \in 1..HoursPerDay /\ n \in Nat
      BY <1>1, <1>2, <1>3, <1>4, <1>5
    <2>2. /\ l + n < HoursPerDay => LocalHour(p, h + n) = l + n
          /\ l + n >= HoursPerDay /\ n <= HoursPerDay => LocalHour(p, h + n) = l + n - HoursPerDay
      BY <1>1, <2>1, LocalHourLater
    <2>3. CASE l < p.start
      <3>1. l + n = p.start /\ l + n < HoursPerDay
        BY <1>1, <1>2, <1>3, <1>4, <1>5, <2>3
      <3> QED
        BY <2>1, <2>2, <3>1
    <2>4. CASE ~(l < p.start)
      <3>1. l + n - HoursPerDay = p.start /\ l + n >= HoursPerDay /\ n <= HoursPerDay
        BY <1>1, <1>2, <1>3, <1>4, <1>5, <2>4
      <3> QED
        BY <2>1, <2>2, <3>1
    <2> QED
      BY <2>3, <2>4
  <1> QED
    BY <1>1, <1>2, <1>3, <1>4, <1>5

(* nextWorkTime is the first hour inside the work hours, seen from any     *)
(* moment outside them, for every time zone and for work hours over        *)
(* midnight.  (nextWorkTimeAt and isWithinWorkHoursAt in                   *)
(* notification/notify.go.)                                                *)
THEOREM OpeningsAreNotSkipped == Spec => []NextWorkTimeIsFirstOpening
  <1>1. TypeOK => NextWorkTimeIsFirstOpening
    <2> SUFFICES ASSUME TypeOK, ShouldDelay(prefs, hour)
                 PROVE  /\ NextWorkTime(prefs, hour) > 0
                        /\ WithinWorkHours(prefs, hour + NextWorkTime(prefs, hour))
                        /\ \A k \in 1..(NextWorkTime(prefs, hour) - 1) : ~WithinWorkHours(prefs, hour + k)
      BY DEF NextWorkTimeIsFirstOpening
    <2>1. PICK p, h, n, l : p = prefs /\ h = hour /\ n = NextWorkTime(prefs, hour) /\ l = LocalHour(prefs, hour)
      OBVIOUS
    <2>2. p \in Prefs /\ h \in Nat
      BY <2>1, ScheduledNotifyAssumption DEF TypeOK
    <2>3. p.on /\ p.start # p.end /\ ~WithinWorkHours(p, h)
      BY <2>1, <2>2, ScheduledNotifyAssumption DEF ShouldDelay, WithinWorkHours
    <2>4. /\ p \in WorkHours /\ l \in 0..(HoursPerDay - 1) /\ p.start \in 0..(HoursPerDay - 1)
          /\ p.end \in 0..(HoursPerDay - 1) /\ HoursPerDay \in Nat
          /\ n = (IF l < p.start THEN p.start - l ELSE p.start + HoursPerDay - l)
          /\ n \in 1..HoursPerDay /\ LocalHour(p, h + n) = p.start
      BY <2>1, <2>2, <2>3, NextWorkTimeOpens
    <2>5. WithinWorkHours(p, h + n)
      BY <2>3, <2>4 DEF WithinWorkHours
    <2>6. /\ p.start < p.end => l < p.start \/ l >= p.end
          /\ p.start > p.end => l >= p.end /\ l < p.start
      BY <2>1, <2>3, <2>4 DEF WithinWorkHours
    <2>7. ASSUME NEW k \in 1..(n - 1)
          PROVE  ~WithinWorkHours(p, h + k)
      <3>1. k \in Nat /\ k <= HoursPerDay /\ k < n
        BY <2>4
      <3>2. PICK x : x = LocalHour(p, h + k)
        OBVIOUS
      <3>3. x = IF l + k < HoursPerDay THEN l + k ELSE l + k - HoursPerDay
        BY <2>1, <2>2, <2>4, <3>1, <3>2, LocalHourLater
      <3>4. ~(p.start <= p.end /\ p.start <= x /\ x < p.end)
        BY <2>3, <2>4, <2>6, <3>1, <3>3
      <3>5. ~(p.start > p.end /\ (p.start <= x \/ x < p.end))
        BY <2>3, <2>4, <2>6, <3>1, <3>3
      <3> QED
        BY <2>3, <3>2, <3>4, <3>5 DEF WithinWorkHours
    <2> QED
      BY <2>1, <2>4, <2>5, <2>7
  <1> QED
    BY <1>1, TypeCorrect, PTL

-----------------------------------------------------------------------------
(* A row that waits is stored, and it waits until the opening of the       *)
(* settings it was scheduled under.                                        *)
OnTime(r, p, h) == r.wait > 0 => r.stored /\ LocalHour(p, h + r.wait) = p.start

WaitsForOpening == \A m \in Messages : OnTime(row[m], plan[m], hour)

(* A row that is scheduled now waits for the opening. *)
LEMMA ScheduledOnTime ==
  ASSUME NEW p \in Prefs, NEW h \in Nat, NEW r, r.wait = NextWorkTime(p, h), r.stored
  PROVE  OnTime(r, p, h)
  <1>1. PICK n : n = NextWorkTime(p, h)
    OBVIOUS
  <1>2. PICK l : l = LocalHour(p, h)
    OBVIOUS
  <1>3. (p.on => LocalHour(p, h + n) = p.start) /\ (~p.on => n = 0)
    BY <1>1, <1>2, NextWorkTimeOpens
  <1>4. CASE p.on
    BY <1>1, <1>3, <1>4 DEF OnTime
  <1>5. CASE ~p.on
    BY <1>1, <1>3, <1>5 DEF OnTime
  <1> QED
    BY <1>4, <1>5

(* An hour later it waits one hour less. *)
LEMMA OnTimeAnHourLater ==
  ASSUME NEW p \in Prefs, NEW h \in Nat, NEW r, NEW s, r.wait \in Nat, OnTime(r, p, h),
         s.stored = r.stored, s.wait = IF r.wait > 0 THEN r.wait - 1 ELSE 0
  PROVE  OnTime(s, p, (h + 1) % HoursPerDay)
  <1> SUFFICES ASSUME s.wait > 0
               PROVE  s.stored /\ LocalHour(p, ((h + 1) % HoursPerDay) + s.wait) = p.start
    BY DEF OnTime
  <1>1. PICK w \in Nat, v \in Nat, g \in Nat : w = r.wait /\ v = s.wait /\ g = h + 1 /\ g + v = h + w /\ w > 0
    BY ONLY r.wait \in Nat, s.wait > 0, s.wait = IF r.wait > 0 THEN r.wait - 1 ELSE 0, h \in Nat
  <1>2. p \in WorkHours
    BY ScheduledNotifyAssumption
  <1>3. LocalHour(p, (g % HoursPerDay) + v) = LocalHour(p, g + v)
    BY <1>2, LocalHourOfDay
  <1>4. LocalHour(p, h + w) = p.start /\ r.stored
    BY <1>1 DEF OnTime
  <1> QED
    BY <1>1, <1>3, <1>4

(* A step that changes neither the clock nor, of any row that waits, the   *)
(* time or the settings it was scheduled under.                            *)
LEMMA NobodyWaitsOtherwise ==
  ASSUME WaitsForOpening, hour' = hour,
         \A n \in Messages : \/ ~(row'[n].wait > 0)
                             \/ /\ row'[n].wait = row[n].wait /\ row'[n].stored = row[n].stored
                                /\ plan'[n] = plan[n]
  PROVE  WaitsForOpening'
  <1> SUFFICES ASSUME NEW n \in Messages
               PROVE  OnTime(row[n], plan[n], hour)'
    BY DEF WaitsForOpening
  <1>1. OnTime(row[n], plan[n], hour)
    BY DEF WaitsForOpening
  <1> QED
    BY <1>1 DEF OnTime

(* Every step keeps the waiting rows on time. *)
LEMMA StepWaitsForOpening ==
  ASSUME IInv, WaitsForOpening, [Next]_vars
  PROVE  WaitsForOpening'
  <1>1. /\ TypeOK /\ JobsHaveMessages /\ OnlyStored
        /\ hour \in Nat /\ prefs \in Prefs
        /\ \A n \in Messages : row[n].wait \in Nat /\ row[n] \in Row /\ plan[n] \in Prefs
        /\ \A w \in Workers : job[w].prefs \in Prefs /\ (job[w].step # "idle" => job[w].msg \in Messages)
    BY ScheduledNotifyAssumption DEF IInv, TypeOK, JobsHaveMessages, Job, Row
  <1>2. row \in [Messages -> Row] /\ plan \in [Messages -> Prefs]
    BY <1>1 DEF TypeOK
  <1>3. ASSUME NEW m \in Messages, NotifyUser(m)
        PROVE  WaitsForOpening'
    <2>1. hour' = hour /\ row' = row /\ plan' = [plan EXCEPT ![m] = prefs] /\ stage[m] = "new"
      BY <1>3 DEF NotifyUser
    <2>2. ~row[m].stored
      BY <1>1, <2>1 DEF OnlyStored
    <2>3. ~(row[m].wait > 0)
      BY <2>2 DEF WaitsForOpening, OnTime
    <2> QED
      BY <1>2, <2>1, <2>3, NobodyWaitsOtherwise
  <1>4. ASSUME NEW m \in Messages, Schedule(m)
        PROVE  WaitsForOpening'
    <2>1. PICK r : r = [stored |-> TRUE, wait |-> NextWorkTime(plan[m], hour), backoff |-> FALSE, leased |-> FALSE]
      OBVIOUS
    <2>2. hour' = hour /\ plan' = plan /\ row' = [row EXCEPT ![m] = r]
      BY <1>4, <2>1 DEF Schedule
    <2>3. OnTime(r, plan[m], hour)
      BY <1>1, <2>1, ScheduledOnTime
    <2>4. ASSUME NEW n \in Messages
          PROVE  OnTime(row'[n], plan[n], hour)
      BY <1>2, <2>2, <2>3 DEF WaitsForOpening
    <2> QED
      BY <2>2, <2>4 DEF WaitsForOpening
  <1>5. ASSUME NEW w \in Workers, Defer(w)
        PROVE  WaitsForOpening'
    <2>1. PICK m \in Messages, p \in Prefs : m = job[w].msg /\ p = job[w].prefs
      BY <1>1, <1>5 DEF Defer
    <2>2. hour' = hour /\ plan' = [plan EXCEPT ![m] = p]
      BY <1>5, <2>1 DEF Defer, JobDone
    <2>3. PICK r : r = IF ~row[m].stored THEN row[m]
                       ELSE [stored |-> TRUE, wait |-> NextWorkTime(p, hour), backoff |-> FALSE, leased |-> FALSE]
      OBVIOUS
    <2>4. row' = [row EXCEPT ![m] = r]
      BY <1>5, <2>1, <2>3 DEF Defer, Reschedule
    <2>5. OnTime(r, p, hour)
      <3>1. CASE row[m].stored
        BY <1>1, <2>3, <3>1, ScheduledOnTime
      <3>2. CASE ~row[m].stored
        BY <2>3, <3>2 DEF WaitsForOpening, OnTime
      <3> QED
        BY <3>1, <3>2
    <2>6. ASSUME NEW n \in Messages
          PROVE  OnTime(row'[n], plan'[n], hour)
      BY <1>2, <2>2, <2>4, <2>5 DEF WaitsForOpening
    <2> QED
      BY <2>2, <2>6 DEF WaitsForOpening
  <1>6. ASSUME NEW w \in Workers, RescheduleAfterFailure(w)
        PROVE  WaitsForOpening'
    <2>1. PICK m \in Messages : m = job[w].msg
      BY <1>1, <1>6 DEF RescheduleAfterFailure
    <2>2. PICK r : r = IF ~row[m].stored THEN row[m]
                       ELSE [stored |-> TRUE, wait |-> 0, backoff |-> TRUE, leased |-> FALSE]
      OBVIOUS
    <2>3. hour' = hour /\ plan' = plan /\ row' = [row EXCEPT ![m] = r]
      BY <1>6, <2>1, <2>2 DEF RescheduleAfterFailure, Reschedule, JobDone
    <2>4. r = row[m] \/ r.wait = 0
      BY <2>2
    <2> QED
      BY <1>2, <2>3, <2>4, NobodyWaitsOtherwise
  <1>7. ASSUME NEW w \in Workers, Complete(w)
        PROVE  WaitsForOpening'
    <2>1. hour' = hour /\ plan' = plan /\ row' = [row EXCEPT ![job[w].msg] = NoRow] /\ NoRow.wait = 0
      BY <1>7 DEF Complete, JobDone, NoRow
    <2>2. \A n \in Messages : row'[n] = row[n] \/ row'[n].wait = 0
      BY <1>2, <2>1
    <2> QED
      BY <2>1, <2>2, NobodyWaitsOtherwise
  <1>8. ASSUME Tick
        PROVE  WaitsForOpening'
    <2> SUFFICES ASSUME NEW n \in Messages
                 PROVE  OnTime(row[n], plan[n], hour)'
      BY DEF WaitsForOpening
    <2>1. PICK r \in Row, p \in Prefs, h \in Nat : r = row[n] /\ p = plan[n] /\ h = hour
      BY <1>1
    <2>2. PICK s : s = row'[n]
      OBVIOUS
    <2>3. plan'[n] = p /\ hour' = (h + 1) % HoursPerDay
      BY <1>8, <2>1 DEF Tick
    <2>4. s.stored = r.stored /\ s.wait = IF r.wait > 0 THEN r.wait - 1 ELSE 0
      BY <1>8, <2>1, <2>2 DEF Tick
    <2>5. r.wait \in Nat /\ OnTime(r, p, h)
      BY <1>1, <2>1 DEF WaitsForOpening
    <2>6. OnTime(s, p, (h + 1) % HoursPerDay)
      BY <2>4, <2>5, OnTimeAnHourLater
    <2> QED
      BY <2>1, <2>3, <2>6, <2>2
  <1>9. ASSUME NEW m \in Messages, RetryDelayEnds(m) \/ LeaseExpires(m)
        PROVE  WaitsForOpening'
    <2>1. hour' = hour /\ plan' = plan
      BY <1>9 DEF RetryDelayEnds, LeaseExpires
    <2>2. \A n \in Messages : row'[n].wait = row[n].wait /\ row'[n].stored = row[n].stored
      BY <1>2, <1>9 DEF RetryDelayEnds, LeaseExpires
    <2> QED
      BY <2>1, <2>2, NobodyWaitsOtherwise
  <1>10. ASSUME NEW S, Lease(S), hour' = hour, plan' = plan
         PROVE  WaitsForOpening'
    <2>1. \A n \in Messages : row'[n].wait = row[n].wait /\ row'[n].stored = row[n].stored
      BY <1>10 DEF Lease
    <2> QED
      BY <1>10, <2>1, NobodyWaitsOtherwise
  <1>11. ASSUME UNCHANGED <<hour, row, plan>>
         PROVE  WaitsForOpening'
    BY <1>11, NobodyWaitsOtherwise
  <1>12. CASE ClaimDueError \/ \E w \in Workers : ClaimDue(w)
    BY <1>10, <1>12 DEF ClaimDueError, ClaimDue
  <1>13. ASSUME NEW w \in Workers, NEW m \in Messages, Decide(w, m) \/ LookupError(w, m)
         PROVE  WaitsForOpening'
    BY <1>11, <1>13 DEF Decide, LookupError
  <1>14. ASSUME NEW w \in Workers, SendOK(w) \/ SendError(w) \/ StoreError(w) \/ Crash(w)
         PROVE  WaitsForOpening'
    BY <1>11, <1>14 DEF SendOK, SendError, StoreError, Crash, JobDone
  <1>15. CASE \/ \E m \in Messages : NotifyError(m)
              \/ \E p \in Prefs : SetWorkHours(p)
              \/ UNCHANGED vars
    BY <1>11, <1>15 DEF NotifyError, SetWorkHours, vars
  <1> QED
    BY <1>3, <1>4, <1>5, <1>6, <1>7, <1>8, <1>9, <1>12, <1>13, <1>14, <1>15 DEF Next, Work

(* A row waiting for its work hours comes due exactly at the opening hour  *)
(* of the settings it was scheduled under, whatever happened to the rows,  *)
(* the workers and the settings meanwhile.  (schedule, processScheduled    *)
(* and nextWorkTimeAt in notification/notify.go.)                          *)
THEOREM RowsComeDueAtOpening == Spec => []DueAtOpening
  <1>1. Init => WaitsForOpening
    BY DEF Init, WaitsForOpening, OnTime, NoRow
  <1>2. IInv /\ WaitsForOpening /\ [Next]_vars => WaitsForOpening'
    BY StepWaitsForOpening
  <1>3. WaitsForOpening => DueAtOpening
    BY DEF WaitsForOpening, OnTime, DueAtOpening
  <1> QED
    BY <1>1, <1>2, <1>3, Invariance, PTL DEF Spec

=============================================================================
