--------------------------- MODULE ScheduledNotify ---------------------------
(***************************************************************************)
(* Delayed notifications of one user: NotifyAPI                            *)
(* (internal/notification/notify.go), its Postgres queue                   *)
(* (internal/notification/pg_scheduled_store.go) and the work-hours        *)
(* arithmetic.                                                             *)
(*                                                                         *)
(* The clock counts hours of a day.  A row stores the whole hours left     *)
(* until send_at; the minutes of a retry delay and of the claim lease are  *)
(* flags that end at any moment.  Work hours and time zone can be changed  *)
(* (core.settings) between any two steps, and time.Now() is read again     *)
(* wherever the code reads it again.                                       *)
(***************************************************************************)
EXTENDS Naturals, FiniteSets

CONSTANTS
    Messages,     \* notifications of priority below critical
    Workers,      \* processes running startWorker
    HoursPerDay,  \* 24
    Prefs,        \* work-hours settings the user may choose
    ClaimLimit,   \* n.claimLimit
    MaxFaults,    \* bound on crashes and failed store statements
    MaxChanges,   \* bound on changes of the settings
    NoMessage

(* WorkHoursStart/End nil or not, hours of the day, UTC offset.            *)
WorkHours == [on : BOOLEAN, start : 0..(HoursPerDay - 1),
              end : 0..(HoursPerDay - 1), tz : 0..(HoursPerDay - 1)]

(* validateHoursRange rejects start = end.                                 *)
ASSUME ScheduledNotifyAssumption ==
    /\ HoursPerDay \in Nat \ {0}
    /\ Prefs \subseteq WorkHours /\ Prefs # {}
    /\ \A p \in Prefs : p.on => p.start # p.end
    /\ ClaimLimit \in Nat \ {0}
    /\ MaxFaults \in Nat /\ MaxChanges \in Nat
    /\ NoMessage \notin Messages

VARIABLES
    hour,      \* hour of the day, UTC
    prefs,     \* the row of notification_prefs
    stage,     \* stage[m]: where NotifyUser is with m
    row,       \* row[m]: the row of scheduled_notifications
    plan,      \* plan[m]: the settings read before m was last (re)scheduled
    batch,     \* batch[w]: messages claimed by w and not processed yet
    job,       \* job[w]: the message w is processing, its step and settings
    faults, changes,
    \* history, read by the properties only
    sent,      \* sent[m]: 0, 1 or 2 (more than once)
    suspect,   \* messages overrun by their lease, or sent and not completed
    fresh      \* workers whose decision is not older than the hour and settings

vars == <<hour, prefs, stage, row, plan, batch, job, faults, changes, sent, suspect, fresh>>

-----------------------------------------------------------------------------
LocalHour(p, h) == (h + p.tz) % HoursPerDay

(* isWithinWorkHoursAt; a range with start > end goes over midnight.       *)
WithinWorkHours(p, h) ==
    LET l == LocalHour(p, h) IN
    \/ ~p.on
    \/ p.start <= p.end /\ p.start <= l /\ l < p.end
    \/ p.start > p.end /\ (p.start <= l \/ l < p.end)

(* Mutant: an opening still ahead today is skipped.                        *)
NextWorkTimeAlwaysTomorrow(p, h) ==
    IF ~p.on THEN 0 ELSE p.start + HoursPerDay - LocalHour(p, h)

(* Mutant: the opening is computed in UTC.                                 *)
NextWorkTimeInUTC(p, h) ==
    IF ~p.on THEN 0 ELSE IF h < p.start THEN p.start - h ELSE p.start + HoursPerDay - h

(* Mutant: 24 hours are added to now instead of to the opening.            *)
NextWorkTimeDayLater(p, h) == IF ~p.on THEN 0 ELSE HoursPerDay

(* nextWorkTimeAt, as the hours from h until then: today's opening if it   *)
(* is still ahead, otherwise tomorrow's.                                   *)
NextWorkTime(p, h) ==
    LET l == LocalHour(p, h) IN
    IF ~p.on THEN 0
    ELSE IF l < p.start THEN p.start - l
    ELSE p.start + HoursPerDay - l

(* shouldDelayAt for a priority below critical.                            *)
ShouldDelay(p, h) == ~WithinWorkHours(p, h)

-----------------------------------------------------------------------------
Row == [stored : BOOLEAN, wait : 0..HoursPerDay, backoff : BOOLEAN, leased : BOOLEAN]
NoRow == [stored |-> FALSE, wait |-> 0, backoff |-> FALSE, leased |-> FALSE]

Steps == {"idle", "defer", "retry", "send", "complete"}
Job == [msg : Messages \cup {NoMessage}, step : Steps, prefs : Prefs]

Init ==
    /\ hour = 0
    /\ prefs \in Prefs
    /\ stage = [m \in Messages |-> "new"]
    /\ row = [m \in Messages |-> NoRow]
    /\ plan = [m \in Messages |-> prefs]
    /\ batch = [w \in Workers |-> {}]
    /\ job = [w \in Workers |-> [msg |-> NoMessage, step |-> "idle", prefs |-> prefs]]
    /\ faults = 0 /\ changes = 0
    /\ sent = [m \in Messages |-> 0]
    /\ suspect = {} /\ fresh = {}

Held(m) == \E w \in Workers : m \in batch[w] \/ job[w].msg = m

(* deliverUser up to the decision.  Inside work hours the message is sent  *)
(* at once and the caller gets sendToUser's result: nothing is stored.     *)
NotifyUser(m) ==
    /\ stage[m] = "new"
    /\ stage' = [stage EXCEPT ![m] = IF ShouldDelay(prefs, hour) THEN "scheduling" ELSE "direct"]
    /\ plan' = [plan EXCEPT ![m] = prefs]
    /\ UNCHANGED <<hour, prefs, row, batch, job, faults, changes, sent, suspect, fresh>>

(* schedule: nextWorkTime reads the clock again, Enqueue inserts.          *)
Schedule(m) ==
    /\ stage[m] = "scheduling"
    /\ stage' = [stage EXCEPT ![m] = "stored"]
    /\ row' = [row EXCEPT ![m] = [stored |-> TRUE, wait |-> NextWorkTime(plan[m], hour),
                                  backoff |-> FALSE, leased |-> FALSE]]
    /\ UNCHANGED <<hour, prefs, plan, batch, job, faults, changes, sent, suspect, fresh>>

(* The user or the settings cannot be loaded, or Enqueue fails: the caller *)
(* gets the error and nothing is stored.                                   *)
NotifyError(m) ==
    /\ stage[m] \in {"new", "scheduling"}
    /\ faults < MaxFaults
    /\ faults' = faults + 1
    /\ stage' = [stage EXCEPT ![m] = "refused"]
    /\ UNCHANGED <<hour, prefs, row, plan, batch, job, changes, sent, suspect, fresh>>

(* Mutant: a row is due although another worker has it leased.             *)
DueIgnoresLease(m) == row[m].stored /\ row[m].wait = 0 /\ ~row[m].backoff

(* The WHERE clause of ClaimDue.                                           *)
Due(m) == row[m].stored /\ row[m].wait = 0 /\ ~row[m].backoff /\ ~row[m].leased

Lease(S) == row' = [m \in Messages |-> IF m \in S
                        THEN [stored |-> row[m].stored, wait |-> row[m].wait,
                              backoff |-> row[m].backoff, leased |-> TRUE]
                        ELSE row[m]]

(* ClaimDue by process, which handles the whole batch before the next tick.*)
ClaimDue(w) ==
    /\ batch[w] = {} /\ job[w].step = "idle"
    /\ \E S \in SUBSET {m \in Messages : Due(m)} :
          /\ S # {} /\ Cardinality(S) <= ClaimLimit
          /\ Lease(S)
          /\ batch' = [batch EXCEPT ![w] = S]
    /\ UNCHANGED <<hour, prefs, stage, plan, job, faults, changes, sent, suspect, fresh>>

(* ClaimDue fails after its UPDATE (a row cannot be decoded, the           *)
(* connection drops): the rows stay leased and nobody works on them.       *)
ClaimDueError ==
    /\ faults < MaxFaults
    /\ faults' = faults + 1
    /\ \E S \in SUBSET {m \in Messages : Due(m)} : S # {} /\ Lease(S)
    /\ UNCHANGED <<hour, prefs, stage, plan, batch, job, changes, sent, suspect, fresh>>

(* Mutant: the settings are not consulted again when a row comes due.      *)
DecideAlwaysSend(w, m) ==
    /\ job[w].step = "idle" /\ m \in batch[w]
    /\ batch' = [batch EXCEPT ![w] = @ \ {m}]
    /\ job' = [job EXCEPT ![w] = [msg |-> m, step |-> "send", prefs |-> prefs]]
    /\ fresh' = fresh \cup {w}
    /\ UNCHANGED <<hour, prefs, stage, row, plan, faults, changes, sent, suspect>>

(* processScheduled up to the decision: the user's current settings and    *)
(* the current time decide whether the message goes out now.               *)
Decide(w, m) ==
    /\ job[w].step = "idle" /\ m \in batch[w]
    /\ batch' = [batch EXCEPT ![w] = @ \ {m}]
    /\ job' = [job EXCEPT ![w] =
                 [msg |-> m, prefs |-> prefs,
                  step |-> IF ShouldDelay(prefs, hour) THEN "defer" ELSE "send"]]
    /\ fresh' = fresh \cup {w}
    /\ UNCHANGED <<hour, prefs, stage, row, plan, faults, changes, sent, suspect>>

(* The user or the settings cannot be loaded.                              *)
LookupError(w, m) ==
    /\ job[w].step = "idle" /\ m \in batch[w]
    /\ batch' = [batch EXCEPT ![w] = @ \ {m}]
    /\ job' = [job EXCEPT ![w] = [msg |-> m, prefs |-> prefs, step |-> "retry"]]
    /\ faults < MaxFaults
    /\ faults' = faults + 1
    /\ UNCHANGED <<hour, prefs, stage, row, plan, changes, sent, suspect, fresh>>

JobDone(w) ==
    /\ job' = [job EXCEPT ![w] = [msg |-> NoMessage, step |-> "idle", prefs |-> job[w].prefs]]
    /\ fresh' = fresh \ {w}
    /\ UNCHANGED <<hour, prefs, stage, batch, changes>>

(* UPDATE ... SET send_at, locked_until = NULL WHERE id = $1, whoever      *)
(* holds the lease by now; nothing happens to a row already deleted.       *)
Reschedule(m, wait, backoff) ==
    row' = [row EXCEPT ![m] = IF ~row[m].stored THEN row[m]
              ELSE [stored |-> TRUE, wait |-> wait, backoff |-> backoff, leased |-> FALSE]]

(* Outside work hours: rescheduled to nextWorkTime, which reads the clock  *)
(* again.                                                                  *)
Defer(w) ==
    LET m == job[w].msg IN
    /\ job[w].step = "defer"
    /\ Reschedule(m, NextWorkTime(job[w].prefs, hour), FALSE)
    /\ plan' = [plan EXCEPT ![m] = job[w].prefs]
    /\ JobDone(w)
    /\ UNCHANGED <<faults, sent, suspect>>

AtStep(w, s) == [msg |-> job[w].msg, step |-> s, prefs |-> job[w].prefs]

(* sendToUser                                                              *)
SendOK(w) ==
    /\ job[w].step = "send"
    /\ sent' = [sent EXCEPT ![job[w].msg] = IF @ = 0 THEN 1 ELSE 2]
    /\ job' = [job EXCEPT ![w] = AtStep(w, "complete")]
    /\ UNCHANGED <<hour, prefs, stage, row, plan, batch, faults, changes, suspect, fresh>>

(* Mutant: a delivery error is dropped.                                    *)
SendErrorIgnored(w) ==
    /\ job[w].step = "send"
    /\ job' = [job EXCEPT ![w] = AtStep(w, "complete")]
    /\ UNCHANGED <<hour, prefs, stage, row, plan, batch, faults, changes, sent, suspect, fresh>>

SendError(w) ==
    /\ job[w].step = "send"
    /\ job' = [job EXCEPT ![w] = AtStep(w, "retry")]
    /\ UNCHANGED <<hour, prefs, stage, row, plan, batch, faults, changes, sent, suspect, fresh>>

(* rescheduleAfterFailure, with a delay of retryDelay(attempts).           *)
RescheduleAfterFailure(w) ==
    /\ job[w].step = "retry"
    /\ Reschedule(job[w].msg, 0, TRUE)
    /\ JobDone(w)
    /\ UNCHANGED <<plan, faults, sent, suspect>>

(* Complete: DELETE ... WHERE id = $1.                                     *)
Complete(w) ==
    /\ job[w].step = "complete"
    /\ row' = [row EXCEPT ![job[w].msg] = NoRow]
    /\ JobDone(w)
    /\ UNCHANGED <<plan, faults, sent, suspect>>

(* The closing statement of a job fails: logged, the row stays leased.     *)
StoreError(w) ==
    /\ job[w].step \in {"defer", "retry", "complete"}
    /\ faults < MaxFaults
    /\ faults' = faults + 1
    /\ suspect' = IF job[w].step = "complete" THEN suspect \cup {job[w].msg} ELSE suspect
    /\ JobDone(w)
    /\ UNCHANGED <<row, plan, sent>>

(* The process dies with its batch and is restarted.                       *)
Crash(w) ==
    /\ faults < MaxFaults
    /\ batch[w] # {} \/ job[w].step # "idle"
    /\ faults' = faults + 1
    /\ suspect' = IF job[w].step = "complete" THEN suspect \cup {job[w].msg} ELSE suspect
    /\ batch' = [batch EXCEPT ![w] = {}]
    /\ job' = [job EXCEPT ![w] = [msg |-> NoMessage, step |-> "idle", prefs |-> job[w].prefs]]
    /\ fresh' = fresh \ {w}
    /\ UNCHANGED <<hour, prefs, stage, row, plan, changes, sent>>

(* Time.                                                                   *)
Tick ==
    /\ hour' = (hour + 1) % HoursPerDay
    /\ row' = [m \in Messages |->
                 [stored |-> row[m].stored, backoff |-> row[m].backoff, leased |-> row[m].leased,
                  wait |-> IF row[m].wait > 0 THEN row[m].wait - 1 ELSE 0]]
    /\ fresh' = {}
    /\ UNCHANGED <<prefs, stage, plan, batch, job, faults, changes, sent, suspect>>

RetryDelayEnds(m) ==
    /\ row[m].backoff
    /\ row' = [row EXCEPT ![m] = [stored |-> row[m].stored, wait |-> row[m].wait,
                                  backoff |-> FALSE, leased |-> row[m].leased]]
    /\ UNCHANGED <<hour, prefs, stage, plan, batch, job, faults, changes, sent, suspect, fresh>>

LeaseExpires(m) ==
    /\ row[m].leased
    /\ row' = [row EXCEPT ![m] = [stored |-> row[m].stored, wait |-> row[m].wait,
                                  backoff |-> row[m].backoff, leased |-> FALSE]]
    /\ suspect' = IF Held(m) THEN suspect \cup {m} ELSE suspect
    /\ UNCHANGED <<hour, prefs, stage, plan, batch, job, faults, changes, sent, fresh>>

(* core.settings saves other work hours or another time zone.              *)
SetWorkHours(p) ==
    /\ changes < MaxChanges /\ p # prefs
    /\ changes' = changes + 1
    /\ prefs' = p
    /\ fresh' = {}
    /\ UNCHANGED <<hour, stage, row, plan, batch, job, faults, sent, suspect>>

-----------------------------------------------------------------------------
Work(w) ==
    \/ ClaimDue(w)
    \/ \E m \in Messages : Decide(w, m) \/ LookupError(w, m)
    \/ Defer(w) \/ SendOK(w) \/ SendError(w) \/ RescheduleAfterFailure(w) \/ Complete(w)

Next ==
    \/ \E m \in Messages : \/ NotifyUser(m) \/ Schedule(m) \/ NotifyError(m)
                          \/ RetryDelayEnds(m) \/ LeaseExpires(m)
    \/ \E w \in Workers : Work(w) \/ StoreError(w) \/ Crash(w)
    \/ ClaimDueError
    \/ Tick
    \/ \E p \in Prefs : SetWorkHours(p)

Spec == Init /\ [][Next]_vars

OpenNow == ~ShouldDelay(prefs, hour)

(* The worker polls every minute, so it keeps working, and a row that is   *)
(* due again and again inside the work hours is claimed and looked at      *)
(* while they last; delays and leases end, hours go by.  The code retries  *)
(* forever, so the user is found and the message goes out unless the       *)
(* database or the messenger refuses every time.                           *)
Fairness ==
    /\ \A w \in Workers : /\ WF_vars(Work(w))
                          /\ SF_vars(OpenNow /\ ClaimDue(w))
                          /\ SF_vars(SendOK(w))
                          /\ \A m \in Messages : SF_vars(OpenNow /\ Decide(w, m))
    /\ \A m \in Messages : /\ WF_vars(RetryDelayEnds(m))
                           /\ WF_vars(LeaseExpires(m))
    /\ WF_vars(Tick)

FairSpec == Spec /\ Fairness

-----------------------------------------------------------------------------
(* Rows and jobs are well-formed; in particular send_at, by nextWorkTime,  *)
(* is never more than a day ahead.                                         *)
TypeOK ==
    /\ hour \in 0..(HoursPerDay - 1)
    /\ prefs \in Prefs
    /\ stage \in [Messages -> {"new", "scheduling", "stored", "direct", "refused"}]
    /\ row \in [Messages -> Row]
    /\ plan \in [Messages -> Prefs]
    /\ batch \in [Workers -> SUBSET Messages]
    /\ job \in [Workers -> Job]
    /\ faults \in 0..MaxFaults
    /\ changes \in 0..MaxChanges
    /\ sent \in [Messages -> 0..2]
    /\ suspect \subseteq Messages
    /\ fresh \subseteq Workers

(* A delayed notification is never dropped: its row disappears only after  *)
(* the message was sent, through every crash, store error, lease overrun   *)
(* and change of settings.                                                 *)
NotificationNotLost ==
    \A m \in Messages : stage[m] = "stored" /\ ~row[m].stored => sent[m] > 0

(* A delayed notification reaches the user twice only if its lease ran out *)
(* while a worker had it, or it was sent and the DELETE did not happen.    *)
DuplicateOnlyAfterOverrun ==
    \A m \in Messages \ suspect : sent[m] <= 1

(* A row waiting for its work hours comes due exactly at the opening hour  *)
(* of the settings it was scheduled under, never in the quiet hours before.*)
DueAtOpening ==
    \A m \in Messages : row[m].wait > 0 =>
        LocalHour(plan[m], hour + row[m].wait) = plan[m].start

(* nextWorkTime is the first hour inside the work hours, seen from any     *)
(* moment outside them: no opening is skipped.                             *)
NextWorkTimeIsFirstOpening ==
    ShouldDelay(prefs, hour) =>
        LET n == NextWorkTime(prefs, hour) IN
        /\ n > 0
        /\ WithinWorkHours(prefs, hour + n)
        /\ \A k \in 1..(n - 1) : ~WithinWorkHours(prefs, hour + k)

(* A worker about to send is inside the user's current work hours, unless  *)
(* the hour or the settings changed after it looked: settings changed      *)
(* while a message waited are honoured.                                    *)
QuietHoursKept ==
    \A w \in fresh : job[w].step = "send" => WithinWorkHours(prefs, hour)

(* Every delayed notification is eventually sent: rows that failed, were   *)
(* deferred or whose worker died are claimed again.                        *)
EventuallyDelivered ==
    \A m \in Messages : stage[m] = "stored" ~> sent[m] > 0
=============================================================================
