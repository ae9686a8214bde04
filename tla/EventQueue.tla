----------------------------- MODULE EventQueue -----------------------------
(***************************************************************************)
(* The Postgres event bus of the plugin runtime                            *)
(* (internal/wasm/eventbus/postgres.go) and the subscriber that hands an   *)
(* event to every plugin listening on its topic                            *)
(* (internal/trigger/event_subscriber.go).                                 *)
(*                                                                         *)
(* A row of wasm_event_queue is claimed by an instance for LeaseDuration,  *)
(* handled outside any transaction, and then deleted, requeued or dead-    *)
(* lettered BY ID: none of those statements looks at claimed_by.  A        *)
(* consumer that overruns its lease therefore still writes its verdict.    *)
(*                                                                         *)
(* Wall-clock time is abstracted to the two comparisons the SQL makes:     *)
(* "due" is available_at <= now() and "leased" is locked_until > now().    *)
(***************************************************************************)
EXTENDS Integers, FiniteSets

CONSTANTS
    Events,       \* identities of queue rows (BIGSERIAL ids)
    Consumers,    \* instances running RunConsumer
    Subscribers,  \* plugins that may listen on the topic
    Pinned,       \* the subscribers that stay registered throughout
    MaxRetries,   \* cfg.MaxRetries
    BatchSize,    \* cfg.BatchSize
    MaxFaults,    \* bound on crashes and failed UPDATE/DELETE statements
    NoEvent       \* "no event is being handled"

ASSUME EventQueueAssumption ==
    /\ MaxRetries \in Nat
    /\ BatchSize \in Nat \ {0}
    /\ MaxFaults \in Nat
    /\ Pinned \subseteq Subscribers
    /\ NoEvent \notin Events

VARIABLES
    published,  \* ids the BIGSERIAL sequence has handed out
    row,        \* row[e]: the row of wasm_event_queue; status "none": no such row
    held,       \* held[c][e]: retry_count c read when it claimed e, or NotHeld
    cur,        \* cur[c]: the event whose handler c is running, or NoEvent
    todo,       \* todo[c]: subscriptions the running handler has still to call
    failed,     \* failed[c]: the running handler has an error to return
    subs,       \* subscriptions currently in the trigger registry
    faults,     \* crashes and database errors so far
    \* history, read by the properties only
    handled,    \* handled[e]: subscribers that processed e without an error
    fails,      \* fails[e]: failed handler runs that reached the database
    lapsed      \* events whose lease ran out while a consumer held them

consumerVars == <<held, cur, todo, failed>>
historyVars == <<handled, fails, lapsed>>
vars == <<published, row, held, cur, todo, failed, subs, faults, handled, fails, lapsed>>

NotHeld == -1
Holds(c, e) == held[c][e] # NotHeld

Row == [status : {"none", "pending", "processing", "dead"},
        retries : Nat, due : BOOLEAN, leased : BOOLEAN]
NoRow == [status |-> "none", retries |-> 0, due |-> FALSE, leased |-> FALSE]

Init ==
    /\ published = {}
    /\ row = [e \in Events |-> NoRow]
    /\ held = [c \in Consumers |-> [e \in Events |-> NotHeld]]
    /\ cur = [c \in Consumers |-> NoEvent]
    /\ todo = [c \in Consumers |-> {}]
    /\ failed = [c \in Consumers |-> FALSE]
    /\ subs = Subscribers
    /\ faults = 0
    /\ handled = [e \in Events |-> {}]
    /\ fails = [e \in Events |-> 0]
    /\ lapsed = {}

-----------------------------------------------------------------------------
(* A plugin publishes: INSERT with the table's defaults.                   *)
Publish(e) ==
    /\ e \notin published
    /\ published' = published \cup {e}
    /\ row' = [row EXCEPT ![e] = [status |-> "pending", retries |-> 0,
                                  due |-> TRUE, leased |-> FALSE]]
    /\ UNCHANGED <<consumerVars, subs, faults, historyVars>>

(* Mutant: the lease of a row in 'processing' is not looked at.            *)
ClaimableIgnoresLease(e) ==
    \/ row[e].status = "pending" /\ row[e].due
    \/ row[e].status = "processing"

(* Mutant: abandoned rows are never taken over.                            *)
ClaimablePendingOnly(e) == row[e].status = "pending" /\ row[e].due

(* The WHERE clause of claimBatch.                                         *)
Claimable(e) ==
    \/ row[e].status = "pending" /\ row[e].due
    \/ row[e].status = "processing" /\ ~row[e].leased

(* One claimBatch statement.  SKIP LOCKED passes over rows that a claim of *)
(* another instance is touching, so any part of the claimable rows may be  *)
(* returned; RETURNING gives them in no particular order.  retry_count is  *)
(* read, not incremented.                                                  *)
ClaimBatch(c) ==
    /\ \A e \in Events : ~Holds(c, e)
    /\ \E S \in SUBSET {e \in Events : Claimable(e)} :
          /\ S # {}
          /\ Cardinality(S) <= BatchSize
          /\ row' = [e \in Events |-> IF e \in S
                        THEN [status |-> "processing", retries |-> row[e].retries,
                              due |-> row[e].due, leased |-> TRUE]
                        ELSE row[e]]
          /\ held' = [held EXCEPT ![c] = [e \in Events |->
                        IF e \in S THEN row[e].retries ELSE NotHeld]]
    /\ UNCHANGED <<published, cur, todo, failed, subs, faults, historyVars>>

(* consumeOnce takes the next event of its batch; EventSubscriber.Handle   *)
(* looks its subscriptions up once, before it calls any of them.           *)
BeginHandle(c, e) ==
    /\ cur[c] = NoEvent /\ Holds(c, e)
    /\ cur' = [cur EXCEPT ![c] = e]
    /\ todo' = [todo EXCEPT ![c] = subs]
    /\ failed' = [failed EXCEPT ![c] = FALSE]
    /\ UNCHANGED <<published, row, held, subs, faults, historyVars>>

(* Mutant: a later success overwrites the error of an earlier subscription. *)
DeliverOKForgetsError(c, s) ==
    /\ s \in todo[c] /\ s \in subs
    /\ todo' = [todo EXCEPT ![c] = @ \ {s}]
    /\ failed' = [failed EXCEPT ![c] = FALSE]
    /\ handled' = [handled EXCEPT ![cur[c]] = @ \cup {s}]
    /\ UNCHANGED <<published, row, held, cur, subs, faults, fails, lapsed>>

(* One RouteEvent.  A plugin that went away since the lookup is an error,  *)
(* and so are a handler error and a timeout; the loop continues with the   *)
(* other subscriptions and returns the first error at its end.             *)
DeliverOK(c, s) ==
    /\ s \in todo[c] /\ s \in subs
    /\ todo' = [todo EXCEPT ![c] = @ \ {s}]
    /\ handled' = [handled EXCEPT ![cur[c]] = @ \cup {s}]
    /\ UNCHANGED <<published, row, held, cur, failed, subs, faults, fails, lapsed>>

DeliverError(c, s) ==
    /\ s \in todo[c]
    /\ todo' = [todo EXCEPT ![c] = @ \ {s}]
    /\ failed' = [failed EXCEPT ![c] = TRUE]
    /\ UNCHANGED <<published, row, held, cur, subs, faults, historyVars>>

(* The handler of cur[c] has returned, c turns to the rest of its batch.   *)
Returned(c) == cur[c] # NoEvent /\ todo[c] = {}
NextOfBatch(c) ==
    /\ held' = [held EXCEPT ![c][cur[c]] = NotHeld]
    /\ cur' = [cur EXCEPT ![c] = NoEvent]
    /\ UNCHANGED <<published, todo, failed, subs>>

(* DELETE ... WHERE id = $1, whoever the row is claimed by.                *)
MarkSuccess(c) ==
    /\ Returned(c) /\ ~failed[c]
    /\ row' = [row EXCEPT ![cur[c]] = NoRow]
    /\ NextOfBatch(c)
    /\ UNCHANGED <<faults, historyVars>>

(* Mutant: one retry too few.                                              *)
FailedRowOffByOne(r, retries) ==
    IF r.status = "none" THEN r
    ELSE IF retries >= MaxRetries
         THEN [status |-> "dead", retries |-> retries, due |-> r.due, leased |-> FALSE]
         ELSE [status |-> "pending", retries |-> retries, due |-> FALSE, leased |-> FALSE]

(* UPDATE ... WHERE id = $1 with the retry_count read at claim time.  It   *)
(* changes nothing when the row has been deleted in the meantime.          *)
FailedRow(r, retries) ==
    IF r.status = "none" THEN r
    ELSE IF retries > MaxRetries
         THEN [status |-> "dead", retries |-> retries, due |-> r.due, leased |-> FALSE]
         ELSE [status |-> "pending", retries |-> retries, due |-> FALSE, leased |-> FALSE]

MarkFailure(c) ==
    /\ Returned(c) /\ failed[c]
    /\ row' = [row EXCEPT ![cur[c]] = FailedRow(@, held[c][cur[c]] + 1)]
    /\ fails' = [fails EXCEPT ![cur[c]] = @ + 1]
    /\ NextOfBatch(c)
    /\ UNCHANGED <<faults, handled, lapsed>>

(* Neither mark reaches the database: consumeOnce keeps the error, goes on *)
(* with the batch and leaves the row 'processing' until its lease ends.    *)
MarkError(c) ==
    /\ Returned(c)
    /\ faults < MaxFaults
    /\ faults' = faults + 1
    /\ NextOfBatch(c)
    /\ UNCHANGED <<row, historyVars>>

(* The instance dies in the middle of a batch and starts again.            *)
Crash(c) ==
    /\ faults < MaxFaults
    /\ \E e \in Events : Holds(c, e)
    /\ faults' = faults + 1
    /\ held' = [held EXCEPT ![c] = [e \in Events |-> NotHeld]]
    /\ cur' = [cur EXCEPT ![c] = NoEvent]
    /\ todo' = [todo EXCEPT ![c] = {}]
    /\ failed' = [failed EXCEPT ![c] = FALSE]
    /\ UNCHANGED <<published, row, subs, historyVars>>

(* Time passes: a backoff ends, a lease ends (the handlers of a batch run  *)
(* one after another and may take longer than LeaseDuration).              *)
BecomeDue(e) ==
    /\ row[e].status = "pending" /\ ~row[e].due
    /\ row' = [row EXCEPT ![e].due = TRUE]
    /\ UNCHANGED <<published, consumerVars, subs, faults, historyVars>>

LeaseExpires(e) ==
    /\ row[e].status = "processing" /\ row[e].leased
    /\ row' = [row EXCEPT ![e].leased = FALSE]
    /\ lapsed' = IF \E c \in Consumers : Holds(c, e) THEN lapsed \cup {e} ELSE lapsed
    /\ UNCHANGED <<published, consumerVars, subs, faults, handled, fails>>

(* Plugins are loaded and unloaded while events flow.                      *)
RegisterTriggers(s) ==
    /\ s \notin subs
    /\ subs' = subs \cup {s}
    /\ UNCHANGED <<published, row, consumerVars, faults, historyVars>>

UnregisterTriggers(s) ==
    /\ s \in subs \ Pinned
    /\ subs' = subs \ {s}
    /\ UNCHANGED <<published, row, consumerVars, faults, historyVars>>

-----------------------------------------------------------------------------
ConsumerStep(c) ==
    \/ ClaimBatch(c)
    \/ \E e \in Events : BeginHandle(c, e)
    \/ \E s \in Subscribers : DeliverOK(c, s) \/ DeliverError(c, s)
    \/ MarkSuccess(c)
    \/ MarkFailure(c)

Next ==
    \/ \E e \in Events : Publish(e) \/ BecomeDue(e) \/ LeaseExpires(e)
    \/ \E c \in Consumers : ConsumerStep(c) \/ MarkError(c) \/ Crash(c)
    \/ \E s \in Subscribers : RegisterTriggers(s) \/ UnregisterTriggers(s)

Spec == Init /\ [][Next]_vars

(* RunConsumer polls for as long as the process lives, every handler call  *)
(* has a timeout, and the clock advances.  Nothing is assumed of           *)
(* publishers, of plugin (un)loading, or of which way a handler ends.      *)
Fairness ==
    /\ \A c \in Consumers : WF_vars(ConsumerStep(c))
    /\ \A e \in Events : WF_vars(BecomeDue(e)) /\ WF_vars(LeaseExpires(e))

FairSpec == Spec /\ Fairness

-----------------------------------------------------------------------------
(* Rows have the statuses, and consumers the claims, of the schema and of  *)
(* queuedEvent; subscriptions that stay are never removed.                 *)
TypeOK ==
    /\ published \subseteq Events
    /\ row \in [Events -> Row]
    /\ held \in [Consumers -> [Events -> Nat \cup {NotHeld}]]
    /\ cur \in [Consumers -> Events \cup {NoEvent}]
    /\ todo \in [Consumers -> SUBSET Subscribers]
    /\ failed \in [Consumers -> BOOLEAN]
    /\ subs \subseteq Subscribers
    /\ Pinned \subseteq subs
    /\ faults \in 0..MaxFaults
    /\ handled \in [Events -> SUBSET Subscribers]
    /\ fails \in [Events -> Nat]
    /\ lapsed \subseteq Events

(* No event is lost: a published event leaves the queue only after every   *)
(* plugin that was subscribed all along has processed it, whatever crashes,*)
(* lease overruns, failed marks and plugin reloads happened on the way     *)
(* (consumeOnce deletes only when Handle returned nil, and Handle returns  *)
(* nil only when no subscription failed).                                  *)
NoEventLost ==
    \A e \in published : row[e].status = "none" => Pinned \subseteq handled[e]

(* An event is dead-lettered only after more than MaxRetries of its        *)
(* handler runs failed: retry_count never runs ahead of the real failures, *)
(* although markFailure writes a count derived from a stale read.          *)
DeadOnlyAfterRetries ==
    \A e \in Events : row[e].status = "dead" => fails[e] > MaxRetries

(* Status and lease keep two instances off the same event as long as no    *)
(* lease runs out under its holder: the claim statement alone never hands  *)
(* an event to a second consumer.                                          *)
ExclusiveUnlessLapsed ==
    \A e \in Events \ lapsed : \A c, d \in Consumers :
        Holds(c, e) /\ Holds(d, e) => c = d

Settled(e) == row[e].status \in {"none", "dead"} /\ \A c \in Consumers : ~Holds(c, e)

(* Once the faults are over, every published event is eventually processed *)
(* or dead-lettered for good: stale verdicts of markFailure may requeue an *)
(* event, or even revive a dead one, but only finitely often.              *)
EventuallySettled == \A e \in Events : e \in published ~> []Settled(e)

=============================================================================
