----------------------------- MODULE MemoryBus -----------------------------
(***************************************************************************)
(* The event bus that keeps everything in memory                           *)
(* (internal/wasm/eventbus/eventbus.go): a publisher calls one handler     *)
(* after the other, tries each of them several times, and puts an event    *)
(* that a handler refuses into a bounded list of dead letters.  Replaying  *)
(* the dead letters publishes a copy of them and then overwrites the list. *)
(*                                                                         *)
(* The replay runs in the goroutine Replayer, the publishers in Events:    *)
(* each publishes its own event once.                                      *)
(***************************************************************************)
EXTENDS Naturals, Sequences, FiniteSets

CONSTANTS
    Events,        \* events that are published
    BusHandlers,   \* subscribers, 1..n in the order of their subscription
    MaxRetries,    \* retries after the first attempt
    DLQMaxSize,    \* dead letters kept
    MaxReplays

ASSUME BusAssumption ==
    /\ 1 \in BusHandlers /\ \A n \in BusHandlers : n \in Nat \ {0} /\ 1..n \subseteq BusHandlers
    /\ MaxRetries \in Nat \ {0} /\ DLQMaxSize \in Nat \ {0} /\ MaxReplays \in Nat

VARIABLES
    dlq,           \* the dead letters, oldest first
    publishing,    \* publishing[e]: the Publish call of event e
    replay,        \* the replay under way
    got,           \* got[e]: handlers that handled e
    excusedDead,   \* events dropped by the limit, a purge, or a replay's overwrite
    replays

busVars == <<dlq, publishing, replay, got, excusedDead, replays>>

NotPublished == [pc |-> "none", at |-> 0, tries |-> 0, failed |-> FALSE]

NoReplay == [pc |-> "none", todo |-> <<>>, remaining |-> <<>>]

BusInit ==
    /\ dlq = <<>>
    /\ publishing = [e \in Events |-> NotPublished]
    /\ replay = NoReplay
    /\ got = [e \in Events |-> {}]
    /\ excusedDead = {}
    /\ replays = 0

InDlq == {dlq[i] : i \in DOMAIN dlq}

Calling(e) == publishing[e].pc = "deliver"

\* The replay is publishing e, and keeps it itself if that fails.
Replaying(e) == replay.pc = "entry" /\ Head(replay.todo) = e

\* Publish, by a publisher or by the replay.
PublishEvent(e) ==
    /\ publishing[e].pc = "none"
    /\ publishing' = [publishing EXCEPT ![e] = [pc |-> "deliver", at |-> 1, tries |-> 0, failed |-> FALSE]]
    /\ UNCHANGED <<dlq, replay, got, excusedDead, replays>>

\* The call goes on with the next handler, or returns.
NextHandler(e, failed) ==
    LET call == publishing[e] IN
    [publishing EXCEPT ![e] = [pc |-> IF call.at + 1 \in BusHandlers THEN "deliver" ELSE "returned",
                               at |-> call.at + 1, tries |-> 0, failed |-> call.failed \/ failed]]

\* addToDLQ: at the limit the oldest letter is dropped.
AddToDLQ(e) ==
    IF Len(dlq) >= DLQMaxSize THEN Append(Tail(dlq), e) ELSE Append(dlq, e)

\* deliverWithRetry: the handler succeeds, fails and is tried again, or has
\* failed for the last time (or the context was cancelled during the pause).
DeliverWithRetry(e) ==
    /\ Calling(e)
    /\ \/ /\ got' = [got EXCEPT ![e] = @ \cup {publishing[e].at}]
          /\ publishing' = NextHandler(e, FALSE)
          /\ UNCHANGED <<dlq, excusedDead>>
       \/ /\ publishing[e].tries < MaxRetries
          /\ publishing' = [publishing EXCEPT ![e].tries = @ + 1]
          /\ UNCHANGED <<dlq, got, excusedDead>>
       \/ /\ publishing[e].tries > 0
          /\ publishing' = NextHandler(e, TRUE)
          /\ dlq' = AddToDLQ(e)
          /\ excusedDead' = excusedDead \cup (IF Len(dlq) >= DLQMaxSize THEN {Head(dlq)} ELSE {})
                                        \cup (IF replay.pc = "none" \/ Replaying(e) THEN {} ELSE {e})
          /\ UNCHANGED got
    /\ UNCHANGED <<replay, replays>>

\* ReplayDLQ copies the list,
ReplayDLQ ==
    /\ replay.pc = "none"
    /\ replays < MaxReplays
    /\ replays' = replays + 1
    /\ replay' = [pc |-> "next", todo |-> dlq, remaining |-> <<>>]
    /\ UNCHANGED <<dlq, publishing, got, excusedDead>>

\* publishes the letters one by one to all the handlers,
ReplayEntry ==
    /\ replay.pc = "next"
    /\ replay.todo # <<>>
    /\ publishing[Head(replay.todo)].pc = "returned"
    /\ publishing' = [publishing EXCEPT ![Head(replay.todo)] = [pc |-> "deliver", at |-> 1, tries |-> 0, failed |-> FALSE]]
    /\ replay' = [replay EXCEPT !.pc = "entry"]
    /\ UNCHANGED <<dlq, got, excusedDead, replays>>

\* Variant for the mutants: a letter that fails again is not kept.
RemainingForgets(e) == replay.remaining

\* keeps those that fail again,
Remaining(e) == IF publishing[e].failed THEN Append(replay.remaining, e) ELSE replay.remaining

ReplayedEntry ==
    /\ replay.pc = "entry"
    /\ publishing[Head(replay.todo)].pc = "returned"
    /\ replay' = [pc |-> "next", todo |-> Tail(replay.todo), remaining |-> Remaining(Head(replay.todo))]
    /\ UNCHANGED <<dlq, publishing, got, excusedDead, replays>>

\* and overwrites the list with them.
ReplayEnds ==
    /\ replay.pc = "next"
    /\ replay.todo = <<>>
    /\ dlq' = replay.remaining
    /\ excusedDead' = excusedDead \ {replay.remaining[i] : i \in DOMAIN replay.remaining}
    /\ replay' = NoReplay
    /\ UNCHANGED <<publishing, got, replays>>

PurgeDLQ ==
    /\ dlq # <<>>
    /\ dlq' = <<>>
    /\ excusedDead' = excusedDead \cup InDlq
    /\ UNCHANGED <<publishing, replay, got, replays>>

BusNext ==
    \/ \E e \in Events : PublishEvent(e) \/ DeliverWithRetry(e)
    \/ ReplayDLQ \/ ReplayEntry \/ ReplayedEntry \/ ReplayEnds
    \/ PurgeDLQ

BusSpec == BusInit /\ [][BusNext]_busVars

-----------------------------------------------------------------------------

\* No event disappears: once nothing is under way, an event has reached every
\* handler or is a dead letter, unless it fell off the full list, was purged,
\* or was added while a replay was about to overwrite the list.
DeadLettersKept ==
    replay.pc = "none" /\ (\A e \in Events : ~Calling(e)) =>
        \A e \in Events : publishing[e].pc = "returned" =>
            got[e] = BusHandlers \/ e \in InDlq \/ e \in excusedDead

=============================================================================
