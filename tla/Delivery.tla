------------------------------ MODULE Delivery ------------------------------
(***************************************************************************)
(* What the Postgres event bus promises the plugin that publishes an       *)
(* event: it stays in the queue until every plugin that listens all along  *)
(* has processed it, and then never comes back.  It is set aside only      *)
(* after more failed runs than there are retries, and may be taken up      *)
(* again.  A plugin may see an event several times, even after it is done. *)
(***************************************************************************)
EXTENDS Naturals

CONSTANTS Events, Subscribers, Pinned, MaxRetries

VARIABLES
    fate,     \* "unpublished", "queued", "dead" or "done"
    handled,  \* the subscribers that have processed the event
    fails     \* the runs that failed

vars == <<fate, handled, fails>>

Init ==
    /\ fate = [e \in Events |-> "unpublished"]
    /\ handled = [e \in Events |-> {}]
    /\ fails = [e \in Events |-> 0]

Becomes(e, f) == fate' = [fate EXCEPT ![e] = f]

Publish(e) ==
    /\ fate[e] = "unpublished"
    /\ Becomes(e, "queued")
    /\ UNCHANGED <<handled, fails>>

Handle(e, s) ==
    /\ fate[e] # "unpublished"
    /\ handled' = [handled EXCEPT ![e] = @ \cup {s}]
    /\ UNCHANGED <<fate, fails>>

(* A run failed; the last one allowed sets the event aside, and a late one *)
(* of another instance takes it up again.                                  *)
Fail(e) ==
    /\ fate[e] # "unpublished"
    /\ fails' = [fails EXCEPT ![e] = @ + 1]
    /\ \/ UNCHANGED fate
       \/ fate[e] = "queued" /\ fails'[e] > MaxRetries /\ Becomes(e, "dead")
       \/ fate[e] = "dead" /\ Becomes(e, "queued")
    /\ UNCHANGED handled

Finish(e) ==
    /\ fate[e] \in {"queued", "dead"}
    /\ Pinned \subseteq handled[e]
    /\ Becomes(e, "done")
    /\ UNCHANGED <<handled, fails>>

Next == \E e \in Events :
    \/ Publish(e) \/ Fail(e) \/ Finish(e)
    \/ \E s \in Subscribers : Handle(e, s)

Spec == Init /\ [][Next]_vars
=============================================================================
