------------------------- MODULE MCScheduledNotify -------------------------
(* Model-checking instance of ScheduledNotify: days of three hours, with   *)
(* no work hours, daytime ones, ones over midnight, and another time zone. *)
EXTENDS ScheduledNotify

MCPrefs == { [on |-> FALSE, start |-> 0, end |-> 0, tz |-> 0],
             [on |-> TRUE, start |-> 1, end |-> 2, tz |-> 0],
             [on |-> TRUE, start |-> 2, end |-> 1, tz |-> 1] }
=============================================================================
