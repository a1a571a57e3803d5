---------------------------- MODULE MCScheduler ----------------------------
(* A small instance of the scheduler: an interval and a calendar entry. *)
EXTENDS Scheduler, TLC

CONSTANTS every, cron, HandlerTimeout

MCPeriod == (every :> 1) @@ (cron :> 0)
MCCalendar == (every :> {}) @@ (cron :> {1, 2, 4})
MCTimeout == [e \in Entries |-> HandlerTimeout]
=============================================================================
