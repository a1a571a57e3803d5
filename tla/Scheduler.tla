----------------------------- MODULE Scheduler -----------------------------
(***************************************************************************)
(* The cron scheduler (src/cron/scheduler.rs) under the shutdown of run!   *)
(* (src/runtime).  Each entry has a loop task that sleeps until its next   *)
(* tick, an AtomicBool `running`, and a JoinSet of handler tasks.          *)
(***************************************************************************)
EXTENDS Integers, FiniteSets

CONSTANTS
  Entries,         \* the entries job_with registered
  Period,          \* of an "@every" entry, in units of the clock; 0: none
  Calendar,        \* of a cron expression: the times it matches
  Timeout,         \* CronOptions::timeout_secs, per entry
  Grace,           \* the 30 seconds of Scheduler::shutdown
  MaxTime          \* bound: the clock

ASSUME SchedulerAssumption ==
  /\ Period \in [Entries -> Nat]
  /\ Calendar \in [Entries -> SUBSET Nat]
  /\ Timeout \in [Entries -> Nat]
  /\ Grace \in Nat /\ MaxTime \in Nat

VARIABLES
  now,             \* the clock
  loop,            \* per entry: where cron_job_loop is, and its next_tick
  running,         \* per entry: the AtomicBool
  handlers,        \* per entry: the tasks of its JoinSet that are alive
  mode,            \* the Scheduler: up, shutting down, shut down
  since            \* when its shutdown began

vars == <<now, loop, running, handlers, mode, since>>

Never == -1        \* next_tick is None

(* The first tick after `from`: strictly later, unless "@every 0s". *)
next_tick(e, from) ==
  IF Calendar[e] = {} THEN from + Period[e]
  ELSE LET later == {t \in Calendar[e] : t > from} IN
       IF later = {} THEN Never
       ELSE CHOOSE t \in later : \A u \in later : t <= u

Handler == [tick : Nat, deadline : Nat]

Init ==
  /\ now = 0
  /\ loop = [e \in Entries |->
       [pc |-> IF next_tick(e, 0) = Never THEN "done" ELSE "sleep",
        next |-> next_tick(e, 0)]]
  /\ running = [e \in Entries |-> FALSE]
  /\ handlers = [e \in Entries |-> {}]
  /\ mode = "up" /\ since = 0

-----------------------------------------------------------------------------
(* cron_job_loop: the sleep is over.  Either way the next tick is counted  *)
(* from now, and without one the loop goes on to drain its handlers.       *)

(* Faulty: a schedule that is over is not noticed. *)
RearmBlindly(e) ==
  loop' = [loop EXCEPT ![e] = [pc |-> "sleep", next |-> next_tick(e, now)]]

Rearm(e) ==
  loop' = [loop EXCEPT ![e] =
    [pc |-> IF next_tick(e, now) = Never THEN "drain" ELSE "sleep",
     next |-> next_tick(e, now)]]

Awake(e) == loop[e].pc = "sleep" /\ loop[e].next <= now

SkipTick(e) ==
  /\ Awake(e) /\ running[e]
  /\ Rearm(e)
  /\ UNCHANGED <<now, running, handlers, mode, since>>

(* Faulty: the flag is not raised. *)
RunTickUnflagged(e) ==
  /\ Awake(e) /\ ~running[e]
  /\ handlers' = [handlers EXCEPT ![e] =
       @ \cup {[tick |-> loop[e].next, deadline |-> now + Timeout[e]]}]
  /\ Rearm(e)
  /\ UNCHANGED <<now, running, mode, since>>

RunTick(e) ==
  /\ Awake(e) /\ ~running[e]
  /\ running' = [running EXCEPT ![e] = TRUE]
  /\ handlers' = [handlers EXCEPT ![e] =
       @ \cup {[tick |-> loop[e].next, deadline |-> now + Timeout[e]]}]
  /\ Rearm(e)
  /\ UNCHANGED <<now, mode, since>>

(* Faulty: the loop waits for the flag before it breaks. *)
BreakWhenIdle(e) ==
  /\ mode # "up" /\ loop[e].pc = "sleep" /\ ~running[e]
  /\ loop' = [loop EXCEPT ![e].pc = "drain"]
  /\ UNCHANGED <<now, running, handlers, mode, since>>

(* The cancelled branch of the select. *)
Break(e) ==
  /\ mode # "up" /\ loop[e].pc = "sleep"
  /\ loop' = [loop EXCEPT ![e].pc = "drain"]
  /\ UNCHANGED <<now, running, handlers, mode, since>>

(* Faulty: the handlers are not awaited. *)
DrainedAtOnce(e) ==
  /\ loop[e].pc = "drain"
  /\ loop' = [loop EXCEPT ![e].pc = "done"]
  /\ UNCHANGED <<now, running, handlers, mode, since>>

(* join_next until the JoinSet is empty. *)
Drained(e) ==
  /\ loop[e].pc = "drain" /\ handlers[e] = {}
  /\ loop' = [loop EXCEPT ![e].pc = "done"]
  /\ UNCHANGED <<now, running, handlers, mode, since>>

(* The handler returns, fails or times out: the flag is lowered. *)
HandlerEnds(e, h) ==
  /\ h \in handlers[e]
  /\ handlers' = [handlers EXCEPT ![e] = @ \ {h}]
  /\ running' = [running EXCEPT ![e] = FALSE]
  /\ UNCHANGED <<now, loop, mode, since>>

(* It panics: the task is gone before it stores FALSE. *)
HandlerPanics(e, h) ==
  /\ h \in handlers[e]
  /\ handlers' = [handlers EXCEPT ![e] = @ \ {h}]
  /\ UNCHANGED <<now, loop, running, mode, since>>

-----------------------------------------------------------------------------
(* run! calls Task::shutdown after a signal. *)

Shutdown ==
  /\ mode = "up"
  /\ mode' = "stopping" /\ since' = now
  /\ UNCHANGED <<now, loop, running, handlers>>

(* Every loop ended, or the 30 seconds went by. *)
ShutdownReturns ==
  /\ mode = "stopping"
  /\ (\A e \in Entries : loop[e].pc = "done") \/ now >= since + Grace
  /\ mode' = "stopped"
  /\ UNCHANGED <<now, loop, running, handlers, since>>

(* Timers fire in time: no handler outlives its deadline, no sleep and no  *)
(* drain lasts longer than it has to.                                      *)
Timely ==
  /\ \A e \in Entries :
       /\ \A h \in handlers[e] : now < h.deadline
       /\ loop[e].pc = "sleep" => now < loop[e].next
  /\ mode = "stopping" => now < since + Grace

Tick ==
  /\ now < MaxTime /\ Timely
  /\ now' = now + 1
  /\ UNCHANGED <<loop, running, handlers, mode, since>>

Loop(e) == SkipTick(e) \/ RunTick(e) \/ Break(e) \/ Drained(e)

Next ==
  \/ \E e \in Entries :
       \/ Loop(e)
       \/ \E h \in handlers[e] : HandlerEnds(e, h) \/ HandlerPanics(e, h)
  \/ Shutdown
  \/ ShutdownReturns
  \/ Tick

Spec == Init /\ [][Next]_vars

(* tokio polls its tasks and its timers; tokio::time::timeout ends a       *)
(* handler that does not end by itself.                                    *)
FairSpec ==
  /\ Spec
  /\ WF_vars(Tick) /\ WF_vars(ShutdownReturns)
  /\ \A e \in Entries :
       /\ WF_vars(Loop(e))
       /\ WF_vars(\E h \in handlers[e] : HandlerEnds(e, h))

-----------------------------------------------------------------------------
(* The loops, their flags and their handlers hold values of their types. *)
TypeOK ==
  /\ now \in Nat
  /\ loop \in [Entries -> [pc : {"sleep", "drain", "done"}, next : Nat \cup {Never}]]
  /\ running \in [Entries -> BOOLEAN]
  /\ handlers \in [Entries -> SUBSET Handler]
  /\ mode \in {"up", "stopping", "stopped"}
  /\ since \in Nat

(* Two runs of one entry never overlap, however long a run takes against   *)
(* the schedule, panics included (the AtomicBool of cron_job_loop).        *)
NoOverlap ==
  \A e \in Entries : \A g, h \in handlers[e] : g = h

(* A loop sleeps only towards a tick that will come. *)
Armed ==
  \A e \in Entries : loop[e].pc = "sleep" => loop[e].next # Never

(* Why: a live handler keeps the flag up. *)
FlagInv ==
  /\ NoOverlap
  /\ \A e \in Entries : handlers[e] # {} => running[e]

(* Scheduler::shutdown returns before the 30 seconds only when no handler  *)
(* is left: the loops drain their JoinSets before they end.                *)
ShutdownDrains ==
  [][mode = "stopping" /\ mode' = "stopped" /\ now < since + Grace
       => \A e \in Entries : handlers[e] = {}]_vars

(* Why: a loop that ended left no handler behind. *)
DoneInv ==
  \A e \in Entries : loop[e].pc = "done" => handlers[e] = {}

(* A shutdown that began returns, and every loop comes to its end after    *)
(* it, whatever ticks are due at the moment of the cancellation and even   *)
(* if handlers hang or panic.                                              *)
ShutdownCompletes ==
  mode = "stopping" ~> mode = "stopped" /\ \A e \in Entries : loop[e].pc = "done"

(* "If a previous execution is still running when the next tick fires, the *)
(* tick is skipped": a tick is skipped for no other reason.                *)
SkipsOnlyWhileRunning ==
  [][\A e \in Entries : SkipTick(e) => handlers[e] # {}]_vars
=============================================================================
