------------------------------ MODULE JobQueue ------------------------------
(***************************************************************************)
(* The background job queue (src/job): one `jobs` table shared by several  *)
(* processes.  In each process a Worker runs a poll loop that claims rows  *)
(* and spawns handler tasks under a per-queue semaphore, a reaper that     *)
(* returns stale rows, and a cleanup that deletes old terminal rows.  Any  *)
(* part of the application enqueues and cancels.  Processes shut down,     *)
(* crash and restart; the table survives them.                             *)
(*                                                                         *)
(* Time is a counter.  A step of the clock waits for what the code bounds: *)
(* a handler ends by its tokio timeout, a result is written within         *)
(* WriteDelay of the handler's end and a poll tick reaches each of its     *)
(* queues within ClaimLag.                                                 *)
(***************************************************************************)
EXTENDS Integers, FiniteSets

CONSTANTS
  Jobs,            \* the ids ulid() can produce, each used once
  Names,           \* job names
  Registered,      \* the names a handler is registered for
  Payloads,        \* payloads, as far as enqueue_unique tells them apart
  Queues,          \* the configured queues
  Workers,         \* the processes that run a Worker
  Concurrency,     \* QueueConfig::concurrency, per queue
  MaxAttempts,     \* JobOptions::max_attempts, per name
  Timeout,         \* JobOptions::timeout_secs, per name
  StaleThreshold,  \* JobConfig::stale_threshold_secs
  DrainTimeout,    \* JobConfig::drain_timeout_secs
  Retention,       \* CleanupConfig::retention_secs
  BackoffBase,     \* the 5 of handle_job_failure
  BackoffCap,      \* the 3600 of handle_job_failure
  ClaimLag,        \* bound: from a tick's now_str to the last claim of the tick
  WriteDelay,      \* bound: from a handler's end to its result in the table
  MaxDelay,        \* bound: how far ahead a job is scheduled
  MaxTime,         \* bound: the clock
  MaxStops         \* bound: shutdowns and crashes

ASSUME SetsAssumption ==
  /\ Registered \subseteq Names
  /\ Names # {} /\ Queues # {}
  /\ IsFiniteSet(Jobs)

ASSUME ParametersAssumption ==
  /\ Concurrency \in [Queues -> Nat]
  /\ MaxAttempts \in [Names -> Nat]
  /\ Timeout \in [Names -> Nat]
  /\ {StaleThreshold, DrainTimeout, Retention, BackoffBase, BackoffCap,
      ClaimLag, WriteDelay, MaxDelay, MaxTime, MaxStops} \subseteq Nat

(* A stale job is one whose task can no longer be alive.  The defaults of   *)
(* the code, 600 against 300 seconds, leave 300 for the two bounds.        *)
ASSUME TimingAssumption ==
  \A n \in Registered : StaleThreshold >= ClaimLag + Timeout[n] + WriteDelay

VARIABLES
  now,             \* the clock
  jobs,            \* the jobs table, by id
  proc,            \* per process: its mode, and when its shutdown began
  poller,          \* per process: where its poll loop is
  permits,         \* per process and queue: the semaphore's free permits
  tasks,           \* the spawned tasks that are alive
  stops            \* shutdowns and crashes so far

vars == <<now, jobs, proc, poller, permits, tasks, stops>>

-----------------------------------------------------------------------------
(* The table. *)

Terminal == {"completed", "dead", "cancelled"}

Active == {"pending", "running"}

(* "absent" and "deleted" stand for ids without a row. *)
Statuses == {"absent", "deleted"} \cup Active \cup Terminal

NoTime == -1       \* NULL in a time column

NoHash == <<>>     \* NULL in payload_hash

compute_payload_hash(name, payload) == <<name, payload>>

PayloadHashes ==
  {compute_payload_hash(n, p) : n \in Names, p \in Payloads} \cup {NoHash}

Row ==
  [status : Statuses, attempt : Nat, name : Names, queue : Queues,
   hash : PayloadHashes, run_at : Nat, started_at : Nat \cup {NoTime},
   updated_at : Nat]

NoRow ==
  [status |-> "absent", attempt |-> 0, name |-> CHOOSE n \in Names : TRUE,
   queue |-> CHOOSE q \in Queues : TRUE, hash |-> NoHash, run_at |-> 0,
   started_at |-> NoTime, updated_at |-> 0]

(* idx_jobs_payload_hash: no other active row may hold the hash of row j. *)
UniqueHashFree(j, hash) ==
  hash = NoHash \/ \A k \in Jobs \ {j} :
                     ~(jobs[k].status \in Active /\ jobs[k].hash = hash)

-----------------------------------------------------------------------------
(* Tasks, processes and the clock. *)

Task ==
  [job : Jobs, attempt : Nat \ {0}, worker : Workers, queue : Queues,
   deadline : Nat,                        \* when tokio::time::timeout fires
   pc : {"handler", "ok", "failed"},      \* running, or its result to write
   at : Nat]                              \* now_str: when the handler ended

TasksOf(w, q) == {t \in tasks : t.worker = w /\ t.queue = q}

Alive(w) == proc[w].mode # "down"

Processes == [mode : {"up", "stopping", "stopped", "down"}, since : Nat]

IdlePoller ==
  [pc |-> "sleep", stamp |-> 0, todo |-> {}, queue |-> NoRow.queue, slots |-> 0]

Pollers ==
  [pc : {"sleep", "queues", "claim", "done"}, stamp : Nat,
   todo : SUBSET Queues, queue : Queues, slots : Nat]

Init ==
  /\ now = 0
  /\ jobs = [j \in Jobs |-> NoRow]
  /\ proc = [w \in Workers |-> [mode |-> "up", since |-> 0]]
  /\ poller = [w \in Workers |-> IdlePoller]
  /\ permits = [w \in Workers |-> Concurrency]
  /\ tasks = {}
  /\ stops = 0

-----------------------------------------------------------------------------
(* Enqueuer: any process, any time; each call is one statement. *)

Insert(j, name, queue, hash, run_at) ==
  /\ jobs[j].status = "absent"
  /\ jobs' = [jobs EXCEPT ![j] =
       [status |-> "pending", attempt |-> 0, name |-> name, queue |-> queue,
        hash |-> hash, run_at |-> run_at, started_at |-> NoTime,
        updated_at |-> now]]
  /\ UNCHANGED <<now, proc, poller, permits, tasks, stops>>

(* enqueue, enqueue_at and enqueue_with: run_at is now or a chosen time. *)
Enqueue(j, name, queue, run_at) == Insert(j, name, queue, NoHash, run_at)

(* enqueue_unique(_with): on a conflict the call only reads the other id. *)
EnqueueUnique(j, name, queue, payload, run_at) ==
  /\ UniqueHashFree(j, compute_payload_hash(name, payload))
  /\ Insert(j, name, queue, compute_payload_hash(name, payload), run_at)

(* Faulty: a job that is running is cancelled too. *)
CancelActive(j) ==
  /\ jobs[j].status \in Active
  /\ jobs' = [jobs EXCEPT ![j].status = "cancelled", ![j].updated_at = now]
  /\ UNCHANGED <<now, proc, poller, permits, tasks, stops>>

Cancel(j) ==
  /\ jobs[j].status = "pending"
  /\ jobs' = [jobs EXCEPT ![j].status = "cancelled", ![j].updated_at = now]
  /\ UNCHANGED <<now, proc, poller, permits, tasks, stops>>

-----------------------------------------------------------------------------
(* The poll loop.  It awaits the database between reading the free slots   *)
(* of a queue and getting the claimed rows back.                           *)

PollTick(w) ==
  /\ Alive(w) /\ poller[w].pc = "sleep"
  /\ Registered # {}
  /\ poller' = [poller EXCEPT ![w] =
       [IdlePoller EXCEPT !.pc = "queues", !.stamp = now, !.todo = Queues]]
  /\ UNCHANGED <<now, jobs, proc, permits, tasks, stops>>

(* The loop over the queues: the rest of them, or back to sleep. *)
Continue(w, todo) ==
  poller' = [poller EXCEPT ![w] =
    IF todo = {} THEN IdlePoller
                 ELSE [@ EXCEPT !.pc = "queues", !.todo = todo]]

NoSlots(w, q) ==
  /\ Alive(w) /\ poller[w].pc = "queues" /\ q \in poller[w].todo
  /\ permits[w][q] = 0
  /\ Continue(w, poller[w].todo \ {q})
  /\ UNCHANGED <<now, jobs, proc, permits, tasks, stops>>

(* Faulty: one slot too many, and no check that there is any. *)
ReadMoreSlots(w, q) ==
  /\ Alive(w) /\ poller[w].pc = "queues" /\ q \in poller[w].todo
  /\ poller' = [poller EXCEPT ![w].pc = "claim", ![w].queue = q,
                              ![w].slots = permits[w][q] + 1,
                              ![w].todo = @ \ {q}]
  /\ UNCHANGED <<now, jobs, proc, permits, tasks, stops>>

ReadSlots(w, q) ==
  /\ Alive(w) /\ poller[w].pc = "queues" /\ q \in poller[w].todo
  /\ permits[w][q] > 0
  /\ poller' = [poller EXCEPT ![w].pc = "claim", ![w].queue = q,
                              ![w].slots = permits[w][q],
                              ![w].todo = @ \ {q}]
  /\ UNCHANGED <<now, jobs, proc, permits, tasks, stops>>

Claimable(q, stamp) ==
  {j \in Jobs : /\ jobs[j].status = "pending" /\ jobs[j].run_at <= stamp
                /\ jobs[j].queue = q /\ jobs[j].name \in Registered}

(* ORDER BY run_at ASC LIMIT slots: ties in any order. *)
Batches(q, stamp, slots) ==
  {S \in SUBSET Claimable(q, stamp) :
     LET rest == Claimable(q, stamp) \ S IN
     /\ Cardinality(S) <= slots
     /\ rest # {} => Cardinality(S) = slots
     /\ \A j \in S, k \in rest : jobs[j].run_at <= jobs[k].run_at}

Spawn(w, q, j) ==
  [job |-> j, attempt |-> jobs[j].attempt + 1, worker |-> w, queue |-> q,
   deadline |-> now + Timeout[jobs[j].name], pc |-> "handler", at |-> 0]

ClaimedRow(row, stamp) ==
  [row EXCEPT !.status = "running", !.attempt = @ + 1,
              !.started_at = stamp, !.updated_at = stamp]

(* Faulty: the tasks do not take their permits along. *)
ClaimBatchUnpermitted(w, q, S, D) ==
  /\ D = S
  /\ jobs' = [j \in Jobs |->
       IF j \in S THEN ClaimedRow(jobs[j], poller[w].stamp) ELSE jobs[j]]
  /\ tasks' = tasks \cup {Spawn(w, q, j) : j \in D}
  /\ UNCHANGED permits

(* The claim of S commits and the loop spawns tasks for the part D of it   *)
(* that try_acquire_owned finds permits for; the rest waits for the reaper. *)
ClaimBatch(w, q, S, D) ==
  /\ Cardinality(D) <= permits[w][q]
  /\ D # S => Cardinality(D) = permits[w][q]
  /\ jobs' = [j \in Jobs |->
       IF j \in S THEN ClaimedRow(jobs[j], poller[w].stamp) ELSE jobs[j]]
  /\ tasks' = tasks \cup {Spawn(w, q, j) : j \in D}
  /\ permits' = [permits EXCEPT ![w][q] = @ - Cardinality(D)]

Claim(w) ==
  LET p == poller[w] IN
  /\ Alive(w) /\ p.pc = "claim"
  /\ \E S \in Batches(p.queue, p.stamp, p.slots) :
       \E D \in SUBSET S : ClaimBatch(w, p.queue, S, D)
  /\ Continue(w, p.todo)
  /\ UNCHANGED <<now, proc, stops>>

ClaimFails(w) ==
  /\ Alive(w) /\ poller[w].pc = "claim"
  /\ Continue(w, poller[w].todo)
  /\ UNCHANGED <<now, jobs, proc, permits, tasks, stops>>

(* The cancelled branch of the select: the poll loop ends between ticks. *)
PollBreak(w) ==
  /\ proc[w].mode \in {"stopping", "stopped"} /\ poller[w].pc = "sleep"
  /\ poller' = [poller EXCEPT ![w].pc = "done"]
  /\ UNCHANGED <<now, jobs, proc, permits, tasks, stops>>

-----------------------------------------------------------------------------
(* A spawned task. *)

(* The handler returns, or tokio::time::timeout ends it at the deadline. *)
HandlerEnds(t, result) ==
  /\ t.pc = "handler"
  /\ tasks' = (tasks \ {t}) \cup {[t EXCEPT !.pc = result, !.at = now]}
  /\ UNCHANGED <<now, jobs, proc, poller, permits, stops>>

(* Faulty: the permit is forgotten. *)
EndTaskLeaks(t) ==
  /\ tasks' = tasks \ {t}
  /\ UNCHANGED permits

(* The end of a task, however it comes, drops its permit. *)
EndTask(t) ==
  /\ tasks' = tasks \ {t}
  /\ permits' = [permits EXCEPT ![t.worker][t.queue] = @ + 1]

HandlerPanics(t) ==
  /\ t.pc = "handler"
  /\ EndTask(t)
  /\ UNCHANGED <<now, jobs, proc, poller, stops>>

Backoff(attempt) ==
  LET delay == BackoffBase * 2 ^ (attempt - 1) IN
  IF delay \in 0 .. BackoffCap THEN delay ELSE BackoffCap

(* Faulty: the delay counts backwards. *)
FailedRowEarly(row, t) ==
  IF t.attempt >= MaxAttempts[row.name]
  THEN [row EXCEPT !.status = "dead", !.updated_at = t.at]
  ELSE [row EXCEPT !.status = "pending", !.run_at = t.at - Backoff(t.attempt),
                   !.started_at = NoTime, !.updated_at = t.at]

(* handle_job_failure, as the row it leaves behind. *)
FailedRow(row, t) ==
  IF t.attempt >= MaxAttempts[row.name]
  THEN [row EXCEPT !.status = "dead", !.updated_at = t.at]
  ELSE IF UniqueHashFree(t.job, row.hash)
       THEN [row EXCEPT !.status = "pending", !.run_at = t.at + Backoff(t.attempt),
                        !.started_at = NoTime, !.updated_at = t.at]
       ELSE row

ResultRow(row, t) ==
  IF t.pc = "ok" THEN [row EXCEPT !.status = "completed", !.updated_at = t.at]
                 ELSE FailedRow(row, t)

(* UPDATE ... WHERE id: neither status nor attempt is compared. *)
WriteResult(t) ==
  /\ t.pc # "handler"
  /\ jobs' = IF jobs[t.job].status = "deleted" THEN jobs
             ELSE [jobs EXCEPT ![t.job] = ResultRow(@, t)]
  /\ EndTask(t)
  /\ UNCHANGED <<now, proc, poller, stops>>

(* The database refuses the write; the error is dropped. *)
WriteFails(t) ==
  /\ t.pc # "handler"
  /\ EndTask(t)
  /\ UNCHANGED <<now, jobs, proc, poller, stops>>

-----------------------------------------------------------------------------
(* The reaper and the cleanup of a process that is not shut down. *)

Looping(w) == proc[w].mode \in {"up", "stopping"}

(* Faulty: off by one; and a job whose next attempt is its last is passed  *)
(* over.                                                                   *)
StaleEarly(j) == jobs[j].status = "running" /\ jobs[j].started_at <= now - StaleThreshold

StaleUnlessLast(j) ==
  /\ jobs[j].status = "running" /\ jobs[j].started_at < now - StaleThreshold
  /\ jobs[j].attempt + 1 < MaxAttempts[jobs[j].name]

Stale(j) == jobs[j].status = "running" /\ jobs[j].started_at < now - StaleThreshold

Reap(w) ==
  /\ Looping(w)
  /\ \E j \in Jobs : Stale(j)
  /\ jobs' = [j \in Jobs |->
       IF Stale(j) THEN [jobs[j] EXCEPT !.status = "pending",
                           !.started_at = NoTime, !.updated_at = now]
                   ELSE jobs[j]]
  /\ UNCHANGED <<now, proc, poller, permits, tasks, stops>>

(* Faulty: jobs that wait are deleted with the old ones. *)
ExpiredAny(j) ==
  /\ jobs[j].status \in Terminal \cup {"pending"}
  /\ jobs[j].updated_at < now - Retention

Expired(j) == jobs[j].status \in Terminal /\ jobs[j].updated_at < now - Retention

Cleanup(w) ==
  /\ Looping(w)
  /\ \E j \in Jobs : Expired(j)
  /\ jobs' = [j \in Jobs |->
       IF Expired(j) THEN [NoRow EXCEPT !.status = "deleted"] ELSE jobs[j]]
  /\ UNCHANGED <<now, proc, poller, permits, tasks, stops>>

-----------------------------------------------------------------------------
(* The life of a process.  Its end takes its tasks with it. *)

Shutdown(w) ==
  /\ proc[w].mode = "up" /\ stops < MaxStops
  /\ proc' = [proc EXCEPT ![w] = [mode |-> "stopping", since |-> now]]
  /\ stops' = stops + 1
  /\ UNCHANGED <<now, jobs, poller, permits, tasks>>

(* Worker::shutdown returns: its loops ended or drain_timeout went by. *)
ShutdownReturns(w) ==
  /\ proc[w].mode = "stopping"
  /\ poller[w].pc = "done" \/ now >= proc[w].since + DrainTimeout
  /\ proc' = [proc EXCEPT ![w].mode = "stopped"]
  /\ UNCHANGED <<now, jobs, poller, permits, tasks, stops>>

Ends(w) ==
  /\ proc' = [proc EXCEPT ![w].mode = "down"]
  /\ poller' = [poller EXCEPT ![w] = IdlePoller]
  /\ tasks' = {t \in tasks : t.worker # w}
  /\ permits' = [permits EXCEPT ![w] = Concurrency]
  /\ UNCHANGED <<now, jobs>>

Exit(w) ==
  /\ proc[w].mode = "stopped"
  /\ Ends(w)
  /\ UNCHANGED stops

Crash(w) ==
  /\ Alive(w) /\ stops < MaxStops
  /\ Ends(w)
  /\ stops' = stops + 1

(* WorkerBuilder::start in a new process: fresh semaphores, a fresh loop. *)
Restart(w) ==
  /\ proc[w].mode = "down"
  /\ proc' = [proc EXCEPT ![w] = [mode |-> "up", since |-> 0]]
  /\ UNCHANGED <<now, jobs, poller, permits, tasks, stops>>

-----------------------------------------------------------------------------
(* The clock, held back by the timing the code and its database bound. *)

Timely ==
  /\ \A t \in tasks : now < IF t.pc = "handler" THEN t.deadline
                                                ELSE t.at + WriteDelay
  /\ \A w \in Workers :
       poller[w].pc \in {"queues", "claim"} => now < poller[w].stamp + ClaimLag

Tick ==
  /\ now < MaxTime
  /\ Timely
  /\ now' = now + 1
  /\ UNCHANGED <<jobs, proc, poller, permits, tasks, stops>>

Client(j) ==
  \/ \E n \in Names, q \in Queues, run_at \in 0 .. (now + MaxDelay) :
       \/ Enqueue(j, n, q, run_at)
       \/ \E p \in Payloads : EnqueueUnique(j, n, q, p, run_at)
  \/ Cancel(j)

PollLoop(w) ==
  \/ PollTick(w)
  \/ \E q \in Queues : NoSlots(w, q) \/ ReadSlots(w, q)
  \/ Claim(w)
  \/ PollBreak(w)

TaskSteps(t) ==
  \/ \E result \in {"ok", "failed"} : HandlerEnds(t, result)
  \/ HandlerPanics(t)
  \/ WriteResult(t)
  \/ WriteFails(t)

Process(w) ==
  \/ Shutdown(w)
  \/ ShutdownReturns(w)
  \/ Exit(w)
  \/ Crash(w)
  \/ Restart(w)

Next ==
  \/ \E j \in Jobs : Client(j)
  \/ \E w \in Workers :
       PollLoop(w) \/ ClaimFails(w) \/ Reap(w) \/ Cleanup(w) \/ Process(w)
  \/ \E t \in tasks : TaskSteps(t)
  \/ Tick

Spec == Init /\ [][Next]_vars

(* What the runtime keeps doing: tokio polls its tasks and timers, time    *)
(* passes, a supervisor restarts the process, and a database that answers  *)
(* now and then lets a claim through in the end.  Handlers need not return *)
(* by themselves, since the timeout ends them.                             *)
Fairness ==
  /\ SF_vars(Tick)
  /\ WF_vars(\E t \in tasks : TaskSteps(t))
  /\ \A w \in Workers :
       /\ WF_vars(PollLoop(w)) /\ SF_vars(Claim(w))
       /\ WF_vars(Reap(w))
       /\ WF_vars(PollBreak(w)) /\ WF_vars(ShutdownReturns(w))
       /\ WF_vars(Exit(w)) /\ WF_vars(Restart(w))

FairSpec == Spec /\ Fairness

-----------------------------------------------------------------------------
(* The table, the tasks and the loops hold values of their types. *)
TypeOK ==
  /\ now \in Nat
  /\ jobs \in [Jobs -> Row]
  /\ proc \in [Workers -> Processes]
  /\ poller \in [Workers -> Pollers]
  /\ permits \in [Workers -> [Queues -> Nat]]
  /\ tasks \in SUBSET Task
  /\ stops \in Nat

(* A handler never runs, and a result is never pending, twice for one job: *)
(* the atomic claim, the reaper's threshold and the handler's timeout keep *)
(* a second execution away while the first can still write its result      *)
(* (src/job/worker.rs and src/job/reaper.rs).                              *)
NoOverlappingExecution ==
  \A t, u \in tasks : t.job = u.job => t = u

(* While a task is alive, or its result still to be written, the row is    *)
(* running under the very attempt the task was spawned for, so the         *)
(* unguarded UPDATE ... WHERE id never hits a newer attempt, a cancelled   *)
(* job or a deleted one (src/job/worker.rs).                               *)
TasksOwnTheirRows ==
  \A t \in tasks : jobs[t.job].status = "running" /\ jobs[t.job].attempt = t.attempt

(* Why the two properties above hold: the deadlines of live tasks, counted *)
(* from the started_at the reaper looks at.                                *)
TasksInTime ==
  \A t \in tasks :
    LET row == jobs[t.job] IN
    /\ row.name \in Registered
    /\ t.deadline <= row.started_at + ClaimLag + Timeout[row.name]
    /\ t.pc = "handler" => now <= t.deadline
    /\ t.pc # "handler" => t.at <= t.deadline /\ now <= t.at + WriteDelay

(* And the poll loops: the stamp of a tick under way is not old. *)
PollsInTime ==
  \A w \in Workers :
    poller[w].pc \in {"queues", "claim"} =>
      poller[w].stamp <= now /\ now <= poller[w].stamp + ClaimLag

(* The inductive invariant behind both. *)
ExecutionInv ==
  /\ TypeOK
  /\ NoOverlappingExecution
  /\ TasksOwnTheirRows
  /\ TasksInTime
  /\ PollsInTime

(* A queue never has more handlers running in a process than its           *)
(* configured concurrency, whatever interleaves with the poll loop between *)
(* its reading of available_permits and the spawning of the claimed jobs.  *)
ConcurrencyRespected ==
  \A w \in Workers, q \in Queues :
    Cardinality(TasksOf(w, q)) <= Concurrency[q]

(* Why: a permit is free or held by exactly one live task, and only the    *)
(* poll loop takes permits, so the slots it read are still free when the   *)
(* claimed rows come back.                                                 *)
PermitInv ==
  /\ \A w \in Workers, q \in Queues :
       /\ IsFiniteSet(TasksOf(w, q))
       /\ permits[w][q] + Cardinality(TasksOf(w, q)) = Concurrency[q]
  /\ \A w \in Workers : poller[w].pc = "claim" =>
       poller[w].slots <= permits[w][poller[w].queue]

(* No claimed job meets "no permit available, job will be reaped": the     *)
(* step that marks a row running spawns the task of that very attempt.     *)
ClaimedIsDispatched ==
  [][\A j \in Jobs :
       jobs[j].status # "running" /\ jobs'[j].status = "running" =>
         \E t \in tasks' : t.job = j /\ t.attempt = jobs'[j].attempt]_vars

(* A due job with a registered handler does not wait for ever: some        *)
(* process claims it, or it is cancelled first (src/job/worker.rs, the     *)
(* ORDER BY run_at of the claim and the permits that tasks give back).     *)
Due(j) ==
  /\ jobs[j].status = "pending" /\ jobs[j].run_at <= now
  /\ jobs[j].name \in Registered

DueIsClaimed == \A j \in Jobs : Due(j) ~> ~Due(j)

(* A running job whose process crashed, whose handler panicked or whose    *)
(* result was lost does not stay running (src/job/reaper.rs), as far as    *)
(* the clock's bound lets the threshold pass.                              *)
Orphan(j) ==
  /\ jobs[j].status = "running" /\ \A t \in tasks : t.job # j
  /\ now + StaleThreshold < MaxTime

OrphanIsRecovered == \A j \in Jobs : Orphan(j) ~> jobs[j].status # "running"

(* Worker::shutdown returns before drain_timeout only when no handler of   *)
(* the process is running any more: drain_timeout_secs is documented as    *)
(* the "maximum time in seconds to wait for in-flight jobs to finish       *)
(* during graceful shutdown" (src/job/config.rs).                          *)
ShutdownDrains ==
  [][\A w \in Workers :
       /\ proc[w].mode = "stopping" /\ proc'[w].mode = "stopped"
       /\ now < proc[w].since + DrainTimeout
       => \A t \in tasks : t.worker # w]_vars

(* The queue implements the life cycle its documentation draws: terminal   *)
(* statuses are final, a job is executed by at most one task, and only a   *)
(* job nobody executes is handed out again.                                *)
Lifecycle == INSTANCE JobLifecycle WITH
  life <- [j \in Jobs |-> jobs[j].status],
  executing <- {t.job : t \in tasks}

ImplementsLifecycle == Lifecycle!Spec
=============================================================================
