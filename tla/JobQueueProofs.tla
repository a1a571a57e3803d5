--------------------------- MODULE JobQueueProofs ---------------------------
(***************************************************************************)
(* Theorems about the job queue for every set of jobs, queues and          *)
(* processes and every value of its parameters that the assumptions of     *)
(* JobQueue allow.                                                         *)
(***************************************************************************)
EXTENDS JobQueue, FiniteSetTheorems, TLAPS

(* The parameters of time are numbers. *)
LEMMA Numbers ==
  /\ StaleThreshold \in Nat /\ DrainTimeout \in Nat /\ Retention \in Nat
  /\ BackoffBase \in Nat /\ BackoffCap \in Nat /\ ClaimLag \in Nat
  /\ WriteDelay \in Nat /\ MaxDelay \in Nat /\ MaxTime \in Nat /\ MaxStops \in Nat
  BY ParametersAssumption

(* The retry delay of handle_job_failure never exceeds its cap. *)
LEMMA BackoffBounded ==
  ASSUME NEW attempt \in Nat
  PROVE  Backoff(attempt) \in 0 .. BackoffCap
  BY Numbers DEF Backoff

LEMMA NoRowType == NoRow \in Row
  BY SetsAssumption DEF NoRow, Row, Statuses, PayloadHashes, NoTime

LEMMA IdlePollerType == IdlePoller \in Pollers
  BY NoRowType DEF IdlePoller, Pollers, Row

(* A result written to a row of the table leaves a row of the table. *)
LEMMA ResultRowType ==
  ASSUME NEW row \in Row, NEW t \in Task
  PROVE  ResultRow(row, t) \in Row
  <1>1. Backoff(t.attempt) \in Nat
    BY BackoffBounded, Numbers DEF Task
  <1>2. FailedRow(row, t) \in Row
    <2>1. t.at \in Nat /\ t.at + Backoff(t.attempt) \in Nat
      BY <1>1 DEF Task
    <2>2. {"dead", "pending"} \subseteq Statuses
      BY DEF Statuses, Active, Terminal
    <2>3. [row EXCEPT !.status = "dead", !.updated_at = t.at] \in Row
      BY <2>1, <2>2 DEF Row
    <2>4. [row EXCEPT !.status = "pending", !.run_at = t.at + Backoff(t.attempt),
                      !.started_at = NoTime, !.updated_at = t.at] \in Row
      BY <2>1, <2>2 DEF Row
    <2>5. QED
      BY <2>3, <2>4 DEF FailedRow
  <1>3. [row EXCEPT !.status = "completed", !.updated_at = t.at] \in Row
    BY DEF Row, Task, Statuses, Terminal
  <1>4. QED
    BY <1>2, <1>3 DEF ResultRow

(* So does a claim. *)
LEMMA ClaimedRowType ==
  ASSUME NEW row \in Row, NEW stamp \in Nat
  PROVE  ClaimedRow(row, stamp) \in Row
  <1>1. "running" \in Statuses
    BY DEF Statuses, Active
  <1>2. row.attempt + 1 \in Nat
    BY DEF Row
  <1>3. QED
    BY <1>1, <1>2 DEF ClaimedRow, Row

(* The task a claim spawns is a task. *)
LEMMA SpawnType ==
  ASSUME TypeOK, NEW w \in Workers, NEW q \in Queues, NEW j \in Jobs
  PROVE  Spawn(w, q, j) \in Task
  <1>1. jobs[j].attempt \in Nat /\ jobs[j].name \in Names /\ now \in Nat
    BY DEF TypeOK, Row
  <1>2. Timeout[jobs[j].name] \in Nat
    BY <1>1, ParametersAssumption
  <1>3. QED
    BY <1>1, <1>2 DEF Spawn, Task

(* A claim takes no more permits than there are. *)
LEMMA PermitsLeft ==
  ASSUME NEW D, NEW n \in Nat, D \in SUBSET Jobs, Cardinality(D) <= n
  PROVE  /\ IsFiniteSet(D) /\ Cardinality(D) \in Nat
         /\ n - Cardinality(D) \in Nat
  <1>1. IsFiniteSet(D)
    BY SetsAssumption, FS_Subset
  <1>2. Cardinality(D) \in Nat
    BY <1>1, FS_CardinalityType
  <1>3. QED
    BY <1>1, <1>2

(* Each action keeps every variable in its type. *)
LEMMA TypeStep == TypeOK /\ [Next]_vars => TypeOK'
  <1> SUFFICES ASSUME TypeOK, [Next]_vars
               PROVE  TypeOK'
    OBVIOUS
  <1> USE Numbers
  <1>1. ASSUME NEW j \in Jobs, NEW n \in Names, NEW q \in Queues,
               NEW h \in PayloadHashes, NEW r \in Nat, Insert(j, n, q, h, r)
        PROVE  TypeOK'
    <2>1. [status |-> "pending", attempt |-> 0, name |-> n, queue |-> q,
           hash |-> h, run_at |-> r, started_at |-> NoTime,
           updated_at |-> now] \in Row
      BY DEF Row, Statuses, Active, TypeOK
    <2>2. jobs' \in [Jobs -> Row]
      BY <1>1, <2>1 DEF Insert, TypeOK
    <2>3. QED
      BY <1>1, <2>2 DEF Insert, TypeOK
  <1>2. ASSUME NEW j \in Jobs, Client(j)
        PROVE  TypeOK'
    <2>1. ASSUME NEW n \in Names, NEW q \in Queues,
                 NEW r \in 0 .. (now + MaxDelay), Enqueue(j, n, q, r)
          PROVE  TypeOK'
      <3>1. NoHash \in PayloadHashes /\ r \in Nat
        BY DEF PayloadHashes
      <3>2. QED
        BY <1>1, <2>1, <3>1 DEF Enqueue
    <2>2. ASSUME NEW n \in Names, NEW q \in Queues, NEW p \in Payloads,
                 NEW r \in 0 .. (now + MaxDelay), EnqueueUnique(j, n, q, p, r)
          PROVE  TypeOK'
      <3>1. compute_payload_hash(n, p) \in PayloadHashes /\ r \in Nat
        BY DEF PayloadHashes
      <3>2. QED
        BY <1>1, <2>2, <3>1 DEF EnqueueUnique
    <2>3. ASSUME Cancel(j)
          PROVE  TypeOK'
      BY <2>3, ZenonT(30) DEF Cancel, TypeOK, Row, Statuses, Terminal
    <2>4. QED
      BY <1>2, <2>1, <2>2, <2>3 DEF Client
  <1>3. ASSUME NEW w \in Workers, NEW todo \in SUBSET Queues, Continue(w, todo)
        PROVE  poller' \in [Workers -> Pollers]
    BY <1>3, IdlePollerType DEF Continue, TypeOK, Pollers
  <1>4. ASSUME NEW w \in Workers, PollTick(w)
        PROVE  TypeOK'
    <2>1. [IdlePoller EXCEPT !.pc = "queues", !.stamp = now, !.todo = Queues]
            \in Pollers
      BY IdlePollerType DEF TypeOK, Pollers
    <2>2. QED
      BY <1>4, <2>1 DEF PollTick, TypeOK
  <1>5. ASSUME NEW w \in Workers, NEW q \in Queues, NoSlots(w, q)
        PROVE  TypeOK'
    <2>1. poller[w].todo \ {q} \in SUBSET Queues
      BY DEF TypeOK, Pollers
    <2>2. QED
      BY <1>3, <1>5, <2>1 DEF NoSlots, TypeOK
  <1>6. ASSUME NEW w \in Workers, NEW q \in Queues, ReadSlots(w, q)
        PROVE  TypeOK'
    BY <1>6, SMTT(30) DEF ReadSlots, TypeOK, Pollers
  <1>7. ASSUME NEW w \in Workers, Claim(w)
        PROVE  TypeOK'
    <2> DEFINE p == poller[w]
               q == p.queue
    <2>1. p \in Pollers /\ q \in Queues /\ p.todo \in SUBSET Queues
      BY DEF TypeOK, Pollers
    <2>0. PICK S \in Batches(q, p.stamp, p.slots) :
            \E D \in SUBSET S : ClaimBatch(w, q, S, D)
      BY <1>7 DEF Claim
    <2>2. PICK D \in SUBSET S : ClaimBatch(w, q, S, D)
      BY <2>0
    <2>3. S \subseteq Jobs
      BY DEF Batches, Claimable
    <2>4. jobs' \in [Jobs -> Row]
      <3>1. \A j \in Jobs : ClaimedRow(jobs[j], p.stamp) \in Row
        BY <2>1, ClaimedRowType DEF TypeOK, Pollers
      <3>2. QED
        BY <2>2, <3>1 DEF ClaimBatch, TypeOK
    <2>5. tasks' \subseteq Task
      BY <2>1, <2>2, <2>3, SpawnType DEF ClaimBatch, TypeOK
    <2>6. permits[w][q] - Cardinality(D) \in Nat
      BY <2>1, <2>2, <2>3, PermitsLeft DEF ClaimBatch, TypeOK
    <2>7. permits' \in [Workers -> [Queues -> Nat]]
      BY <2>1, <2>2, <2>6 DEF ClaimBatch, TypeOK
    <2>8. poller' \in [Workers -> Pollers]
      BY <1>3, <1>7, <2>1 DEF Claim
    <2>9. QED
      BY <1>7, <2>4, <2>5, <2>7, <2>8 DEF Claim, TypeOK
  <1>8. ASSUME NEW w \in Workers, ClaimFails(w)
        PROVE  TypeOK'
    <2>1. poller[w].todo \in SUBSET Queues
      BY DEF TypeOK, Pollers
    <2>2. QED
      BY <1>3, <1>8, <2>1 DEF ClaimFails, TypeOK
  <1>9. ASSUME NEW w \in Workers, PollBreak(w)
        PROVE  TypeOK'
    BY <1>9 DEF PollBreak, TypeOK, Pollers
  <1>10. ASSUME NEW t \in tasks, NEW r \in {"ok", "failed"}, HandlerEnds(t, r)
         PROVE  TypeOK'
    BY <1>10 DEF HandlerEnds, TypeOK, Task
  <1>11. ASSUME NEW t \in tasks, EndTask(t)
         PROVE  /\ tasks' \subseteq Task
                /\ permits' \in [Workers -> [Queues -> Nat]]
    BY <1>11 DEF EndTask, TypeOK, Task
  <1>12. ASSUME NEW t \in tasks, HandlerPanics(t) \/ WriteFails(t)
         PROVE  TypeOK'
    BY <1>11, <1>12 DEF HandlerPanics, WriteFails, TypeOK
  <1>13. ASSUME NEW t \in tasks, WriteResult(t)
         PROVE  TypeOK'
    <2>1. t \in Task /\ t.job \in Jobs
      BY DEF TypeOK, Task
    <2>2. jobs' \in [Jobs -> Row]
      BY <1>13, <2>1, ResultRowType DEF WriteResult, TypeOK
    <2>3. QED
      BY <1>11, <1>13, <2>2 DEF WriteResult, TypeOK
  <1>14. ASSUME NEW w \in Workers, Reap(w)
         PROVE  TypeOK'
    BY <1>14, ZenonT(30) DEF Reap, TypeOK, Row, Statuses, Active
  <1>15. ASSUME NEW w \in Workers, Cleanup(w)
         PROVE  TypeOK'
    <2>1. [NoRow EXCEPT !.status = "deleted"] \in Row
      BY NoRowType DEF Row, Statuses
    <2>2. QED
      BY <1>15, <2>1 DEF Cleanup, TypeOK
  <1>16. ASSUME NEW w \in Workers, Ends(w), stops' \in Nat
         PROVE  TypeOK'
    BY <1>16, IdlePollerType, ParametersAssumption DEF Ends, TypeOK, Processes
  <1>17. ASSUME NEW w \in Workers, Process(w)
         PROVE  TypeOK'
    <2>1. CASE Shutdown(w)
      BY <2>1 DEF Shutdown, TypeOK, Processes
    <2>2. CASE ShutdownReturns(w)
      BY <2>2 DEF ShutdownReturns, TypeOK, Processes
    <2>3. CASE Exit(w)
      BY <2>3, <1>16 DEF Exit, TypeOK
    <2>4. CASE Crash(w)
      BY <2>4, <1>16 DEF Crash, TypeOK
    <2>5. CASE Restart(w)
      BY <2>5 DEF Restart, TypeOK, Processes
    <2>6. QED
      BY <1>17, <2>1, <2>2, <2>3, <2>4, <2>5 DEF Process
  <1>18. CASE Tick
    BY <1>18 DEF Tick, TypeOK
  <1>19. CASE UNCHANGED vars
    BY <1>19 DEF vars, TypeOK
  <1>20. QED
    BY <1>2, <1>4, <1>5, <1>6, <1>7, <1>8, <1>9, <1>10, <1>12, <1>13, <1>14,
       <1>15, <1>17, <1>18, <1>19 DEF Next, PollLoop, TaskSteps

(* Type correctness: the table, the poll loops, the semaphores and the     *)
(* tasks hold values of their types in every reachable state; in           *)
(* particular no semaphore goes below zero.                                *)
THEOREM TypeCorrect == Spec => []TypeOK
  <1>1. Init => TypeOK
    BY NoRowType, IdlePollerType, ParametersAssumption
       DEF Init, TypeOK, Processes
  <1>2. QED
    BY <1>1, TypeStep, PTL DEF Spec

-----------------------------------------------------------------------------
(* Executions: why no task outlives its claim. *)

TasksPart == NoOverlappingExecution /\ TasksOwnTheirRows /\ TasksInTime

(* The reaper's threshold is never reached while a task is alive. *)
LEMMA NotStale ==
  ASSUME ExecutionInv, NEW t \in tasks
  PROVE  ~Stale(t.job)
  <1> DEFINE row == jobs[t.job]
  <1>1. t \in Task /\ row \in Row /\ now \in Nat
    BY DEF ExecutionInv, TypeOK, Task
  <1>2. row.name \in Registered /\ Timeout[row.name] \in Nat
    BY <1>1, ParametersAssumption DEF ExecutionInv, TasksInTime, Row
  <1>3. StaleThreshold >= ClaimLag + Timeout[row.name] + WriteDelay
    BY <1>2, TimingAssumption
  <1>4. t.deadline <= row.started_at + ClaimLag + Timeout[row.name]
    BY DEF ExecutionInv, TasksInTime
  <1>5. now <= t.deadline + WriteDelay
    BY <1>1, Numbers DEF ExecutionInv, TasksInTime, Task
  <1>6. now <= row.started_at + StaleThreshold
    BY <1>1, <1>2, <1>3, <1>4, <1>5, Numbers DEF Task, Row, NoTime
  <1>7. QED
    BY <1>1, <1>6, Numbers DEF Stale, Row, NoTime

(* A step that adds no task, leaves the clock alone and does not touch the *)
(* rows of the tasks that remain keeps the facts about tasks.              *)
LEMMA FewerTasks ==
  ASSUME TasksPart, tasks' \subseteq tasks, now' = now,
         \A t \in tasks' : jobs'[t.job] = jobs[t.job]
  PROVE  TasksPart'
  BY DEF TasksPart, NoOverlappingExecution, TasksOwnTheirRows, TasksInTime

(* The same for a step that does not touch tasks and rows that are running. *)
LEMMA RunningRowsKept ==
  ASSUME TasksPart, tasks' = tasks, now' = now,
         \A j \in Jobs : jobs[j].status = "running" => jobs'[j] = jobs[j],
         tasks \subseteq Task
  PROVE  TasksPart'
  <1>1. \A t \in tasks : t.job \in Jobs /\ jobs[t.job].status = "running"
    BY DEF TasksPart, TasksOwnTheirRows, Task
  <1>2. QED
    BY <1>1, FewerTasks

(* A claim adds tasks for rows that had none, with deadlines counted from  *)
(* a stamp at most ClaimLag old.                                           *)
LEMMA ClaimKeepsTasks ==
  ASSUME ExecutionInv, NEW w \in Workers, Claim(w)
  PROVE  TasksPart'
  <1> DEFINE p == poller[w]
             q == p.queue
  <1>1. PICK S \in Batches(q, p.stamp, p.slots) :
          \E D \in SUBSET S : ClaimBatch(w, q, S, D)
    BY DEF Claim
  <1>2. PICK D \in SUBSET S : ClaimBatch(w, q, S, D)
    BY <1>1
  <1>3. S \subseteq Jobs /\ \A j \in S : jobs[j].status = "pending"
                                         /\ jobs[j].name \in Registered
    BY DEF Batches, Claimable
  <1>4. \A t \in tasks : t.job \in Jobs /\ t.job \notin S
    BY <1>3 DEF ExecutionInv, TasksOwnTheirRows, TypeOK, Task
  <1>5. \A t \in tasks : jobs'[t.job] = jobs[t.job]
    BY <1>2, <1>4 DEF ClaimBatch
  <1>6. p.stamp \in Nat /\ now \in Nat /\ p.stamp <= now /\ now <= p.stamp + ClaimLag
    BY DEF ExecutionInv, PollsInTime, TypeOK, Pollers, Claim
  <1>7. now' = now
    BY DEF Claim
  <1>8. ASSUME NEW j \in D
        PROVE  LET t == Spawn(w, q, j)
                   row == jobs'[j] IN
               /\ t.job = j /\ t.pc = "handler" /\ t.attempt = row.attempt
               /\ row.status = "running" /\ row.name \in Registered
               /\ t.deadline <= row.started_at + ClaimLag + Timeout[row.name]
               /\ now <= t.deadline
    <2>1. j \in Jobs /\ jobs'[j] = ClaimedRow(jobs[j], p.stamp)
      BY <1>2, <1>3 DEF ClaimBatch
    <2>2. jobs[j] \in Row
      BY <2>1 DEF ExecutionInv, TypeOK
    <2>3. /\ jobs'[j].status = "running" /\ jobs'[j].started_at = p.stamp
          /\ jobs'[j].attempt = jobs[j].attempt + 1
          /\ jobs'[j].name = jobs[j].name
      BY <2>1, <2>2 DEF ClaimedRow, Row
    <2>4. Timeout[jobs[j].name] \in Nat
      BY <2>2, ParametersAssumption DEF Row
    <2>5. jobs[j].name \in Registered
      BY <1>3
    <2>6. QED
      BY <1>6, <2>3, <2>4, <2>5, Numbers DEF Spawn
  <1>9. \A t \in tasks' : t \in tasks \/ \E j \in D : t = Spawn(w, q, j)
    BY <1>2 DEF ClaimBatch
  <1>10. NoOverlappingExecution'
    <2> SUFFICES ASSUME NEW t \in tasks', NEW u \in tasks', t.job = u.job
                 PROVE  t = u
      BY DEF NoOverlappingExecution
    <2>1. CASE t \in tasks /\ u \in tasks
      BY <2>1 DEF ExecutionInv, NoOverlappingExecution
    <2>2. CASE \E j \in D, k \in D : t = Spawn(w, q, j) /\ u = Spawn(w, q, k)
      BY <2>2, <1>8
    <2>3. QED
      BY <1>4, <1>8, <1>9, <2>1, <2>2
  <1>11. TasksOwnTheirRows'
    BY <1>5, <1>8, <1>9 DEF ExecutionInv, TasksOwnTheirRows
  <1>12. TasksInTime'
    <2> SUFFICES ASSUME NEW t \in tasks'
                 PROVE  LET row == jobs'[t.job] IN
                        /\ row.name \in Registered
                        /\ t.deadline <= row.started_at + ClaimLag + Timeout[row.name]
                        /\ t.pc = "handler" => now' <= t.deadline
                        /\ t.pc # "handler" => t.at <= t.deadline
                                               /\ now' <= t.at + WriteDelay
      BY DEF TasksInTime
    <2>1. CASE t \in tasks
      BY <1>5, <1>7, <2>1 DEF ExecutionInv, TasksInTime
    <2>2. CASE \E j \in D : t = Spawn(w, q, j)
      BY <1>7, <1>8, <2>2
    <2>3. QED
      BY <1>9, <2>1, <2>2
  <1>13. QED
    BY <1>10, <1>11, <1>12 DEF TasksPart

(* A poll loop that moves on keeps its stamp or goes back to sleep. *)
LEMMA ContinueKeepsPolls ==
  ASSUME TypeOK, PollsInTime, now' = now, NEW w \in Workers, NEW todo,
         Continue(w, todo), poller[w].pc \in {"queues", "claim"}
  PROVE  PollsInTime'
  <1> SUFFICES ASSUME NEW v \in Workers, poller'[v].pc \in {"queues", "claim"}
               PROVE  poller'[v].stamp <= now /\ now <= poller'[v].stamp + ClaimLag
    BY DEF PollsInTime
  <1>1. CASE v # w
    BY <1>1 DEF Continue, TypeOK, PollsInTime
  <1>2. CASE v = w /\ todo = {}
    BY <1>2 DEF Continue, TypeOK, IdlePoller
  <1>3. CASE v = w /\ todo # {}
    BY <1>3 DEF Continue, TypeOK, PollsInTime, Pollers
  <1>4. QED
    BY <1>1, <1>2, <1>3

(* Every action keeps the inductive invariant. *)
LEMMA ExecutionStep == ExecutionInv /\ [Next]_vars => ExecutionInv'
  <1> SUFFICES ASSUME ExecutionInv, [Next]_vars
               PROVE  ExecutionInv'
    OBVIOUS
  <1>1. TypeOK'
    BY TypeStep DEF ExecutionInv
  <1>2. TypeOK /\ TasksPart /\ PollsInTime /\ tasks \subseteq Task
    BY DEF ExecutionInv, TasksPart, TypeOK
  <1>3. SUFFICES TasksPart' /\ PollsInTime'
    BY <1>1 DEF ExecutionInv, TasksPart
  <1>4. ASSUME UNCHANGED <<now, poller>>
        PROVE  PollsInTime'
    BY <1>2, <1>4 DEF PollsInTime
  <1>5. ASSUME UNCHANGED <<now, jobs, tasks>>
        PROVE  TasksPart'
    BY <1>2, <1>5, FewerTasks
  <1>6. ASSUME NEW j \in Jobs, Client(j)
        PROVE  TasksPart' /\ PollsInTime'
    <2>1. /\ UNCHANGED <<now, poller, tasks>>
          /\ jobs[j].status \in {"absent", "pending"}
          /\ \A k \in Jobs \ {j} : jobs'[k] = jobs[k]
      BY <1>2, <1>6 DEF Client, Enqueue, EnqueueUnique, Insert, Cancel, TypeOK
    <2>2. \A k \in Jobs : jobs[k].status = "running" => jobs'[k] = jobs[k]
      BY <2>1
    <2>3. QED
      BY <1>2, <1>4, <2>1, <2>2, RunningRowsKept
  <1>7. ASSUME NEW w \in Workers, PollTick(w)
        PROVE  TasksPart' /\ PollsInTime'
    <2>1. PollsInTime'
      <3> SUFFICES ASSUME NEW v \in Workers, poller'[v].pc \in {"queues", "claim"}
                   PROVE  /\ poller'[v].stamp <= now'
                          /\ now' <= poller'[v].stamp + ClaimLag
        BY DEF PollsInTime
      <3>1. now' = now /\ now \in Nat
        BY <1>2, <1>7 DEF PollTick, TypeOK
      <3>2. CASE v = w
        <4>1. poller'[w].stamp = now
          BY <1>2, <1>7 DEF PollTick, TypeOK, IdlePoller
        <4>2. QED
          BY <3>1, <3>2, <4>1, Numbers
      <3>3. CASE v # w
        BY <1>2, <1>7, <3>1, <3>3 DEF PollTick, TypeOK, PollsInTime
      <3>4. QED
        BY <3>2, <3>3
    <2>2. QED
      BY <1>5, <1>7, <2>1 DEF PollTick
  <1>8. ASSUME NEW w \in Workers, NEW q \in Queues, NoSlots(w, q)
        PROVE  TasksPart' /\ PollsInTime'
    BY <1>2, <1>5, <1>8, ContinueKeepsPolls DEF NoSlots
  <1>9. ASSUME NEW w \in Workers, NEW q \in Queues, ReadSlots(w, q)
        PROVE  TasksPart' /\ PollsInTime'
    <2>1. \A v \in Workers :
            /\ poller'[v].stamp = poller[v].stamp
            /\ poller'[v].pc \in {"queues", "claim"}
                 => poller[v].pc \in {"queues", "claim"}
      BY <1>2, <1>9 DEF ReadSlots, TypeOK, Pollers
    <2>2. QED
      BY <1>2, <1>5, <1>9, <2>1 DEF ReadSlots, PollsInTime
  <1>10. ASSUME NEW w \in Workers, Claim(w)
         PROVE  TasksPart' /\ PollsInTime'
    BY <1>2, <1>10, ClaimKeepsTasks, ContinueKeepsPolls DEF Claim
  <1>11. ASSUME NEW w \in Workers, ClaimFails(w)
         PROVE  TasksPart' /\ PollsInTime'
    BY <1>2, <1>5, <1>11, ContinueKeepsPolls DEF ClaimFails
  <1>12. ASSUME NEW w \in Workers, PollBreak(w)
         PROVE  TasksPart' /\ PollsInTime'
    BY <1>2, <1>5, <1>12 DEF PollBreak, PollsInTime, TypeOK
  <1>13. ASSUME NEW t \in tasks, NEW r \in {"ok", "failed"}, HandlerEnds(t, r)
         PROVE  TasksPart' /\ PollsInTime'
    <2> DEFINE u == [t EXCEPT !.pc = r, !.at = now]
    <2>1. t \in Task /\ now \in Nat /\ now <= t.deadline
      BY <1>2, <1>13 DEF HandlerEnds, TasksPart, TasksInTime, TypeOK
    <2>2. /\ u.job = t.job /\ u.attempt = t.attempt /\ u.deadline = t.deadline
          /\ u.pc # "handler" /\ u.at = now
      BY <2>1 DEF Task
    <2>3. now <= now + WriteDelay
      BY <2>1, Numbers
    <2>4. tasks' = (tasks \ {t}) \cup {u} /\ UNCHANGED <<now, jobs, poller>>
      BY <1>13 DEF HandlerEnds
    <2> HIDE DEF u
    <2>5. NoOverlappingExecution' /\ TasksOwnTheirRows'
      <3>1. NoOverlappingExecution'
        BY <1>2, <2>2, <2>4 DEF TasksPart, NoOverlappingExecution
      <3>2. TasksOwnTheirRows'
        BY <1>2, <2>2, <2>4 DEF TasksPart, TasksOwnTheirRows
      <3>3. QED
        BY <3>1, <3>2
    <2>6. TasksInTime'
      BY <1>2, <2>1, <2>2, <2>3, <2>4 DEF TasksPart, TasksInTime
    <2>7. QED
      BY <1>4, <2>4, <2>5, <2>6 DEF TasksPart
  <1>14. ASSUME NEW t \in tasks, HandlerPanics(t) \/ WriteFails(t)
         PROVE  TasksPart' /\ PollsInTime'
    BY <1>2, <1>4, <1>14, FewerTasks DEF HandlerPanics, WriteFails, EndTask
  <1>15. ASSUME NEW t \in tasks, WriteResult(t)
         PROVE  TasksPart' /\ PollsInTime'
    <2>1. \A u \in tasks \ {t} : u.job # t.job /\ u.job \in Jobs
      BY <1>2 DEF TasksPart, NoOverlappingExecution, Task
    <2>2. \A u \in tasks \ {t} : jobs'[u.job] = jobs[u.job]
      BY <1>2, <1>15, <2>1 DEF WriteResult, TypeOK
    <2>3. QED
      BY <1>2, <1>4, <1>15, <2>2, FewerTasks DEF WriteResult, EndTask
  <1>16. ASSUME NEW w \in Workers, Reap(w)
         PROVE  TasksPart' /\ PollsInTime'
    <2>1. \A t \in tasks : t.job \in Jobs /\ ~Stale(t.job)
      BY <1>2, NotStale DEF Task
    <2>2. \A t \in tasks : jobs'[t.job] = jobs[t.job]
      BY <1>16, <2>1 DEF Reap
    <2>3. QED
      BY <1>2, <1>4, <1>16, <2>2, FewerTasks DEF Reap
  <1>17. ASSUME NEW w \in Workers, Cleanup(w)
         PROVE  TasksPart' /\ PollsInTime'
    <2>1. \A j \in Jobs : jobs[j].status = "running" => jobs'[j] = jobs[j]
      BY <1>17 DEF Cleanup, Expired, Terminal
    <2>2. QED
      BY <1>2, <1>4, <1>17, <2>1, RunningRowsKept DEF Cleanup
  <1>18. ASSUME NEW w \in Workers, Ends(w)
         PROVE  TasksPart' /\ PollsInTime'
    <2>1. PollsInTime'
      BY <1>2, <1>18 DEF Ends, PollsInTime, TypeOK, IdlePoller
    <2>2. QED
      BY <1>2, <1>18, <2>1, FewerTasks DEF Ends
  <1>19. ASSUME NEW w \in Workers, Process(w)
         PROVE  TasksPart' /\ PollsInTime'
    BY <1>4, <1>5, <1>18, <1>19
       DEF Process, Shutdown, ShutdownReturns, Exit, Crash, Restart
  <1>20. CASE Tick
    <2>1. now' = now + 1 /\ now \in Nat /\ Timely /\ UNCHANGED <<jobs, tasks, poller>>
      BY <1>2, <1>20 DEF Tick, TypeOK
    <2>2. NoOverlappingExecution' /\ TasksOwnTheirRows'
      BY <1>2, <2>1 DEF TasksPart, NoOverlappingExecution, TasksOwnTheirRows
    <2>3. TasksInTime'
      BY <1>2, <2>1, Numbers DEF TasksPart, TasksInTime, Timely, Task
    <2>4. PollsInTime'
      BY <1>2, <2>1, Numbers DEF PollsInTime, Timely, TypeOK, Pollers
    <2>5. QED
      BY <2>2, <2>3, <2>4 DEF TasksPart
  <1>21. CASE UNCHANGED vars
    BY <1>4, <1>5, <1>21 DEF vars
  <1>22. QED
    BY <1>6, <1>7, <1>8, <1>9, <1>10, <1>11, <1>12, <1>13, <1>14, <1>15, <1>16,
       <1>17, <1>19, <1>20, <1>21 DEF Next, PollLoop, TaskSteps

LEMMA ExecutionInvariant == Spec => []ExecutionInv
  <1>1. Init => ExecutionInv
    BY NoRowType, IdlePollerType, ParametersAssumption
       DEF Init, ExecutionInv, TypeOK, Processes, NoOverlappingExecution,
           TasksOwnTheirRows, TasksInTime, PollsInTime, IdlePoller
  <1>2. QED
    BY <1>1, ExecutionStep, PTL DEF Spec

(* For every number of processes, jobs and crashes: when a job is stale    *)
(* only after its handler's timeout and the two delays have passed, no job *)
(* is ever executed by two tasks at once.                                  *)
THEOREM NeverOverlapping == Spec => []NoOverlappingExecution
  BY ExecutionInvariant, PTL DEF ExecutionInv

(* And every live task still owns its row, so that the result it writes    *)
(* without comparing status or attempt is the result of the attempt that   *)
(* the row records.                                                        *)
THEOREM ResultsNeverLate == Spec => []TasksOwnTheirRows
  BY ExecutionInvariant, PTL DEF ExecutionInv

-----------------------------------------------------------------------------
(* Permits: why a queue never runs more handlers than it may. *)

SlotsPart ==
  \A w \in Workers : poller[w].pc = "claim" =>
    poller[w].slots <= permits[w][poller[w].queue]

(* The cardinality of a disjoint union. *)
LEMMA DisjointUnion ==
  ASSUME NEW A, NEW B, IsFiniteSet(A), IsFiniteSet(B), B \cap A = {}
  PROVE  /\ IsFiniteSet(A \cup B)
         /\ Cardinality(A \cup B) = Cardinality(A) + Cardinality(B)
  <1>1. Cardinality(A \cap B) = 0
    <2>1. A \cap B = {}
      OBVIOUS
    <2>2. QED
      BY <2>1, FS_EmptySet
  <1>2. Cardinality(A) \in Nat /\ Cardinality(B) \in Nat
    BY FS_CardinalityType
  <1>3. /\ IsFiniteSet(A \cup B)
        /\ Cardinality(A \cup B)
             = Cardinality(A) + Cardinality(B) - Cardinality(A \cap B)
    BY FS_Union
  <1>4. QED
    BY <1>1, <1>2, <1>3

(* One task is spawned for each dispatched job. *)
LEMMA SpawnCount ==
  ASSUME NEW w, NEW q, NEW D, IsFiniteSet(D)
  PROVE  LET T == {Spawn(w, q, j) : j \in D}
         IN  IsFiniteSet(T) /\ Cardinality(T) = Cardinality(D)
  <1> DEFINE T == {Spawn(w, q, j) : j \in D}
             f == [j \in D |-> Spawn(w, q, j)]
  <1>1. \A j \in D : Spawn(w, q, j).job = j
    BY DEF Spawn
  <1>2. f \in [D -> T] /\ \A j \in D : f[j].job = j
    BY <1>1
  <1>3. \A t \in T : \E j \in D : f[j] = t
    OBVIOUS
  <1> HIDE DEF f, T
  <1>4. f \in Injection(D, T)
    BY <1>2 DEF Injection, IsInjective
  <1>5. f \in Surjection(D, T)
    BY <1>2, <1>3 DEF Surjection
  <1>6. IsFiniteSet(T) /\ Cardinality(T) = Cardinality(D)
    BY <1>4, <1>5, FS_Bijection DEF Bijection, ExistsBijection
  <1>7. QED
    BY <1>6 DEF T

(* A claim takes as many permits as it spawns tasks. *)
LEMMA ClaimKeepsPermits ==
  ASSUME ExecutionInv, PermitInv, NEW w \in Workers, Claim(w)
  PROVE  PermitInv'
  <1> DEFINE p == poller[w]
             q == p.queue
  <1>1. PICK S \in Batches(q, p.stamp, p.slots) :
          \E D \in SUBSET S : ClaimBatch(w, q, S, D)
    BY DEF Claim
  <1>2. PICK D \in SUBSET S : ClaimBatch(w, q, S, D)
    BY <1>1
  <1> DEFINE T == {Spawn(w, q, j) : j \in D}
  <1>3. S \subseteq Jobs /\ \A j \in S : jobs[j].status = "pending"
    BY DEF Batches, Claimable
  <1>4. IsFiniteSet(D) /\ Cardinality(D) \in Nat
    BY <1>3, SetsAssumption, FS_Subset, FS_CardinalityType
  <1>5. IsFiniteSet(T) /\ Cardinality(T) = Cardinality(D)
    BY <1>4, SpawnCount
  <1>6. \A t \in T : t.worker = w /\ t.queue = q /\ t.job \in S
    BY DEF Spawn
  <1>7. T \cap TasksOf(w, q) = {}
    BY <1>3, <1>6 DEF ExecutionInv, TasksOwnTheirRows, TasksOf
  <1> HIDE DEF T
  <1>8. tasks' = tasks \cup T /\ permits' = [permits EXCEPT ![w][q] = @ - Cardinality(D)]
    BY <1>2 DEF ClaimBatch, T
  <1>9. p \in Pollers /\ q \in Queues /\ permits \in [Workers -> [Queues -> Nat]]
    BY DEF ExecutionInv, TypeOK, Pollers
  <1>10. ASSUME NEW v \in Workers, NEW r \in Queues
         PROVE  /\ IsFiniteSet(TasksOf(v, r)')
                /\ permits'[v][r] + Cardinality(TasksOf(v, r)') = Concurrency[r]
    <2>1. /\ IsFiniteSet(TasksOf(v, r)) /\ Cardinality(TasksOf(v, r)) \in Nat
          /\ permits[v][r] + Cardinality(TasksOf(v, r)) = Concurrency[r]
      BY FS_CardinalityType DEF PermitInv
    <2>2. CASE v = w /\ r = q
      <3>1. TasksOf(v, r)' = TasksOf(v, r) \cup T
        BY <1>6, <1>8, <2>2 DEF TasksOf
      <3>2. /\ IsFiniteSet(TasksOf(v, r) \cup T)
            /\ Cardinality(TasksOf(v, r) \cup T)
                 = Cardinality(TasksOf(v, r)) + Cardinality(T)
        BY <1>5, <1>7, <2>1, <2>2, DisjointUnion
      <3>3. permits'[v][r] = permits[v][r] - Cardinality(D)
        BY <1>8, <1>9, <2>2
      <3>4. permits[v][r] \in Nat
        BY <1>9
      <3>5. QED
        BY <1>4, <1>5, <2>1, <3>1, <3>2, <3>3, <3>4
    <2>3. CASE v # w \/ r # q
      <3>1. TasksOf(v, r)' = TasksOf(v, r)
        BY <1>6, <1>8, <2>3 DEF TasksOf
      <3>2. permits'[v][r] = permits[v][r]
        BY <1>8, <1>9, <2>3
      <3>3. QED
        BY <2>1, <3>1, <3>2
    <2>4. QED
      BY <2>2, <2>3
  <1>11. SlotsPart'
    <2> SUFFICES ASSUME NEW v \in Workers, poller'[v].pc = "claim"
                 PROVE  poller'[v].slots <= permits'[v][poller'[v].queue]
      BY DEF SlotsPart
    <2>1. v # w
      BY <1>9 DEF Claim, Continue, IdlePoller, ExecutionInv, TypeOK, Pollers
    <2>2. poller'[v] = poller[v] /\ permits'[v] = permits[v]
      BY <1>8, <1>9, <2>1 DEF Claim, Continue, ExecutionInv, TypeOK
    <2>3. QED
      BY <2>2 DEF PermitInv
  <1>12. QED
    BY <1>10, <1>11 DEF PermitInv, SlotsPart

(* A task that ends gives its permit back. *)
LEMMA EndTaskKeepsPermits ==
  ASSUME TypeOK, PermitInv, NEW t \in tasks, EndTask(t), poller' = poller
  PROVE  PermitInv'
  <1>1. t.worker \in Workers /\ t.queue \in Queues
    BY DEF TypeOK, Task
  <1>2. permits' = [permits EXCEPT ![t.worker][t.queue] = @ + 1] /\ tasks' = tasks \ {t}
    BY DEF EndTask
  <1>3. permits \in [Workers -> [Queues -> Nat]]
    BY DEF TypeOK
  <1>4. ASSUME NEW v \in Workers, NEW r \in Queues
        PROVE  /\ IsFiniteSet(TasksOf(v, r)')
               /\ permits'[v][r] + Cardinality(TasksOf(v, r)') = Concurrency[r]
    <2>1. /\ IsFiniteSet(TasksOf(v, r)) /\ Cardinality(TasksOf(v, r)) \in Nat
          /\ permits[v][r] + Cardinality(TasksOf(v, r)) = Concurrency[r]
          /\ permits[v][r] \in Nat
      BY <1>3, FS_CardinalityType DEF PermitInv
    <2>2. TasksOf(v, r)' = TasksOf(v, r) \ {t}
      BY <1>2 DEF TasksOf
    <2>3. /\ IsFiniteSet(TasksOf(v, r) \ {t})
          /\ Cardinality(TasksOf(v, r) \ {t}) =
               IF t \in TasksOf(v, r) THEN Cardinality(TasksOf(v, r)) - 1
                                      ELSE Cardinality(TasksOf(v, r))
      BY <2>1, FS_RemoveElement
    <2>4. permits'[v][r] = IF t \in TasksOf(v, r) THEN permits[v][r] + 1
                                                  ELSE permits[v][r]
      BY <1>1, <1>2, <1>3 DEF TasksOf
    <2>5. QED
      BY <2>1, <2>2, <2>3, <2>4
  <1>5. SlotsPart'
    <2>1. \A v \in Workers, r \in Queues : permits[v][r] <= permits'[v][r]
      BY <1>1, <1>2, <1>3
    <2>2. ASSUME NEW v \in Workers
          PROVE  /\ poller[v].queue \in Queues /\ poller[v].slots \in Nat
                 /\ permits[v][poller[v].queue] \in Nat
                 /\ permits'[v][poller[v].queue] \in Nat
      BY <1>1, <1>2, <1>3 DEF TypeOK, Pollers
    <2>3. QED
      BY <2>1, <2>2 DEF PermitInv, SlotsPart
  <1>6. QED
    BY <1>4, <1>5 DEF PermitInv, SlotsPart

(* Every action keeps the account of permits. *)
LEMMA PermitStep == ExecutionInv /\ PermitInv /\ [Next]_vars => PermitInv'
  <1> SUFFICES ASSUME ExecutionInv, PermitInv, [Next]_vars
               PROVE  PermitInv'
    OBVIOUS
  <1>1. TypeOK
    BY DEF ExecutionInv
  <1>2. ASSUME UNCHANGED <<poller, permits, tasks>>
        PROVE  PermitInv'
    BY <1>2 DEF PermitInv, TasksOf
  <1>3. ASSUME UNCHANGED <<permits, tasks>>, NEW w \in Workers,
               \A v \in Workers \ {w} : poller'[v] = poller[v],
               poller'[w].pc = "claim" =>
                 poller'[w].slots <= permits[w][poller'[w].queue]
        PROVE  PermitInv'
    BY <1>3 DEF PermitInv, TasksOf
  <1>4. ASSUME NEW w \in Workers, NEW todo, Continue(w, todo)
        PROVE  /\ \A v \in Workers \ {w} : poller'[v] = poller[v]
               /\ poller'[w].pc # "claim"
    <2>1. [poller[w] EXCEPT !.pc = "queues", !.todo = todo].pc = "queues"
      BY <1>1 DEF TypeOK, Pollers
    <2>2. IdlePoller.pc = "sleep"
      BY DEF IdlePoller
    <2>3. QED
      BY <1>1, <1>4, <2>1, <2>2 DEF Continue, TypeOK
  <1>5. ASSUME NEW j \in Jobs, Client(j)
        PROVE  PermitInv'
    BY <1>2, <1>5 DEF Client, Enqueue, EnqueueUnique, Insert, Cancel
  <1>6. ASSUME NEW w \in Workers, PollTick(w)
        PROVE  PermitInv'
    <2>1. \A v \in Workers \ {w} : poller'[v] = poller[v]
      BY <1>1, <1>6 DEF PollTick, TypeOK
    <2>2. poller'[w].pc = "queues"
      BY <1>1, <1>6 DEF PollTick, TypeOK, IdlePoller
    <2>3. QED
      BY <1>3, <1>6, <2>1, <2>2 DEF PollTick
  <1>7. ASSUME NEW w \in Workers, NEW q \in Queues, NoSlots(w, q)
        PROVE  PermitInv'
    BY <1>3, <1>4, <1>7 DEF NoSlots
  <1>8. ASSUME NEW w \in Workers, NEW q \in Queues, ReadSlots(w, q)
        PROVE  PermitInv'
    <2>1. \A v \in Workers \ {w} : poller'[v] = poller[v]
      BY <1>1, <1>8 DEF ReadSlots, TypeOK
    <2>2. poller'[w].queue = q /\ poller'[w].slots = permits[w][q]
      BY <1>1, <1>8 DEF ReadSlots, TypeOK, Pollers
    <2>3. permits[w][q] <= permits[w][q]
      BY <1>1 DEF TypeOK
    <2>4. QED
      BY <1>3, <1>8, <2>1, <2>2, <2>3 DEF ReadSlots
  <1>9. ASSUME NEW w \in Workers, Claim(w)
        PROVE  PermitInv'
    BY <1>9, ClaimKeepsPermits
  <1>10. ASSUME NEW w \in Workers, ClaimFails(w)
         PROVE  PermitInv'
    BY <1>3, <1>4, <1>10 DEF ClaimFails
  <1>11. ASSUME NEW w \in Workers, PollBreak(w)
         PROVE  PermitInv'
    <2>1. \A v \in Workers \ {w} : poller'[v] = poller[v]
      BY <1>1, <1>11 DEF PollBreak, TypeOK
    <2>2. poller'[w].pc = "done"
      BY <1>1, <1>11 DEF PollBreak, TypeOK, Pollers
    <2>3. QED
      BY <1>3, <1>11, <2>1, <2>2 DEF PollBreak
  <1>12. ASSUME NEW t \in tasks, NEW r \in {"ok", "failed"}, HandlerEnds(t, r)
         PROVE  PermitInv'
    <2> DEFINE u == [t EXCEPT !.pc = r, !.at = now]
    <2>1. t \in Task
      BY <1>1 DEF TypeOK
    <2>2. u.worker = t.worker /\ u.queue = t.queue /\ u.job = t.job /\ u # t
      BY <1>12, <2>1 DEF HandlerEnds, Task
    <2>3. u \notin tasks
      BY <2>2 DEF ExecutionInv, NoOverlappingExecution
    <2>4. tasks' = (tasks \ {t}) \cup {u} /\ UNCHANGED <<permits, poller>>
      BY <1>12 DEF HandlerEnds
    <2> HIDE DEF u
    <2>5. ASSUME NEW v \in Workers, NEW q \in Queues
          PROVE  /\ IsFiniteSet(TasksOf(v, q)')
                 /\ Cardinality(TasksOf(v, q)') = Cardinality(TasksOf(v, q))
      <3>1. IsFiniteSet(TasksOf(v, q)) /\ Cardinality(TasksOf(v, q)) \in Nat
        BY FS_CardinalityType DEF PermitInv
      <3>2. CASE t \in TasksOf(v, q)
        <4>1. TasksOf(v, q)' = (TasksOf(v, q) \ {t}) \cup {u}
          BY <2>2, <2>4, <3>2 DEF TasksOf
        <4>2. /\ IsFiniteSet(TasksOf(v, q) \ {t})
              /\ Cardinality(TasksOf(v, q) \ {t}) = Cardinality(TasksOf(v, q)) - 1
          BY <3>1, <3>2, FS_RemoveElement
        <4>3. u \notin TasksOf(v, q) \ {t}
          BY <2>3 DEF TasksOf
        <4>4. /\ IsFiniteSet((TasksOf(v, q) \ {t}) \cup {u})
              /\ Cardinality((TasksOf(v, q) \ {t}) \cup {u})
                   = Cardinality(TasksOf(v, q) \ {t}) + 1
          BY <4>2, <4>3, FS_AddElement
        <4>5. QED
          BY <3>1, <4>1, <4>2, <4>4
      <3>3. CASE t \notin TasksOf(v, q)
        <4>1. TasksOf(v, q)' = TasksOf(v, q)
          BY <2>2, <2>4, <3>3 DEF TasksOf
        <4>2. QED
          BY <3>1, <4>1
      <3>4. QED
        BY <3>2, <3>3
    <2>6. QED
      BY <2>4, <2>5 DEF PermitInv
  <1>13. ASSUME NEW t \in tasks, HandlerPanics(t) \/ WriteResult(t) \/ WriteFails(t)
         PROVE  PermitInv'
    BY <1>1, <1>13, EndTaskKeepsPermits DEF HandlerPanics, WriteResult, WriteFails
  <1>14. ASSUME NEW w \in Workers, Reap(w) \/ Cleanup(w)
         PROVE  PermitInv'
    BY <1>2, <1>14 DEF Reap, Cleanup
  <1>15. ASSUME NEW w \in Workers, Ends(w)
         PROVE  PermitInv'
    <2>1. ASSUME NEW v \in Workers, NEW q \in Queues
          PROVE  /\ IsFiniteSet(TasksOf(v, q)')
                 /\ permits'[v][q] + Cardinality(TasksOf(v, q)') = Concurrency[q]
      <3>1. CASE v = w
        <4>1. TasksOf(v, q)' = {}
          BY <1>15, <3>1 DEF Ends, TasksOf
        <4>2. permits'[v][q] = Concurrency[q] /\ Concurrency[q] \in Nat
          BY <1>1, <1>15, <3>1, ParametersAssumption DEF Ends, TypeOK
        <4>3. QED
          BY <4>1, <4>2, FS_EmptySet
      <3>2. CASE v # w
        <4>1. TasksOf(v, q)' = TasksOf(v, q)
          BY <1>15, <3>2 DEF Ends, TasksOf
        <4>2. permits'[v][q] = permits[v][q]
          BY <1>1, <1>15, <3>2 DEF Ends, TypeOK
        <4>3. QED
          BY <4>1, <4>2 DEF PermitInv
      <3>3. QED
        BY <3>1, <3>2
    <2>2. SlotsPart'
      <3>1. poller'[w].pc = "sleep"
        BY <1>1, <1>15 DEF Ends, TypeOK, IdlePoller
      <3>2. \A v \in Workers \ {w} : poller'[v] = poller[v] /\ permits'[v] = permits[v]
        BY <1>1, <1>15 DEF Ends, TypeOK
      <3>3. QED
        BY <3>1, <3>2 DEF PermitInv, SlotsPart
    <2>3. QED
      BY <2>1, <2>2 DEF PermitInv, SlotsPart
  <1>16. ASSUME NEW w \in Workers, Process(w)
         PROVE  PermitInv'
    BY <1>2, <1>15, <1>16
       DEF Process, Shutdown, ShutdownReturns, Exit, Crash, Restart
  <1>17. CASE Tick \/ UNCHANGED vars
    BY <1>2, <1>17 DEF Tick, vars
  <1>18. QED
    BY <1>5, <1>6, <1>7, <1>8, <1>9, <1>10, <1>11, <1>12, <1>13, <1>14, <1>16,
       <1>17 DEF Next, PollLoop, TaskSteps

LEMMA PermitInvariant == Spec => []PermitInv
  <1>1. Init => PermitInv
    <2> SUFFICES ASSUME Init
                 PROVE  PermitInv
      OBVIOUS
    <2>1. \A w \in Workers, q \in Queues : TasksOf(w, q) = {}
      BY DEF Init, TasksOf
    <2>2. \A w \in Workers, q \in Queues :
            permits[w][q] = Concurrency[q] /\ Concurrency[q] \in Nat
      BY ParametersAssumption DEF Init
    <2>3. \A w \in Workers : poller[w].pc = "sleep"
      BY DEF Init, IdlePoller
    <2>4. QED
      BY <2>1, <2>2, <2>3, FS_EmptySet DEF PermitInv
  <1>2. QED
    BY <1>1, PermitStep, ExecutionInvariant, PTL DEF Spec

(* A queue never runs more handlers in a process than its concurrency.     *)
THEOREM ConcurrencyNeverExceeded == Spec => []ConcurrencyRespected
  <1>1. ExecutionInv /\ PermitInv => ConcurrencyRespected
    <2> SUFFICES ASSUME ExecutionInv, PermitInv, NEW w \in Workers, NEW q \in Queues
                 PROVE  Cardinality(TasksOf(w, q)) <= Concurrency[q]
      BY DEF ConcurrencyRespected
    <2>1. /\ permits[w][q] \in Nat /\ Cardinality(TasksOf(w, q)) \in Nat
          /\ permits[w][q] + Cardinality(TasksOf(w, q)) = Concurrency[q]
      BY FS_CardinalityType DEF ExecutionInv, TypeOK, PermitInv
    <2>2. QED
      BY <2>1
  <1>2. QED
    BY <1>1, ExecutionInvariant, PermitInvariant, PTL

-----------------------------------------------------------------------------
(* The queue implements JobLifecycle, and every job it claims gets its     *)
(* task.                                                                   *)

(* The slots the poll loop read are still free: a whole batch is spawned.  *)
LEMMA WholeBatch ==
  ASSUME ExecutionInv, PermitInv, NEW w \in Workers, poller[w].pc = "claim",
         NEW S \in Batches(poller[w].queue, poller[w].stamp, poller[w].slots),
         NEW D \in SUBSET S, ClaimBatch(w, poller[w].queue, S, D)
  PROVE  D = S
  <1> DEFINE q == poller[w].queue
  <1>1. S \subseteq Jobs /\ Cardinality(S) <= poller[w].slots
    BY DEF Batches, Claimable
  <1>2. IsFiniteSet(S) /\ Cardinality(S) \in Nat
    BY <1>1, SetsAssumption, FS_Subset, FS_CardinalityType
  <1>3. /\ poller[w].slots \in Nat /\ permits[w][q] \in Nat
        /\ poller[w].slots <= permits[w][q]
    BY DEF ExecutionInv, TypeOK, Pollers, PermitInv
  <1>4. SUFFICES ASSUME D # S
                 PROVE  FALSE
    OBVIOUS
  <1>5. Cardinality(D) = permits[w][q]
    BY <1>4 DEF ClaimBatch
  <1>6. Cardinality(D) <= Cardinality(S) /\ (Cardinality(S) = Cardinality(D) => S = D)
    BY <1>2, FS_Subset
  <1>7. Cardinality(S) = Cardinality(D)
    BY <1>1, <1>2, <1>3, <1>5, <1>6
  <1>8. QED
    BY <1>4, <1>6, <1>7

(* What a claim does, in the terms of the life cycle. *)
LEMMA ClaimStarts ==
  ASSUME ExecutionInv, PermitInv, NEW w \in Workers, Claim(w)
  PROVE  \E S \in SUBSET Jobs :
           /\ \A j \in S : jobs[j].status = "pending"
           /\ \A j \in Jobs : IF j \in S
                THEN /\ jobs'[j].status = "running"
                     /\ \E t \in tasks' : t.job = j /\ t.attempt = jobs'[j].attempt
                ELSE jobs'[j] = jobs[j]
           /\ {t.job : t \in tasks'} = {t.job : t \in tasks} \cup S
  <1> DEFINE p == poller[w]
             q == p.queue
  <1>1. PICK S \in Batches(q, p.stamp, p.slots) :
          \E D \in SUBSET S : ClaimBatch(w, q, S, D)
    BY DEF Claim
  <1>2. PICK D \in SUBSET S : ClaimBatch(w, q, S, D)
    BY <1>1
  <1>3. D = S
    BY <1>1, <1>2, WholeBatch DEF Claim
  <1>4. S \subseteq Jobs /\ \A j \in S : jobs[j].status = "pending"
    BY DEF Batches, Claimable
  <1>5. /\ jobs' = [j \in Jobs |-> IF j \in S THEN ClaimedRow(jobs[j], p.stamp)
                                              ELSE jobs[j]]
        /\ tasks' = tasks \cup {Spawn(w, q, j) : j \in S}
    BY <1>2, <1>3 DEF ClaimBatch
  <1>6. \A j \in S : /\ ClaimedRow(jobs[j], p.stamp).status = "running"
                     /\ ClaimedRow(jobs[j], p.stamp).attempt = jobs[j].attempt + 1
    BY <1>4 DEF ClaimedRow, ExecutionInv, TypeOK, Row
  <1>7. \A j \in S : Spawn(w, q, j).job = j
                     /\ Spawn(w, q, j).attempt = jobs[j].attempt + 1
    BY DEF Spawn
  <1>8. \A j \in S : /\ jobs'[j].status = "running"
                     /\ \E t \in tasks' : t.job = j /\ t.attempt = jobs'[j].attempt
    BY <1>4, <1>5, <1>6, <1>7
  <1>9. {t.job : t \in tasks'} = {t.job : t \in tasks} \cup S
    BY <1>5, <1>7
  <1>10. QED
    BY <1>4, <1>5, <1>8, <1>9

-----------------------------------------------------------------------------
(* The refinement mapping, named. *)

lifeOf == [j \in Jobs |-> jobs[j].status]

executingOf == {t.job : t \in tasks}

(* A step that changes neither part of the mapping. *)
LEMMA LifeStutters ==
  ASSUME UNCHANGED <<lifeOf, executingOf>>
  PROVE  UNCHANGED Lifecycle!vars
  BY DEF Lifecycle!vars, lifeOf, executingOf

(* A step of the life cycle about a set of jobs is a step of the life cycle. *)
LEMMA BatchStep ==
  ASSUME NEW S, S \in SUBSET Jobs,
         \/ Lifecycle!Start(S) \/ Lifecycle!Abandon(S)
         \/ Lifecycle!Recover(S) \/ Lifecycle!Purge(S)
  PROVE  Lifecycle!Next
  BY DEF Lifecycle!Next

(* Every step of the queue is a step of the life cycle, or none. *)
LEMMA LifecycleStep ==
  ASSUME ExecutionInv, PermitInv, [Next]_vars
  PROVE  [Lifecycle!Next]_Lifecycle!vars
  <1> USE DEF lifeOf, executingOf
  <1>1. TypeOK /\ tasks \subseteq Task /\ jobs \in [Jobs -> Row]
    BY DEF ExecutionInv, TypeOK
  <1>2. ASSUME UNCHANGED <<jobs, tasks>>
        PROVE  UNCHANGED Lifecycle!vars
    BY <1>2, LifeStutters
  <1>3. ASSUME NEW j \in Jobs, Client(j)
        PROVE  Lifecycle!Next
    <2>1. ASSUME NEW n, NEW q, NEW h, NEW r, Insert(j, n, q, h, r)
          PROVE  Lifecycle!Create(j)
      BY <1>1, <2>1 DEF Insert, Lifecycle!Create
    <2>2. ASSUME Cancel(j)
          PROVE  Lifecycle!Cancel(j)
      BY <1>1, <2>2 DEF Cancel, Lifecycle!Cancel, Row
    <2>3. Lifecycle!Create(j) \/ Lifecycle!Cancel(j)
      BY <1>3, <2>1, <2>2 DEF Client, Enqueue, EnqueueUnique
    <2>4. QED
      BY <2>3 DEF Lifecycle!Next
  <1>4. ASSUME NEW w \in Workers, Claim(w)
        PROVE  Lifecycle!Next
    <2>1. PICK S \in SUBSET Jobs :
            /\ \A j \in S : jobs[j].status = "pending"
            /\ \A j \in Jobs : IF j \in S
                 THEN /\ jobs'[j].status = "running"
                      /\ \E t \in tasks' : t.job = j /\ t.attempt = jobs'[j].attempt
                 ELSE jobs'[j] = jobs[j]
            /\ {t.job : t \in tasks'} = {t.job : t \in tasks} \cup S
      BY <1>4, ClaimStarts
    <2>2. \A j \in S : j \notin executingOf
      BY <2>1 DEF ExecutionInv, TasksOwnTheirRows
    <2>3. lifeOf' = [j \in Jobs |-> IF j \in S THEN "running" ELSE lifeOf[j]]
      BY <2>1
    <2>4. Lifecycle!Start(S)
      BY <2>1, <2>2, <2>3 DEF Lifecycle!Start
    <2>5. QED
      BY <2>4 DEF Lifecycle!Next
  <1>5. ASSUME NEW t \in tasks, NEW r \in {"ok", "failed"}, HandlerEnds(t, r)
        PROVE  UNCHANGED Lifecycle!vars
    <2>1. [t EXCEPT !.pc = r, !.at = now].job = t.job
      BY <1>1 DEF Task
    <2>2. executingOf' = executingOf /\ lifeOf' = lifeOf
      BY <1>5, <2>1 DEF HandlerEnds
    <2>3. QED
      BY <2>2, LifeStutters
  <1>6. ASSUME NEW t \in tasks, EndTask(t)
        PROVE  executingOf' = executingOf \ {t.job} /\ t.job \in executingOf
    BY <1>6 DEF EndTask, ExecutionInv, NoOverlappingExecution
  <1>7. ASSUME NEW t \in tasks, HandlerPanics(t) \/ WriteFails(t)
        PROVE  Lifecycle!Next
    <2>1. executingOf' = executingOf \ {t.job} /\ {t.job} \subseteq executingOf
      BY <1>6, <1>7 DEF HandlerPanics, WriteFails
    <2>2. lifeOf' = lifeOf
      BY <1>7 DEF HandlerPanics, WriteFails
    <2>3. Lifecycle!Abandon({t.job})
      BY <2>1, <2>2 DEF Lifecycle!Abandon
    <2>4. {t.job} \in SUBSET Jobs
      BY <1>1 DEF Task
    <2>5. QED
      BY <2>3, <2>4 DEF Lifecycle!Next
  <1>8. ASSUME NEW t \in tasks, WriteResult(t)
        PROVE  Lifecycle!Next
    <2>1. t.job \in Jobs /\ jobs[t.job] \in Row /\ jobs[t.job].status = "running"
      BY <1>1 DEF Task, ExecutionInv, TasksOwnTheirRows
    <2>2. executingOf' = executingOf \ {t.job} /\ {t.job} \subseteq executingOf
      BY <1>6, <1>8 DEF WriteResult
    <2>3. jobs' = [jobs EXCEPT ![t.job] = ResultRow(jobs[t.job], t)]
      BY <1>8, <2>1 DEF WriteResult
    <2>4. ResultRow(jobs[t.job], t).status \in {"completed", "dead", "pending", "running"}
      BY <2>1 DEF ResultRow, FailedRow, Row
    <2>5. lifeOf' = [lifeOf EXCEPT ![t.job] = ResultRow(jobs[t.job], t).status]
      BY <1>1, <2>1, <2>3
    <2>6. CASE ResultRow(jobs[t.job], t).status = "running"
      <3>1. lifeOf' = lifeOf
        BY <2>1, <2>5, <2>6
      <3>2. Lifecycle!Abandon({t.job})
        BY <2>2, <3>1 DEF Lifecycle!Abandon
      <3>3. QED
        BY <2>1, <3>2 DEF Lifecycle!Next
    <2>7. ASSUME NEW outcome \in {"completed", "dead", "pending"},
                 ResultRow(jobs[t.job], t).status = outcome
          PROVE  Lifecycle!Next
      <3>1. Lifecycle!Finish(t.job, outcome)
        BY <2>1, <2>2, <2>5, <2>7 DEF Lifecycle!Finish
      <3>2. QED
        BY <2>1, <3>1 DEF Lifecycle!Next
    <2>8. QED
      BY <2>4, <2>6, <2>7
  <1>9. ASSUME NEW w \in Workers, Reap(w)
        PROVE  Lifecycle!Next
    <2>0. PICK S \in SUBSET Jobs : S = {j \in Jobs : Stale(j)}
      OBVIOUS
    <2>1. \A j \in S : jobs[j].status = "running" /\ j \notin executingOf
      BY <2>0, NotStale DEF Stale
    <2>2. lifeOf' = [j \in Jobs |-> IF j \in S THEN "pending" ELSE lifeOf[j]]
      BY <1>1, <1>9, <2>0 DEF Reap, Row
    <2>3. executingOf' = executingOf
      BY <1>9 DEF Reap
    <2>4. Lifecycle!Recover(S)
      BY <2>1, <2>2, <2>3 DEF Lifecycle!Recover
    <2>5. QED
      BY <2>4, BatchStep
  <1>10. ASSUME NEW w \in Workers, Cleanup(w)
         PROVE  Lifecycle!Next
    <2>0. PICK S \in SUBSET Jobs : S = {j \in Jobs : Expired(j)}
      OBVIOUS
    <2>1. \A j \in S : jobs[j].status \in Lifecycle!Terminal
      BY <2>0 DEF Expired, Terminal, Lifecycle!Terminal
    <2>2. [NoRow EXCEPT !.status = "deleted"].status = "deleted"
      BY DEF NoRow
    <2>3. lifeOf' = [j \in Jobs |-> IF j \in S THEN "deleted" ELSE lifeOf[j]]
      BY <1>10, <2>0, <2>2 DEF Cleanup
    <2>4. executingOf' = executingOf
      BY <1>10 DEF Cleanup
    <2>5. Lifecycle!Purge(S)
      BY <2>1, <2>3, <2>4 DEF Lifecycle!Purge
    <2>6. QED
      BY <2>5, BatchStep
  <1>11. ASSUME NEW w \in Workers, Ends(w)
         PROVE  Lifecycle!Next
    <2>0. PICK S \in SUBSET Jobs : S = {t.job : t \in {u \in tasks : u.worker = w}}
      BY <1>1 DEF Task
    <2>1. executingOf' = executingOf \ S /\ S \subseteq executingOf
      BY <1>11, <2>0 DEF Ends, ExecutionInv, NoOverlappingExecution
    <2>2. lifeOf' = lifeOf
      BY <1>11 DEF Ends
    <2>3. Lifecycle!Abandon(S)
      BY <2>1, <2>2 DEF Lifecycle!Abandon
    <2>4. QED
      BY <2>3, BatchStep
  <1>12. ASSUME NEW w \in Workers, Process(w)
         PROVE  Lifecycle!Next \/ UNCHANGED Lifecycle!vars
    BY <1>2, <1>11, <1>12
       DEF Process, Shutdown, ShutdownReturns, Exit, Crash, Restart
  <1>13. ASSUME NEW w \in Workers, PollLoop(w) \/ ClaimFails(w)
         PROVE  Lifecycle!Next \/ UNCHANGED Lifecycle!vars
    BY <1>2, <1>4, <1>13
       DEF PollLoop, PollTick, NoSlots, ReadSlots, PollBreak, ClaimFails
  <1>14. CASE Tick \/ UNCHANGED vars
    BY <1>2, <1>14 DEF Tick, vars
  <1>15. QED
    BY <1>3, <1>5, <1>7, <1>8, <1>9, <1>10, <1>12, <1>13, <1>14
       DEF Next, TaskSteps

(* The job queue implements its life cycle, for every value of its         *)
(* parameters: terminal statuses are final, executions are exclusive and   *)
(* only abandoned jobs are handed out again.                               *)
THEOREM QueueImplementsLifecycle == Spec => ImplementsLifecycle
  <1>1. Init => Lifecycle!Init
    BY DEF Init, NoRow, Lifecycle!Init
  <1>2. ExecutionInv /\ PermitInv /\ [Next]_vars => [Lifecycle!Next]_Lifecycle!vars
    BY LifecycleStep
  <1>3. QED
    BY <1>1, <1>2, ExecutionInvariant, PermitInvariant, PTL
       DEF Spec, ImplementsLifecycle, Lifecycle!Spec

(* The step that marks a row running spawns its task: the loop never meets *)
(* a claimed job without a free permit.                                    *)
THEOREM ClaimedJobsRun == Spec => ClaimedIsDispatched
  <1>1. ASSUME ExecutionInv, PermitInv, [Next]_vars, NEW j \in Jobs,
               jobs[j].status # "running", jobs'[j].status = "running"
        PROVE  \E t \in tasks' : t.job = j /\ t.attempt = jobs'[j].attempt
    <2>1. CASE \E w \in Workers : Claim(w)
      <3>1. PICK w \in Workers : Claim(w)
        BY <2>1
      <3>2. PICK S \in SUBSET Jobs :
              \A k \in Jobs : IF k \in S
                THEN \E t \in tasks' : t.job = k /\ t.attempt = jobs'[k].attempt
                ELSE jobs'[k] = jobs[k]
        BY <1>1, <3>1, ClaimStarts
      <3>3. QED
        BY <1>1, <3>2
    <2>2. CASE UNCHANGED jobs
      BY <1>1, <2>2
    <2>3. ASSUME NEW k \in Jobs, Client(k)
          PROVE  FALSE
      <3>1. jobs'[k].status # "running" /\ \A i \in Jobs \ {k} : jobs'[i] = jobs[i]
        BY <1>1, <2>3 DEF Client, Enqueue, EnqueueUnique, Insert, Cancel,
                          ExecutionInv, TypeOK, Row
      <3>2. QED
        BY <1>1, <3>1
    <2>4. ASSUME NEW t \in tasks, WriteResult(t)
          PROVE  FALSE
      <3>1. t.job \in Jobs /\ jobs[t.job].status = "running"
        BY <1>1 DEF ExecutionInv, TasksOwnTheirRows, TypeOK, Task
      <3>2. \A i \in Jobs \ {t.job} : jobs'[i] = jobs[i]
        BY <1>1, <2>4 DEF WriteResult, ExecutionInv, TypeOK
      <3>3. QED
        BY <1>1, <3>1, <3>2
    <2>5. ASSUME NEW w \in Workers, Reap(w) \/ Cleanup(w)
          PROVE  FALSE
      <3>1. jobs[j] \in Row /\ [NoRow EXCEPT !.status = "deleted"].status = "deleted"
        BY <1>1 DEF ExecutionInv, TypeOK, NoRow
      <3>2. [jobs[j] EXCEPT !.status = "pending", !.started_at = NoTime,
                            !.updated_at = now].status = "pending"
        BY <3>1 DEF Row
      <3>3. jobs'[j] = jobs[j] \/ jobs'[j].status \in {"pending", "deleted"}
        BY <2>5, <3>1, <3>2 DEF Reap, Cleanup
      <3>4. QED
        BY <1>1, <3>3
    <2>6. QED
      BY <1>1, <2>1, <2>2, <2>3, <2>4, <2>5, ZenonT(30)
         DEF Next, vars, PollLoop, PollTick, NoSlots, ReadSlots, PollBreak,
             ClaimFails, TaskSteps, HandlerEnds, HandlerPanics, WriteFails,
             Process, Shutdown, ShutdownReturns, Exit, Crash, Restart, Ends, Tick
  <1>2. ExecutionInv /\ PermitInv /\ [Next]_vars =>
          [\A j \in Jobs :
             jobs[j].status # "running" /\ jobs'[j].status = "running" =>
               \E t \in tasks' : t.job = j /\ t.attempt = jobs'[j].attempt]_vars
    BY <1>1
  <1>3. QED
    BY <1>2, ExecutionInvariant, PermitInvariant, PTL DEF Spec, ClaimedIsDispatched
=============================================================================
