---------------------------- MODULE JobLifecycle ----------------------------
(***************************************************************************)
(* What the job queue promises about one row of the `jobs` table, without  *)
(* workers, permits, clocks or the database: the life of a job and the     *)
(* moments at which its handler is executing.  JobQueue is shown to        *)
(* implement this specification when its timing assumption holds.          *)
(***************************************************************************)
CONSTANT Jobs        \* the identifiers a job can be given

VARIABLES
  life,              \* the status of each job, as an outside reader sees it
  executing          \* the jobs whose handler, or result write, is in progress

vars == <<life, executing>>

Terminal == {"completed", "dead", "cancelled"}

Lives == {"absent", "pending", "running", "deleted"} \cup Terminal

Init ==
  /\ life = [j \in Jobs |-> "absent"]
  /\ executing = {}

Create(j) ==
  /\ life[j] = "absent"
  /\ life' = [life EXCEPT ![j] = "pending"]
  /\ UNCHANGED executing

Cancel(j) ==
  /\ life[j] = "pending"
  /\ life' = [life EXCEPT ![j] = "cancelled"]
  /\ UNCHANGED executing

(* A batch of pending jobs starts; every one of them gets an executor. *)
Start(S) ==
  /\ \A j \in S : life[j] = "pending" /\ j \notin executing
  /\ life' = [j \in Jobs |-> IF j \in S THEN "running" ELSE life[j]]
  /\ executing' = executing \cup S

(* The only executor of a running job ends it and records what happened. *)
Finish(j, outcome) ==
  /\ j \in executing /\ life[j] = "running"
  /\ life' = [life EXCEPT ![j] = outcome]
  /\ executing' = executing \ {j}

(* Executors vanish: a process ends, a handler panics, a write is lost. *)
Abandon(S) ==
  /\ S \subseteq executing
  /\ executing' = executing \ S
  /\ UNCHANGED life

(* Only jobs nobody executes any more are handed out again. *)
Recover(S) ==
  /\ \A j \in S : life[j] = "running" /\ j \notin executing
  /\ life' = [j \in Jobs |-> IF j \in S THEN "pending" ELSE life[j]]
  /\ UNCHANGED executing

Purge(S) ==
  /\ \A j \in S : life[j] \in Terminal
  /\ life' = [j \in Jobs |-> IF j \in S THEN "deleted" ELSE life[j]]
  /\ UNCHANGED executing

Next ==
  \/ \E j \in Jobs :
       \/ Create(j)
       \/ Cancel(j)
       \/ \E outcome \in {"pending", "completed", "dead"} : Finish(j, outcome)
  \/ \E S \in SUBSET Jobs : Start(S) \/ Abandon(S) \/ Recover(S) \/ Purge(S)

Spec == Init /\ [][Next]_vars
=============================================================================
