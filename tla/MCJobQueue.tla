----------------------------- MODULE MCJobQueue -----------------------------
(* Small instances of the job queue. *)
EXTENDS JobQueue, TLC

CONSTANTS Slots, Attempts, HandlerTimeout

(* One value for every queue and for every name. *)
MCConcurrency == [q \in Queues |-> Slots]
MCMaxAttempts == [n \in Names |-> Attempts]
MCTimeout == [n \in Names |-> HandlerTimeout]

(* Ids are interchangeable; so are processes. *)
Symmetry == Permutations(Jobs) \cup Permutations(Workers)
=============================================================================
