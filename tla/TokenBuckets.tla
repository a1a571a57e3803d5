--------------------------- MODULE TokenBuckets ----------------------------
(***************************************************************************)
(* What the rate limiter promises: every key has a bucket of its own that  *)
(* is never forgotten, refills with time and pays for each request that is *)
(* let through.  RateLimit, which drops idle buckets and decides under     *)
(* several locks, is shown to implement it.                                *)
(***************************************************************************)
EXTENDS Integers

CONSTANTS Keys, Full, Rate, Scale

VARIABLE avail      \* per key: what its bucket holds now

Init == avail = [k \in Keys |-> Full]

(* A request is let through and costs one token. *)
Admit(k) ==
  /\ avail[k] >= Scale
  /\ avail' = [avail EXCEPT ![k] = @ - Scale]

(* A unit of time goes by. *)
Elapse ==
  avail' = [k \in Keys |->
    IF avail[k] + Rate < Full THEN avail[k] + Rate ELSE Full]

Next == Elapse \/ \E k \in Keys : Admit(k)

Spec == Init /\ [][Next]_avail
=============================================================================
