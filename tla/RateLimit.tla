----------------------------- MODULE RateLimit -----------------------------
(***************************************************************************)
(* The rate-limiting middleware (src/middleware/rate_limit.rs): a map of   *)
(* token buckets in shards, each under its own RwLock.  A request looks    *)
(* its key up, counts the keys of all shards and inserts in critical       *)
(* sections of their own, while a sweeper drops idle buckets.              *)
(*                                                                         *)
(* Tokens are counted in fractions, Scale to a token, and Rate of them are *)
(* refilled in a unit of time.                                             *)
(***************************************************************************)
EXTENDS Integers, FiniteSets, Sequences

CONSTANTS
  Keys,            \* what the KeyExtractor returns
  NoKey,           \* or that it returned None
  Shards,          \* the shards, as the sequence a count goes through
  ShardOf,         \* shard_index
  Callers,         \* the requests that can be in the middleware at a time
  Burst,           \* burst_size
  Rate,            \* per_second, in fractions per unit of time
  Scale,           \* fractions in a token
  MaxKeys,         \* max_keys; 0: no cap
  MaxTime          \* bound: the clock

ASSUME RateLimitAssumption ==
  /\ NoKey \notin Keys
  /\ IsFiniteSet(Keys) /\ IsFiniteSet(Callers)
  /\ Shards \in Seq({Shards[i] : i \in DOMAIN Shards})
  /\ ShardOf \in [Keys -> {Shards[i] : i \in DOMAIN Shards}]
  /\ Burst \in Nat /\ MaxKeys \in Nat /\ MaxTime \in Nat
  /\ Rate \in Nat \ {0} /\ Scale \in Nat \ {0}

VARIABLES
  now,
  buckets,         \* the ShardedMap, by key
  caller,          \* per caller: where check_or_insert is
  sweeper          \* the cleanup task

vars == <<now, buckets, caller, sweeper>>

Full == Burst * Scale

Bucket == [in : BOOLEAN, tokens : 0 .. Full, last : Nat]

NoBucket == [in |-> FALSE, tokens |-> 0, last |-> 0]

new == [in |-> TRUE, tokens |-> Full, last |-> now]

(* What the response says: a retry-after of 0 when the request went on. *)
Reply ==
  [kind : {"none", "allowed", "limited", "capped", "error"}, retry : Nat, at : Nat]

NoReply == [kind |-> "none", retry |-> 0, at |-> 0]

Caller ==
  [pc : {"idle", "look", "check", "count", "insert"}, key : Keys \cup {NoKey},
   shard : Nat, total : Nat, reply : Reply]

NoCaller ==
  [pc |-> "idle", key |-> NoKey, shard |-> 0, total |-> 0, reply |-> NoReply]

Sweeper == [pc : {"sleep", "sweep", "done"}, stamp : Nat, shard : Nat]

Init ==
  /\ now = 0
  /\ buckets = [k \in Keys |-> NoBucket]
  /\ caller = [c \in Callers |-> NoCaller]
  /\ sweeper = [pc |-> "sleep", stamp |-> 0, shard |-> 0]

-----------------------------------------------------------------------------
(* TokenBucket::check *)

Refilled(b) ==
  LET grown == b.tokens + (now - b.last) * Rate IN
  IF grown < Full THEN grown ELSE Full

Passes(b) == Refilled(b) >= Scale

Checked(b) ==
  [in |-> TRUE, last |-> now,
   tokens |-> IF Passes(b) THEN Refilled(b) - Scale ELSE Refilled(b)]

(* Fault: the wait is rounded down. *)
retry_after_down(b) == (Scale - Refilled(b)) \div Rate

(* The wait for the missing fractions, rounded up. *)
retry_after(b) == (Scale - Refilled(b) + Rate - 1) \div Rate

CheckReply(b) ==
  IF Passes(b) THEN [kind |-> "allowed", retry |-> 0, at |-> now]
               ELSE [kind |-> "limited", retry |-> retry_after(b), at |-> now]

-----------------------------------------------------------------------------
(* RateLimitService::call and check_or_insert *)

Goto(c, pc) == caller' = [caller EXCEPT ![c].pc = pc]

Answer(c, reply) ==
  caller' = [caller EXCEPT ![c] =
    [NoCaller EXCEPT !.key = caller[c].key, !.reply = reply]]

(* bucket.check(..) under the write lock, and its answer. *)
CheckBucket(c, b) ==
  /\ buckets' = [buckets EXCEPT ![caller[c].key] = Checked(b)]
  /\ Answer(c, CheckReply(b))

(* Without a key the request is refused with a 500. *)
Call(c, k) ==
  /\ caller[c].pc = "idle"
  /\ IF k = NoKey
     THEN caller' = [caller EXCEPT ![c] = [NoCaller EXCEPT !.reply.kind = "error"]]
     ELSE caller' = [caller EXCEPT ![c] = [NoCaller EXCEPT !.pc = "look", !.key = k]]
  /\ UNCHANGED <<now, buckets, sweeper>>

(* Past the fast path: the keys are counted unless there is no cap. *)
GotoCount(c) ==
  IF MaxKeys = 0 THEN Goto(c, "insert")
  ELSE caller' = [caller EXCEPT ![c].pc = "count", ![c].shard = 1, ![c].total = 0]

(* The read lock. *)
Look(c) ==
  /\ caller[c].pc = "look"
  /\ IF buckets[caller[c].key].in THEN Goto(c, "check") ELSE GotoCount(c)
  /\ UNCHANGED <<now, buckets, sweeper>>

(* The write lock of the fast path: the sweeper may have been faster. *)
CheckExisting(c) ==
  LET b == buckets[caller[c].key] IN
  /\ caller[c].pc = "check"
  /\ IF b.in THEN CheckBucket(c, b) ELSE GotoCount(c) /\ UNCHANGED buckets
  /\ UNCHANGED <<now, sweeper>>

InShard(s) == {k \in Keys : buckets[k].in /\ ShardOf[k] = s}

(* Fault: the cap is one too high. *)
CountShardLate(c) ==
  LET total == caller[c].total + Cardinality(InShard(Shards[caller[c].shard])) IN
  /\ caller[c].pc = "count"
  /\ IF caller[c].shard < Len(Shards)
     THEN caller' = [caller EXCEPT ![c].shard = @ + 1, ![c].total = total]
     ELSE IF total > MaxKeys
          THEN Answer(c, [kind |-> "capped", retry |-> 1, at |-> now])
          ELSE Goto(c, "insert")
  /\ UNCHANGED <<now, buckets, sweeper>>

(* One shard's read lock at a time; then the cap. *)
CountShard(c) ==
  LET total == caller[c].total + Cardinality(InShard(Shards[caller[c].shard])) IN
  /\ caller[c].pc = "count"
  /\ IF caller[c].shard < Len(Shards)
     THEN caller' = [caller EXCEPT ![c].shard = @ + 1, ![c].total = total]
     ELSE IF total >= MaxKeys
          THEN Answer(c, [kind |-> "capped", retry |-> 1, at |-> now])
          ELSE Goto(c, "insert")
  /\ UNCHANGED <<now, buckets, sweeper>>

(* Fault: a bucket that came in the meantime is overwritten. *)
InsertOver(c) ==
  /\ caller[c].pc = "insert"
  /\ CheckBucket(c, new)
  /\ UNCHANGED <<now, sweeper>>

(* The write lock: the key may have come in the meantime. *)
Insert(c) ==
  LET b == buckets[caller[c].key] IN
  /\ caller[c].pc = "insert"
  /\ CheckBucket(c, IF b.in THEN b ELSE new)
  /\ UNCHANGED <<now, sweeper>>

-----------------------------------------------------------------------------
(* The cleanup task of rate_limit_with. *)

SweepBegins ==
  /\ sweeper.pc = "sleep"
  /\ sweeper' = [pc |-> "sweep", stamp |-> now, shard |-> 1]
  /\ UNCHANGED <<now, buckets, caller>>

(* Idle for max_idle, burst_size / per_second, by the sweep's own time. *)
Idle(b) == b.in /\ b.last <= sweeper.stamp /\ (sweeper.stamp - b.last) * Rate >= Full

SweepShard ==
  /\ sweeper.pc = "sweep"
  /\ buckets' = [k \in Keys |->
       IF ShardOf[k] = Shards[sweeper.shard] /\ Idle(buckets[k])
       THEN NoBucket ELSE buckets[k]]
  /\ sweeper' = IF sweeper.shard < Len(Shards)
                THEN [sweeper EXCEPT !.shard = @ + 1]
                ELSE [pc |-> "sleep", stamp |-> 0, shard |-> 0]
  /\ UNCHANGED <<now, caller>>

(* The cancellation token: the sweeper ends between two sweeps. *)
SweeperEnds ==
  /\ sweeper.pc = "sleep"
  /\ sweeper' = [sweeper EXCEPT !.pc = "done"]
  /\ UNCHANGED <<now, buckets, caller>>

Tick ==
  /\ now < MaxTime
  /\ now' = now + 1
  /\ UNCHANGED <<buckets, caller, sweeper>>

Next ==
  \/ \E c \in Callers : \/ \E k \in Keys \cup {NoKey} : Call(c, k)
                        \/ Look(c) \/ CheckExisting(c) \/ CountShard(c) \/ Insert(c)
  \/ SweepBegins \/ SweepShard \/ SweeperEnds
  \/ Tick

Spec == Init /\ [][Next]_vars

-----------------------------------------------------------------------------
(* The map, the callers and the sweeper hold values of their types. *)
TypeOK ==
  /\ now \in Nat
  /\ buckets \in [Keys -> Bucket]
  /\ caller \in [Callers -> Caller]
  /\ sweeper \in Sweeper

(* What a key's bucket, or the one it would get, holds at this moment. *)
Available(k) == IF buckets[k].in THEN Refilled(buckets[k]) ELSE Full

(* Neither a sweep nor the race of two requests for a new key ever gives a *)
(* key more than its burst and its refill: every request that is let       *)
(* through is paid for by a bucket that is never forgotten (the re-check   *)
(* under the write lock, and a max_idle as long as a full refill).         *)
Ideal == INSTANCE TokenBuckets WITH
  avail <- [k \in Keys |-> Available(k)]

ImplementsTokenBuckets == Ideal!Spec

(* max_keys is exceeded by no more than the other requests that can be     *)
(* between the count and the insert at a time.                             *)
KeysBounded ==
  MaxKeys > 0 =>
    Cardinality({k \in Keys : buckets[k].in}) < MaxKeys + Cardinality(Callers)

(* A request told to retry after n is let through after n, if no other     *)
(* request of its key comes first: retry_after_secs is rounded up.         *)
RetryAfterIsEnough ==
  \A c \in Callers :
    LET reply == caller[c].reply
        b == buckets[caller[c].key] IN
    reply.kind = "limited" /\ Burst > 0 /\ b.in /\ b.last = reply.at =>
      b.tokens + reply.retry * Rate >= Scale
=============================================================================
