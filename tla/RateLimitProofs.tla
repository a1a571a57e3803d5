--------------------------- MODULE RateLimitProofs --------------------------
(***************************************************************************)
(* Proofs about the rate limiter, for any number of keys, shards and       *)
(* requests: its state is well formed, a retry-after is long enough, the   *)
(* cap on keys is exceeded by less than the number of requests, and the    *)
(* sharded map implements the token buckets of TokenBuckets.               *)
(***************************************************************************)
EXTENDS RateLimit, FiniteSetTheorems, TLAPS

-----------------------------------------------------------------------------
(* Arithmetic of the refill. *)

(* A product of naturals, and its growth in the first factor. *)
LEMMA Products ==
  ASSUME NEW m \in Nat, NEW n \in Nat, NEW r \in Nat
  PROVE  m * r \in Nat /\ (m <= n => m * r <= n * r) /\ (m + 1) * r = m * r + r
         /\ 0 * r = 0
  OBVIOUS

(* A quotient that is rounded up covers what was divided. *)
LEMMA RoundedUp ==
  ASSUME NEW n \in Nat, NEW r \in Nat \ {0}
  PROVE  (n + r - 1) \div r \in Nat /\ ((n + r - 1) \div r) * r >= n
  OBVIOUS

LEMMA FullType == Full \in Nat
  BY RateLimitAssumption, Products DEF Full

(* Nothing that was stamped lies in the future, and a request that is in   *)
(* the middleware has a key.                                               *)
Stamped ==
  /\ \A k \in Keys : buckets[k].last <= now
  /\ \A c \in Callers : /\ caller[c].reply.at <= now
                        /\ caller[c].pc # "idle" => caller[c].key \in Keys
                        /\ caller[c].pc # "idle" => caller[c].reply = NoReply
  /\ sweeper.stamp <= now

TypeInv == TypeOK /\ Stamped

(* What a bucket holds after its refill. *)
LEMMA RefilledType ==
  ASSUME now \in Nat, NEW b \in Bucket, b.last <= now
  PROVE  /\ Refilled(b) \in 0 .. Full
         /\ Refilled(b) >= b.tokens
         /\ b.last = now => Refilled(b) = b.tokens
         /\ (now - b.last) * Rate \in Nat
  <1>1. b.tokens \in Nat /\ b.tokens <= Full /\ b.last \in Nat /\ now - b.last \in Nat
    BY FullType DEF Bucket
  <1>2. (now - b.last) * Rate \in Nat /\ (now - b.last = 0 => (now - b.last) * Rate = 0)
    BY <1>1, RateLimitAssumption, Products
  <1>3. QED
    BY <1>1, <1>2, FullType, SMTT(30) DEF Refilled

LEMMA NewType ==
  ASSUME now \in Nat
  PROVE  new \in Bucket /\ new.in /\ new.last = now /\ new.tokens = Full
  BY FullType DEF new, Bucket

(* TokenBucket::check leaves a bucket and an answer. *)
LEMMA CheckedType ==
  ASSUME now \in Nat, NEW b \in Bucket, b.last <= now
  PROVE  /\ Checked(b) \in Bucket /\ Checked(b).in /\ Checked(b).last = now
         /\ CheckReply(b) \in Reply /\ CheckReply(b).at = now
  <1>1. Refilled(b) \in 0 .. Full
    BY RefilledType
  <1>2. Checked(b) \in Bucket /\ Checked(b).in /\ Checked(b).last = now
    BY <1>1, FullType, RateLimitAssumption DEF Checked, Passes, Bucket
  <1>3. ~Passes(b) => retry_after(b) \in Nat
    <2>1. ~Passes(b) => Scale - Refilled(b) \in Nat
      BY <1>1, FullType, RateLimitAssumption DEF Passes
    <2>2. QED
      BY <2>1, RoundedUp, RateLimitAssumption DEF retry_after
  <1>4. QED
    BY <1>2, <1>3 DEF CheckReply, Reply

-----------------------------------------------------------------------------
(* Types. *)

LEMMA NoCallerType == NoReply \in Reply /\ NoCaller \in Caller
  BY DEF NoCaller, NoReply, Caller, Reply

(* An answered request is idle, keeps its key and has a reply. *)
LEMMA AnswerType ==
  ASSUME TypeInv, NEW c \in Callers, NEW reply \in Reply, reply.at <= now, Answer(c, reply)
  PROVE  /\ caller' \in [Callers -> Caller]
         /\ caller'[c].pc = "idle" /\ caller'[c].reply = reply
         /\ caller'[c].key = caller[c].key
         /\ \A d \in Callers : d # c => caller'[d] = caller[d]
  <1>1. caller \in [Callers -> Caller] /\ caller[c].key \in Keys \cup {NoKey}
    BY DEF TypeInv, TypeOK, Caller
  <1> DEFINE answered == [NoCaller EXCEPT !.key = caller[c].key, !.reply = reply]
  <1>2. answered \in Caller
    BY <1>1, NoCallerType DEF Caller
  <1>3. answered.pc = "idle" /\ answered.reply = reply /\ answered.key = caller[c].key
    BY DEF NoCaller
  <1>4. QED
    BY <1>1, <1>2, <1>3 DEF Answer

LEMMA TypeStep == TypeInv /\ [Next]_vars => TypeInv'
  <1> SUFFICES ASSUME TypeInv, [Next]_vars PROVE TypeInv'
    OBVIOUS
  <1> USE DEF TypeInv
  <1>t. /\ now \in Nat /\ buckets \in [Keys -> Bucket] /\ caller \in [Callers -> Caller]
        /\ sweeper \in Sweeper
    BY DEF TypeOK
  <1>1. ASSUME NEW c \in Callers, NEW k \in Keys \cup {NoKey}, Call(c, k)
        PROVE  TypeInv'
    <2> DEFINE refused == [NoCaller EXCEPT !.reply.kind = "error"]
               started == [NoCaller EXCEPT !.pc = "look", !.key = k]
    <2>1. /\ refused \in Caller
          /\ refused.pc = "idle" /\ refused.reply.at = 0
      BY DEF NoCaller, NoReply, Caller, Reply
    <2>2. k # NoKey => /\ started \in Caller
                       /\ started.key \in Keys /\ started.reply = NoReply
                       /\ started.reply.at = 0
      BY NoCallerType DEF NoCaller, NoReply, Caller
    <2>3. /\ caller' \in [Callers -> Caller]
          /\ caller'[c].reply.at = 0
          /\ caller'[c].pc # "idle" => /\ caller'[c].key \in Keys
                                       /\ caller'[c].reply = NoReply
          /\ \A d \in Callers : d # c => caller'[d] = caller[d]
      BY <2>1, <2>2, <1>1, <1>t DEF Call
    <2>4. QED
      BY <2>3, <1>1, <1>t DEF Call, Stamped, TypeOK
  <1>2. ASSUME NEW c \in Callers, GotoCount(c), caller[c].pc # "idle",
               UNCHANGED <<now, buckets, sweeper>>
        PROVE  TypeInv'
    BY <1>2, <1>t, SMTT(30) DEF GotoCount, Goto, Caller, Stamped, TypeOK
  <1>3. ASSUME NEW c \in Callers, Look(c)
        PROVE  TypeInv'
    BY <1>2, <1>3, <1>t DEF Look, Goto, Caller, Stamped, TypeOK
  <1>4. ASSUME NEW c \in Callers, NEW b \in Bucket, b.last <= now, caller[c].pc # "idle",
               CheckBucket(c, b), UNCHANGED <<now, sweeper>>
        PROVE  TypeInv'
    <2>1. /\ Checked(b) \in Bucket /\ Checked(b).last = now
          /\ CheckReply(b) \in Reply /\ CheckReply(b).at = now
      BY <1>4, <1>t, CheckedType
    <2>2. /\ caller' \in [Callers -> Caller]
          /\ caller'[c].pc = "idle" /\ caller'[c].reply = CheckReply(b)
          /\ \A d \in Callers : d # c => caller'[d] = caller[d]
      BY <2>1, <1>4, <1>t, AnswerType DEF CheckBucket
    <2>3. /\ buckets' \in [Keys -> Bucket]
          /\ \A k \in Keys : buckets'[k].last <= now
      BY <2>1, <1>4, <1>t DEF CheckBucket, Stamped
    <2>4. QED
      BY <2>1, <2>2, <2>3, <1>4, <1>t DEF TypeOK, Stamped
  <1>5. ASSUME NEW c \in Callers, CheckExisting(c)
        PROVE  TypeInv'
    <2>1. buckets[caller[c].key] \in Bucket /\ buckets[caller[c].key].last <= now
      BY <1>5, <1>t DEF CheckExisting, Stamped
    <2>2. QED
      BY <2>1, <1>2, <1>4, <1>5 DEF CheckExisting
  <1>6. ASSUME NEW c \in Callers, CountShard(c)
        PROVE  TypeInv'
    <2> DEFINE total == caller[c].total + Cardinality(InShard(Shards[caller[c].shard]))
               capped == [kind |-> "capped", retry |-> 1, at |-> now]
    <2>1. total \in Nat
      <3>1. InShard(Shards[caller[c].shard]) \subseteq Keys
        BY DEF InShard
      <3>2. Cardinality(InShard(Shards[caller[c].shard])) \in Nat
        BY <3>1, RateLimitAssumption, FS_Subset, FS_CardinalityType
      <3>3. QED
        BY <3>2, <1>t DEF Caller
    <2>2. CASE caller' = [caller EXCEPT ![c].shard = @ + 1, ![c].total = total]
      <3>1. /\ caller' \in [Callers -> Caller]
            /\ caller'[c].pc = "count" /\ caller'[c].key = caller[c].key
            /\ caller'[c].reply = caller[c].reply
            /\ \A d \in Callers : d # c => caller'[d] = caller[d]
        <4>1. caller[c].pc = "count"
          BY <1>6 DEF CountShard
        <4> HIDE DEF total
        <4> DEFINE me == [caller[c] EXCEPT !.shard = @ + 1, !.total = total]
        <4>2. caller' = [caller EXCEPT ![c] = me]
          BY <2>2, <1>t DEF Caller
        <4>3. me \in Caller
          <5>1. \A s \in Nat : [caller[c] EXCEPT !.shard = s, !.total = total] \in Caller
            BY <2>1, <1>t DEF Caller
          <5>2. caller[c].shard + 1 \in Nat
            BY <1>t DEF Caller
          <5>3. QED
            BY <5>1, <5>2
        <4>4. me.pc = "count" /\ me.key = caller[c].key /\ me.reply = caller[c].reply
          BY <4>1, <1>t DEF Caller
        <4> HIDE DEF me
        <4>5. QED
          BY <4>2, <4>3, <4>4, <1>t
      <3>2. QED
        BY <3>1, <1>6, <1>t DEF CountShard, Stamped, TypeOK
    <2>3. CASE Answer(c, capped)
      <3>1. capped \in Reply /\ capped.at <= now
        BY <1>t DEF Reply
      <3>2. /\ caller' \in [Callers -> Caller]
            /\ caller'[c].pc = "idle" /\ caller'[c].reply = capped
            /\ \A d \in Callers : d # c => caller'[d] = caller[d]
        BY <3>1, <2>3, AnswerType
      <3>3. QED
        BY <3>1, <3>2, <1>6, <1>t DEF CountShard, Stamped, TypeOK
    <2>4. CASE Goto(c, "insert")
      BY <2>4, <1>6, <1>t DEF CountShard, Goto, Caller, Stamped, TypeOK
    <2>5. QED
      BY <2>2, <2>3, <2>4, <1>6 DEF CountShard
  <1>7. ASSUME NEW c \in Callers, Insert(c)
        PROVE  TypeInv'
    <2>1. /\ buckets[caller[c].key] \in Bucket /\ buckets[caller[c].key].last <= now
          /\ new \in Bucket /\ new.last <= now
      BY <1>7, <1>t, NewType DEF Insert, Stamped
    <2>2. QED
      BY <2>1, <1>4, <1>7 DEF Insert
  <1>8. CASE SweepBegins
    BY <1>8, <1>t DEF SweepBegins, Sweeper, Stamped, TypeOK
  <1>9. CASE SweepShard
    <2>1. /\ buckets' \in [Keys -> Bucket]
          /\ \A k \in Keys : buckets'[k].last <= now
      BY <1>9, <1>t, FullType DEF SweepShard, NoBucket, Bucket, Stamped
    <2>2. sweeper' \in Sweeper /\ sweeper'.stamp <= now
      BY <1>9, <1>t DEF SweepShard, Sweeper, Stamped
    <2>3. QED
      BY <2>1, <2>2, <1>9, <1>t DEF SweepShard, Stamped, TypeOK
  <1>10. CASE SweeperEnds
    BY <1>10, <1>t DEF SweeperEnds, Sweeper, Stamped, TypeOK
  <1>11. CASE Tick
    <2>1. /\ now' \in Nat /\ now <= now'
          /\ \A k \in Keys : buckets[k].last \in Nat
          /\ \A c \in Callers : caller[c].reply.at \in Nat
          /\ sweeper.stamp \in Nat
      BY <1>11, <1>t DEF Tick, Bucket, Caller, Reply, Sweeper
    <2>2. QED
      BY <2>1, <1>11, <1>t DEF Tick, Stamped, TypeOK
  <1>12. CASE UNCHANGED vars
    BY <1>12 DEF vars, Stamped, TypeOK
  <1>13. QED
    BY <1>1, <1>3, <1>5, <1>6, <1>7, <1>8, <1>9, <1>10, <1>11, <1>12 DEF Next

LEMMA TypeInvariant == Spec => []TypeInv
  <1>1. Init => TypeInv
    BY FullType, RateLimitAssumption
       DEF Init, TypeInv, TypeOK, Stamped, NoBucket, NoCaller, NoReply, Bucket, Caller,
           Reply, Sweeper
  <1>2. QED
    BY <1>1, TypeStep, PTL DEF Spec

(* Whatever requests and sweeps interleave, buckets never hold less than   *)
(* nothing nor more than the burst, and the map, the callers and the       *)
(* sweeper hold values of their types.                                     *)
THEOREM TypeCorrect == Spec => []TypeOK
  BY TypeInvariant, PTL DEF TypeInv

-----------------------------------------------------------------------------
(* retry-after. *)

(* A bucket that refuses is left as it is, and its answer is long enough. *)
LEMMA LimitedCheck ==
  ASSUME now \in Nat, NEW b \in Bucket, b.last <= now
  PROVE  CheckReply(b).kind = "limited" =>
           /\ Checked(b).tokens = Refilled(b) /\ Refilled(b) < Scale
           /\ Checked(b).tokens + CheckReply(b).retry * Rate >= Scale
  <1> SUFFICES ASSUME CheckReply(b).kind = "limited"
               PROVE  /\ Checked(b).tokens = Refilled(b) /\ Refilled(b) < Scale
                      /\ Checked(b).tokens + CheckReply(b).retry * Rate >= Scale
    OBVIOUS
  <1>1. ~Passes(b)
    BY DEF CheckReply
  <1>2. Refilled(b) \in Nat /\ Refilled(b) < Scale
    BY <1>1, RefilledType, FullType, RateLimitAssumption DEF Passes
  <1>3. Checked(b).tokens = Refilled(b) /\ CheckReply(b).retry = retry_after(b)
    BY <1>1 DEF Checked, CheckReply
  <1>4. retry_after(b) \in Nat /\ retry_after(b) * Rate >= Scale - Refilled(b)
    <2> DEFINE missing == Scale - Refilled(b)
    <2>1. missing \in Nat
      BY <1>2, RateLimitAssumption
    <2>2. retry_after(b) = (missing + Rate - 1) \div Rate
      BY DEF retry_after
    <2> HIDE DEF missing
    <2>3. retry_after(b) \in Nat /\ retry_after(b) * Rate >= missing
      BY <2>1, <2>2, RoundedUp, RateLimitAssumption
    <2>4. QED
      BY <2>3 DEF missing
  <1>5. retry_after(b) * Rate \in Nat
    BY <1>4, Products, RateLimitAssumption
  <1>6. QED
    BY <1>2, <1>3, <1>4, <1>5, RateLimitAssumption

(* At the moment it is refused, a key's bucket is there and was just       *)
(* checked: neither a sweep, nor a request of the same moment, changes it. *)
Limited(reply, b) ==
  /\ reply.at = now => b.in /\ b.last = now
  /\ b.in /\ b.last = reply.at =>
       b.tokens < Scale /\ b.tokens + reply.retry * Rate >= Scale

LimitedInv ==
  \A c \in Callers :
    caller[c].reply.kind = "limited" /\ Burst > 0 =>
      caller[c].key \in Keys /\ Limited(caller[c].reply, buckets[caller[c].key])

(* A check at a bucket keeps what was said to others about it. *)
LEMMA LimitedKept ==
  ASSUME now \in Nat, NEW b \in Bucket, b.last <= now, NEW reply, Limited(reply, b),
         NEW nb, nb = Checked(IF b.in THEN b ELSE new)
  PROVE  Limited(reply, nb)
  <1>1. new \in Bucket /\ new.last = now
    BY NewType
  <1>2. nb.in /\ nb.last = now
    BY <1>1, CheckedType
  <1>3. CASE reply.at = now
    <2>1. b.in /\ b.last = now /\ b.tokens < Scale /\ b.tokens + reply.retry * Rate >= Scale
      BY <1>3 DEF Limited
    <2>2. Refilled(b) = b.tokens /\ b.tokens \in Nat
      BY <2>1, RefilledType, FullType DEF Bucket
    <2>3. nb.tokens = b.tokens
      BY <2>1, <2>2, RateLimitAssumption DEF Checked, Passes
    <2>4. QED
      BY <2>1, <2>3, <1>2 DEF Limited
  <1>4. QED
    BY <1>2, <1>3 DEF Limited

LEMMA LimitedStep == TypeInv /\ LimitedInv /\ [Next]_vars => LimitedInv'
  <1> SUFFICES ASSUME TypeInv, LimitedInv, [Next]_vars PROVE LimitedInv'
    OBVIOUS
  <1>t. /\ now \in Nat /\ buckets \in [Keys -> Bucket] /\ caller \in [Callers -> Caller]
        /\ sweeper \in Sweeper /\ Stamped
    BY DEF TypeInv, TypeOK
  <1>1. ASSUME UNCHANGED <<now, buckets>>,
               \A c \in Callers : \/ caller'[c].reply.kind # "limited"
                                  \/ /\ caller'[c].reply = caller[c].reply
                                     /\ caller'[c].key = caller[c].key
        PROVE  LimitedInv'
    BY <1>1 DEF LimitedInv, Limited
  <1>2. ASSUME NEW c \in Callers, NEW k \in Keys \cup {NoKey}, Call(c, k)
        PROVE  LimitedInv'
    <2>1. \A d \in Callers : d # c => caller'[d] = caller[d]
      BY <1>2, <1>t DEF Call
    <2>2. caller'[c].reply.kind # "limited"
      <3>1. /\ [NoCaller EXCEPT !.reply.kind = "error"].reply.kind # "limited"
            /\ [NoCaller EXCEPT !.pc = "look", !.key = k].reply.kind # "limited"
        BY DEF NoCaller, NoReply
      <3>2. QED
        BY <3>1, <1>2, <1>t DEF Call
    <2>3. QED
      BY <2>1, <2>2, <1>1, <1>2 DEF Call
  <1>3. ASSUME NEW c \in Callers, GotoCount(c), UNCHANGED <<now, buckets>>
        PROVE  LimitedInv'
    <2>1. \A d \in Callers : /\ caller'[d].reply = caller[d].reply
                             /\ caller'[d].key = caller[d].key
      BY <1>3, <1>t DEF GotoCount, Goto, Caller
    <2>2. QED
      BY <2>1, <1>1, <1>3
  <1>4. ASSUME NEW c \in Callers, Look(c)
        PROVE  LimitedInv'
    <2>1. CASE Goto(c, "check")
      <3>1. \A d \in Callers : /\ caller'[d].reply = caller[d].reply
                               /\ caller'[d].key = caller[d].key
        BY <2>1, <1>t DEF Goto, Caller
      <3>2. QED
        BY <3>1, <1>1, <1>4 DEF Look
    <2>2. QED
      BY <2>1, <1>3, <1>4 DEF Look
  <1>5. ASSUME NEW c \in Callers, caller[c].pc # "idle", NEW b \in Bucket,
               b = IF buckets[caller[c].key].in THEN buckets[caller[c].key] ELSE new,
               CheckBucket(c, b), UNCHANGED now
        PROVE  LimitedInv'
    <2> DEFINE k == caller[c].key
    <2>1. k \in Keys /\ buckets[k] \in Bucket /\ buckets[k].last <= now /\ b.last <= now
      BY <1>5, <1>t, NewType DEF Stamped
    <2>2. CheckReply(b) \in Reply /\ CheckReply(b).at = now
          /\ Checked(b).in /\ Checked(b).last = now
      BY <2>1, <1>5, <1>t, CheckedType
    <2>3. /\ caller'[c].reply = CheckReply(b) /\ caller'[c].key = k
          /\ \A d \in Callers : d # c => caller'[d] = caller[d]
      BY <2>2, <1>5, <1>t, AnswerType DEF CheckBucket
    <2>4. /\ buckets'[k] = Checked(b)
          /\ \A j \in Keys : j # k => buckets'[j] = buckets[j]
      BY <2>1, <1>5, <1>t DEF CheckBucket
    <2>5. ASSUME NEW d \in Callers, caller'[d].reply.kind = "limited", Burst > 0
          PROVE  caller'[d].key \in Keys /\ Limited(caller'[d].reply, buckets'[caller'[d].key])
      <3>1. CASE d = c
        <4>1. /\ Checked(b).tokens < Scale
              /\ Checked(b).tokens + CheckReply(b).retry * Rate >= Scale
          BY <3>1, <2>1, <2>3, <2>5, <1>5, <1>t, LimitedCheck
        <4>2. QED
          BY <4>1, <3>1, <2>1, <2>2, <2>3, <2>4 DEF Limited
      <3>2. CASE d # c
        <4>1. caller[d].key \in Keys /\ Limited(caller[d].reply, buckets[caller[d].key])
          BY <3>2, <2>3, <2>5 DEF LimitedInv
        <4>2. CASE caller[d].key = k
          BY <4>1, <4>2, <3>2, <2>1, <2>3, <2>4, <1>5, <1>t, LimitedKept
        <4>3. CASE caller[d].key # k
          BY <4>1, <4>3, <3>2, <2>3, <2>4
        <4>4. QED
          BY <4>2, <4>3
      <3>3. QED
        BY <3>1, <3>2
    <2>6. QED
      BY <2>5, <1>5 DEF LimitedInv, Limited
  <1>6. ASSUME NEW c \in Callers, CheckExisting(c)
        PROVE  LimitedInv'
    <2>1. buckets[caller[c].key] \in Bucket /\ caller[c].pc # "idle"
      BY <1>6, <1>t DEF CheckExisting, Stamped
    <2>2. QED
      BY <2>1, <1>3, <1>5, <1>6 DEF CheckExisting
  <1>7. ASSUME NEW c \in Callers, CountShard(c)
        PROVE  LimitedInv'
    <2> DEFINE total == caller[c].total + Cardinality(InShard(Shards[caller[c].shard]))
               capped == [kind |-> "capped", retry |-> 1, at |-> now]
    <2>1. CASE Answer(c, capped)
      <3>1. capped \in Reply /\ capped.at <= now /\ capped.kind # "limited"
        BY <1>t DEF Reply
      <3>2. /\ caller'[c].reply = capped
            /\ \A d \in Callers : d # c => caller'[d] = caller[d]
        BY <3>1, <2>1, AnswerType
      <3>3. QED
        BY <3>1, <3>2, <1>1, <1>7 DEF CountShard
    <2>2. CASE \/ Goto(c, "insert")
               \/ caller' = [caller EXCEPT ![c].shard = @ + 1, ![c].total = total]
      <3> HIDE DEF total
      <3>1. \A d \in Callers : /\ caller'[d].reply = caller[d].reply
                               /\ caller'[d].key = caller[d].key
        BY <2>2, <1>t DEF Goto, Caller
      <3>2. QED
        BY <3>1, <1>1, <1>7 DEF CountShard
    <2>3. QED
      BY <2>1, <2>2, <1>7 DEF CountShard
  <1>8. ASSUME NEW c \in Callers, Insert(c)
        PROVE  LimitedInv'
    <2>1. /\ buckets[caller[c].key] \in Bucket /\ caller[c].pc # "idle"
          /\ new \in Bucket
      BY <1>8, <1>t, NewType DEF Insert, Stamped
    <2>2. QED
      BY <2>1, <1>5, <1>8 DEF Insert
  <1>9. CASE SweepShard
    <2>1. ASSUME NEW c \in Callers, caller[c].reply.kind = "limited", Burst > 0
          PROVE  caller[c].key \in Keys /\ Limited(caller[c].reply, buckets'[caller[c].key])
      <3> DEFINE k == caller[c].key
      <3>1. k \in Keys /\ Limited(caller[c].reply, buckets[k])
        BY <2>1 DEF LimitedInv
      <3>2. buckets[k].last \in Nat /\ sweeper.stamp \in Nat /\ sweeper.stamp <= now
        BY <3>1, <1>t DEF Bucket, Sweeper, Stamped
      <3>3. Full > 0
        BY <2>1, RateLimitAssumption, Products DEF Full
      <3>4. caller[c].reply.at = now => ~Idle(buckets[k])
        <4>1. sweeper.stamp - now = 0 => (sweeper.stamp - now) * Rate = 0
          BY <3>2, <1>t, RateLimitAssumption
        <4>2. QED
          BY <4>1, <3>1, <3>2, <3>3, <1>t, FullType DEF Idle, Limited
      <3>5. CASE buckets'[k] = buckets[k]
        BY <3>1, <3>5
      <3>6. CASE buckets'[k] = NoBucket /\ caller[c].reply.at # now
        BY <3>1, <3>6 DEF Limited, NoBucket
      <3>7. QED
        BY <3>1, <3>4, <3>5, <3>6, <1>9 DEF SweepShard
    <2>2. QED
      BY <2>1, <1>9 DEF SweepShard, LimitedInv, Limited
  <1>10. CASE SweepBegins \/ SweeperEnds
    BY <1>10, <1>1 DEF SweepBegins, SweeperEnds
  <1>11. CASE Tick
    <2>1. now' = now + 1 /\ \A c \in Callers : caller[c].reply.at \in Nat /\ caller[c].reply.at # now'
      BY <1>11, <1>t DEF Tick, Caller, Reply, Stamped
    <2>2. QED
      BY <2>1, <1>11 DEF Tick, LimitedInv, Limited
  <1>12. CASE UNCHANGED vars
    BY <1>12, <1>1 DEF vars
  <1>13. QED
    BY <1>2, <1>4, <1>6, <1>7, <1>8, <1>9, <1>10, <1>11, <1>12 DEF Next

(* A request told to retry after n is let through after n, if no other     *)
(* request of its key comes first: retry_after_secs is rounded up, for     *)
(* every rate and burst.                                                   *)
THEOREM RetryAfterSuffices == Spec => []RetryAfterIsEnough
  <1>1. Init => LimitedInv
    BY DEF Init, LimitedInv, NoCaller, NoReply
  <1>2. LimitedInv => RetryAfterIsEnough
    BY DEF LimitedInv, Limited, RetryAfterIsEnough
  <1>3. QED
    BY <1>1, <1>2, TypeInvariant, LimitedStep, PTL DEF Spec

-----------------------------------------------------------------------------
(* The refinement. *)

avail == [k \in Keys |-> Available(k)]

(* A bucket that is full already refills to full. *)
LEMMA FullRefills ==
  ASSUME now \in Nat, NEW b \in Bucket, b.last <= now, (now - b.last) * Rate >= Full
  PROVE  Refilled(b) = Full
  <1>1. (now - b.last) * Rate \in Nat /\ b.tokens \in Nat /\ Full \in Nat
    BY RefilledType, FullType DEF Bucket
  <1>2. QED
    BY <1>1 DEF Refilled

(* What a check takes from a bucket. *)
LEMMA CheckTakes ==
  ASSUME now \in Nat, NEW b \in Bucket, b.last <= now
  PROVE  Refilled(Checked(b)) = IF Passes(b) THEN Refilled(b) - Scale ELSE Refilled(b)
  <1>1. Checked(b) \in Bucket /\ Checked(b).last = now
    BY CheckedType
  <1>2. Refilled(Checked(b)) = Checked(b).tokens
    BY <1>1, RefilledType
  <1>3. QED
    BY <1>2 DEF Checked

(* A check is an admission, or changes nothing that can be told. *)
LEMMA CheckImplements ==
  ASSUME TypeInv, NEW c \in Callers, caller[c].pc # "idle", NEW b \in Bucket,
         b = IF buckets[caller[c].key].in THEN buckets[caller[c].key] ELSE new,
         CheckBucket(c, b), UNCHANGED now
  PROVE  [Ideal!Next]_avail
  <1> DEFINE k == caller[c].key
  <1>t. now \in Nat /\ buckets \in [Keys -> Bucket] /\ Stamped
    BY DEF TypeInv, TypeOK
  <1>1. k \in Keys /\ buckets[k] \in Bucket /\ b.last <= now
    BY <1>t, NewType DEF Stamped
  <1>2. Refilled(b) = Available(k) /\ Refilled(b) \in Nat
    <2>1. CASE buckets[k].in
      BY <2>1, <1>1, <1>t, RefilledType, FullType DEF Available
    <2>2. CASE ~buckets[k].in
      <3>1. new.tokens = Full /\ new.last = now /\ new \in Bucket
        BY <1>t, NewType
      <3>2. Refilled(new) = Full
        BY <3>1, <1>t, RefilledType
      <3>3. QED
        BY <3>2, <2>2, FullType DEF Available
    <2>3. QED
      BY <2>1, <2>2
  <1>3. /\ buckets'[k] = Checked(b) /\ Checked(b).in
        /\ \A j \in Keys : j # k => buckets'[j] = buckets[j]
    BY <1>1, <1>t, CheckedType DEF CheckBucket
  <1>4. avail' = [avail EXCEPT ![k] = Refilled(Checked(b))]
    <2>1. \A j \in Keys : Available(j)' = IF j = k THEN Refilled(Checked(b)) ELSE Available(j)
      BY <1>1, <1>3 DEF Available, Refilled
    <2>2. QED
      BY <2>1, <1>1 DEF avail
  <1>5. CASE Passes(b)
    <2>1. avail[k] >= Scale /\ avail' = [avail EXCEPT ![k] = @ - Scale]
      BY <1>1, <1>2, <1>4, <1>5, <1>t, CheckTakes DEF Passes, avail
    <2>2. Ideal!Admit(k)
      BY <2>1 DEF Ideal!Admit, avail
    <2>3. QED
      BY <2>2, <1>1 DEF Ideal!Next
  <1>6. CASE ~Passes(b)
    <2>1. avail' = avail
      BY <1>1, <1>2, <1>4, <1>6, <1>t, CheckTakes DEF avail
    <2>2. QED
      BY <2>1
  <1>7. QED
    BY <1>5, <1>6

(* A sweep forgets only what is as good as new. *)
LEMMA SweepImplements ==
  ASSUME TypeInv, SweepShard
  PROVE  UNCHANGED avail
  <1>t. /\ now \in Nat /\ buckets \in [Keys -> Bucket] /\ Stamped /\ UNCHANGED now
        /\ sweeper.stamp \in Nat
    BY DEF TypeInv, TypeOK, SweepShard, Sweeper
  <1>1. ASSUME NEW k \in Keys, Idle(buckets[k])
        PROVE  Refilled(buckets[k]) = Full
    <2> DEFINE b == buckets[k]
               idle == sweeper.stamp - b.last
    <2>1. /\ b \in Bucket /\ b.last <= now /\ idle \in Nat /\ now - b.last \in Nat
          /\ idle <= now - b.last /\ idle * Rate >= Full
      BY <1>1, <1>t DEF Idle, Bucket, Stamped
    <2>2. (now - b.last) * Rate >= idle * Rate /\ idle * Rate \in Nat
          /\ (now - b.last) * Rate \in Nat
      BY <2>1, RateLimitAssumption, Products
    <2>3. (now - b.last) * Rate >= Full
      BY <2>1, <2>2, FullType
    <2>4. QED
      BY <2>1, <2>3, <1>t, FullRefills
  <1>2. ASSUME NEW k \in Keys
        PROVE  Available(k)' = Available(k)
    <2>1. CASE buckets'[k] = buckets[k]
      BY <2>1, <1>t DEF Available, Refilled
    <2>2. CASE buckets'[k] = NoBucket /\ Idle(buckets[k])
      BY <2>2, <1>1 DEF Available, NoBucket, Idle
    <2>3. QED
      BY <2>1, <2>2 DEF SweepShard
  <1>3. QED
    BY <1>2 DEF avail

(* A tick is a unit of refill for every key. *)
LEMMA TickImplements ==
  ASSUME TypeInv, Tick
  PROVE  Ideal!Elapse
  <1>t. now \in Nat /\ buckets \in [Keys -> Bucket] /\ Stamped /\ now' = now + 1
        /\ UNCHANGED buckets
    BY DEF TypeInv, TypeOK, Tick
  <1>1. ASSUME NEW k \in Keys
        PROVE  Available(k)' = IF Available(k) + Rate < Full THEN Available(k) + Rate ELSE Full
    <2> DEFINE b == buckets[k]
               grown == (now - b.last) * Rate
    <2>1. b \in Bucket /\ b.last <= now /\ now - b.last \in Nat /\ b.tokens \in Nat
      BY <1>t, FullType DEF Bucket, Stamped
    <2>2. grown \in Nat /\ (now' - b.last) * Rate = grown + Rate
      <3>1. now' - b.last = (now - b.last) + 1
        BY <2>1, <1>t DEF Bucket
      <3>2. QED
        BY <3>1, <2>1, RateLimitAssumption, Products
    <2> HIDE DEF grown
    <2>3. Refilled(b) = IF b.tokens + grown < Full THEN b.tokens + grown ELSE Full
      BY DEF Refilled, grown
    <2>4. Refilled(b)' = IF b.tokens + grown + Rate < Full THEN b.tokens + grown + Rate ELSE Full
      BY <2>1, <2>2, <1>t, RateLimitAssumption, SMTT(30) DEF Refilled
    <2>5. QED
      BY <2>1, <2>2, <2>3, <2>4, <1>t, FullType, RateLimitAssumption, SMTT(30) DEF Available
  <1>2. QED
    BY <1>1 DEF Ideal!Elapse, avail

LEMMA StepImplements == TypeInv /\ [Next]_vars => [Ideal!Next]_avail
  <1> SUFFICES ASSUME TypeInv, [Next]_vars PROVE [Ideal!Next]_avail
    OBVIOUS
  <1>t. now \in Nat /\ buckets \in [Keys -> Bucket] /\ Stamped
    BY DEF TypeInv, TypeOK
  <1>1. ASSUME UNCHANGED <<now, buckets>>
        PROVE  UNCHANGED avail
    BY <1>1 DEF avail, Available, Refilled
  <1>2. ASSUME NEW c \in Callers, CheckExisting(c)
        PROVE  [Ideal!Next]_avail
    <2>1. buckets[caller[c].key] \in Bucket /\ caller[c].pc # "idle"
      BY <1>2, <1>t DEF CheckExisting, Stamped
    <2>2. QED
      BY <2>1, <1>1, <1>2, CheckImplements DEF CheckExisting
  <1>3. ASSUME NEW c \in Callers, Insert(c)
        PROVE  [Ideal!Next]_avail
    <2>1. /\ buckets[caller[c].key] \in Bucket /\ caller[c].pc # "idle" /\ new \in Bucket
      BY <1>3, <1>t, NewType DEF Insert, Stamped
    <2>2. QED
      BY <2>1, <1>3, CheckImplements DEF Insert
  <1>4. CASE SweepShard
    BY <1>4, SweepImplements
  <1>5. CASE Tick
    BY <1>5, TickImplements DEF Ideal!Next
  <1>6. CASE \/ \E c \in Callers : \/ \E k \in Keys \cup {NoKey} : Call(c, k)
                                   \/ Look(c) \/ CountShard(c)
             \/ SweepBegins \/ SweeperEnds \/ UNCHANGED vars
    BY <1>1, <1>6 DEF Call, Look, CountShard, SweepBegins, SweeperEnds, vars
  <1>7. QED
    BY <1>2, <1>3, <1>4, <1>5, <1>6 DEF Next

(* Shards, sweeps and re-checks do not show: each key is limited as if it  *)
(* had a bucket that is never forgotten.                                   *)
THEOREM LimiterImplementsTokenBuckets == Spec => ImplementsTokenBuckets
  <1>1. Init => Ideal!Init
    BY DEF Init, Ideal!Init, Available, NoBucket
  <1>2. TypeInv /\ [Next]_vars => [Ideal!Next]_([k \in Keys |-> Available(k)])
    BY StepImplements DEF avail
  <1>3. QED
    BY <1>1, <1>2, TypeInvariant, PTL DEF Spec, ImplementsTokenBuckets, Ideal!Spec

-----------------------------------------------------------------------------
(* The cap on keys.  A request counts the keys shard by shard while others *)
(* insert, so that no total is right for any moment.  The argument is      *)
(* about the past of a state, which is stated as three values that exist:  *)
(*   last     the key each request inserted with its last count that       *)
(*            passed, if it did not pass one again since;                  *)
(*   unseen   keys a count may have missed: those that others inserted     *)
(*            since it began;                                              *)
(*   before   which counts began before which.                             *)
(* All present keys but the last ones of the requests were seen by some    *)
(* count that passed, which makes them fewer than max_keys.                *)

Present == {k \in Keys : buckets[k].in}

(* The keys that a count has gone past. *)
Passed(c) ==
  {k \in Present : \E i \in 1 .. (caller[c].shard - 1) : ShardOf[k] = Shards[i]}

Counting(c) == caller[c].pc = "count"

LastOf(last, S) == {last[d] : d \in S}

Order(before) ==
  /\ \A c, d \in Callers : <<c, d>> \in before => <<d, c>> \notin before
  /\ \A c, d, e \in Callers :
       <<c, d>> \in before /\ <<d, e>> \in before => <<c, e>> \in before

CountInv(last, unseen, c) ==
  /\ caller[c].shard \in 1 .. Len(Shards)
  /\ unseen[c] \subseteq LastOf(last, Callers \ {c})
  /\ \/ Cardinality(Passed(c) \ unseen[c]) <= caller[c].total
     \/ Cardinality(Present \ unseen[c]) < MaxKeys

Past(last, unseen, before) ==
  /\ last \in [Callers -> Keys \cup {NoKey}]
  /\ unseen \in [Callers -> SUBSET Keys]
  /\ Order(before)
  /\ Cardinality(Present \ LastOf(last, Callers)) < MaxKeys
  /\ \A c \in Callers : caller[c].pc = "insert" => last[c] = NoKey
  /\ \A c \in Callers : Counting(c) => CountInv(last, unseen, c)
  /\ \A c, d \in Callers :
       Counting(c) /\ Counting(d) /\ last[d] \in unseen[c] => <<c, d>> \in before

CapInv == MaxKeys > 0 => \E last, unseen, before : Past(last, unseen, before)

(* Cardinalities of sets of keys. *)
LEMMA KeySets ==
  ASSUME NEW S \in SUBSET Keys, NEW T \in SUBSET Keys
  PROVE  /\ IsFiniteSet(S) /\ Cardinality(S) \in Nat
         /\ S \subseteq T => Cardinality(S) <= Cardinality(T)
         /\ Cardinality(S \cup T) <= Cardinality(S) + Cardinality(T)
  <1>1. IsFiniteSet(S) /\ IsFiniteSet(T) /\ IsFiniteSet(S \cap T)
    BY RateLimitAssumption, FS_Subset
  <1>2. Cardinality(S) \in Nat /\ Cardinality(T) \in Nat /\ Cardinality(S \cap T) \in Nat
    BY <1>1, FS_CardinalityType
  <1>3. Cardinality(S \cup T) = Cardinality(S) + Cardinality(T) - Cardinality(S \cap T)
    BY <1>1, FS_Union
  <1>4. S \subseteq T => Cardinality(S) <= Cardinality(T)
    BY <1>1, FS_Subset
  <1>5. QED
    BY <1>1, <1>2, <1>3, <1>4

(* Fewer keys stay below a bound. *)
LEMMA FewerKeys ==
  ASSUME NEW T \in SUBSET Keys, NEW S \in SUBSET T
  PROVE  /\ Cardinality(T) < MaxKeys => Cardinality(S) < MaxKeys
         /\ \A n \in Nat : Cardinality(T) <= n => Cardinality(S) <= n
  <1>1. Cardinality(S) \in Nat /\ Cardinality(T) \in Nat /\ Cardinality(S) <= Cardinality(T)
    BY KeySets
  <1>2. QED
    BY <1>1, RateLimitAssumption

(* Every key lies in a shard, and there is one as soon as there is a key. *)
LEMMA KeyHasShard ==
  ASSUME NEW k \in Keys
  PROVE  /\ \E i \in 1 .. Len(Shards) : ShardOf[k] = Shards[i]
         /\ Len(Shards) \in Nat /\ 1 \in 1 .. Len(Shards)
  <1>1. DOMAIN Shards = 1 .. Len(Shards) /\ Len(Shards) \in Nat
    BY RateLimitAssumption
  <1>2. ShardOf[k] \in {Shards[i] : i \in DOMAIN Shards}
    BY RateLimitAssumption
  <1>3. \E i \in 1 .. Len(Shards) : ShardOf[k] = Shards[i]
    BY <1>1, <1>2
  <1>4. QED
    BY <1>1, <1>3

(* The invariant bounds the number of keys: all but one for each request   *)
(* are fewer than max_keys.                                                *)
LEMMA CapBounds == CapInv => KeysBounded
  <1> SUFFICES ASSUME CapInv, MaxKeys > 0
               PROVE  Cardinality(Present) < MaxKeys + Cardinality(Callers)
    BY DEF KeysBounded, Present
  <1>1. PICK last, unseen, before : Past(last, unseen, before)
    BY DEF CapInv
  <1> DEFINE L == LastOf(last, Callers)
             old == Present \ L
             mine == Present \cap L
  <1>2. Present \in SUBSET Keys /\ old \in SUBSET Keys /\ mine \in SUBSET Keys
        /\ Present = old \cup mine
    BY DEF Present
  <1>3. Cardinality(Present) <= Cardinality(old) + Cardinality(mine)
        /\ Cardinality(old) \in Nat /\ Cardinality(mine) \in Nat
        /\ Cardinality(Present) \in Nat
    BY <1>2, KeySets
  <1>4. last \in Surjection(Callers, L)
    BY <1>1 DEF Past, LastOf, Surjection
  <1>5. IsFiniteSet(L) /\ Cardinality(L) <= Cardinality(Callers)
    BY <1>4, RateLimitAssumption, FS_Surjection
  <1>6. Cardinality(mine) <= Cardinality(L) /\ Cardinality(L) \in Nat
        /\ Cardinality(Callers) \in Nat
    BY <1>5, RateLimitAssumption, FS_Subset, FS_CardinalityType
  <1>7. Cardinality(old) < MaxKeys
    BY <1>1 DEF Past
  <1>8. QED
    BY <1>3, <1>5, <1>6, <1>7, RateLimitAssumption

(* Steps that insert nothing and pass no count keep the past: keys may go, *)
(* requests may leave the count or have left it before.                    *)
LEMMA PastKept ==
  ASSUME TypeInv, NEW last, NEW unseen, NEW before, Past(last, unseen, before),
         Present' \subseteq Present,
         \A c \in Callers :
           /\ caller'[c].pc \in {"count", "insert"} => caller'[c].pc = caller[c].pc
           /\ Counting(c)' => /\ caller'[c].shard = caller[c].shard
                              /\ caller'[c].total = caller[c].total
  PROVE  Past(last, unseen, before)'
  <1>1. Present \subseteq Keys
    BY DEF Present
  <1>2. Cardinality(Present' \ LastOf(last, Callers)) < MaxKeys
    BY <1>1, FewerKeys DEF Past
  <1>3. ASSUME NEW c \in Callers, Counting(c)'
        PROVE  CountInv(last, unseen, c)'
    <2>1. CountInv(last, unseen, c)
      BY <1>3 DEF Past, Counting
    <2>2. Passed(c)' \subseteq Passed(c) /\ Passed(c) \subseteq Keys
      BY <1>1, <1>3 DEF Passed
    <2>3. /\ Passed(c)' \ unseen[c] \subseteq Passed(c) \ unseen[c]
          /\ Present' \ unseen[c] \subseteq Present \ unseen[c]
      BY <2>2
    <2>4. caller[c].total \in Nat
      BY DEF TypeInv, TypeOK, Caller
    <2>5. Cardinality(Passed(c) \ unseen[c]) <= caller[c].total =>
            Cardinality(Passed(c)' \ unseen[c]) <= caller[c].total
      BY <2>2, <2>3, <2>4, FewerKeys
    <2>6. Cardinality(Present \ unseen[c]) < MaxKeys =>
            Cardinality(Present' \ unseen[c]) < MaxKeys
      BY <2>3, <1>1, FewerKeys
    <2>7. QED
      BY <2>1, <2>5, <2>6, <1>3 DEF CountInv
  <1>4. QED
    BY <1>2, <1>3 DEF Past, Counting

(* A count begins: it has missed nothing, and all others began before it. *)
LEMMA CountBegins ==
  ASSUME TypeInv, MaxKeys > 0, NEW last, NEW unseen, NEW before,
         Past(last, unseen, before), NEW c \in Callers, caller[c].pc \in {"look", "check"},
         GotoCount(c), UNCHANGED buckets
  PROVE  CapInv'
  <1> DEFINE fresh == [unseen EXCEPT ![c] = {}]
             order == {p \in Callers \X Callers :
                         p[1] # c /\ (p[2] = c \/ p \in before)}
  <1>t. caller \in [Callers -> Caller] /\ caller[c].key \in Keys
    BY DEF TypeInv, TypeOK, Stamped
  <1>1. /\ caller'[c].pc = "count" /\ caller'[c].shard = 1 /\ caller'[c].total = 0
        /\ \A d \in Callers : d # c => caller'[d] = caller[d]
    BY <1>t, RateLimitAssumption DEF GotoCount, Caller
  <1>2. Present' = Present /\ \A d \in Callers : d # c => Passed(d)' = Passed(d)
    BY <1>1 DEF Present, Passed
  <1>3. Order(order)
    BY DEF Order, Past
  <1>4. CountInv(last, fresh, c)'
    <2>1. Passed(c)' \ fresh[c] = {}
      BY <1>1 DEF Passed
    <2>2. fresh[c] = {}
      BY DEF Past
    <2>3. 1 \in 1 .. Len(Shards)
      BY <1>t, KeyHasShard
    <2>4. Cardinality(Passed(c)' \ fresh[c]) = 0
      BY <2>1, FS_EmptySet
    <2> HIDE DEF fresh
    <2>5. QED
      BY <2>2, <2>3, <2>4, <1>1 DEF CountInv
  <1>5. ASSUME NEW d \in Callers, d # c, Counting(d)'
        PROVE  CountInv(last, fresh, d)'
    <2>1. CountInv(last, unseen, d) /\ fresh[d] = unseen[d]
      BY <1>1, <1>5 DEF Past, Counting
    <2>2. QED
      BY <2>1, <1>1, <1>2, <1>5 DEF CountInv
  <1>6. fresh \in [Callers -> SUBSET Keys]
    BY DEF Past
  <1>7. ASSUME NEW d \in Callers, NEW e \in Callers, Counting(d)', Counting(e)',
               last[e] \in fresh[d]
        PROVE  <<d, e>> \in order
    <2>1. d # c /\ last[e] \in unseen[d]
      BY <1>7 DEF Past
    <2>2. e # c => <<d, e>> \in before
      BY <2>1, <1>1, <1>7 DEF Past, Counting
    <2>3. QED
      BY <2>1, <2>2
  <1> HIDE DEF fresh, order
  <1>8. Past(last, fresh, order)'
    BY <1>1, <1>2, <1>3, <1>4, <1>5, <1>6, <1>7 DEF Past
  <1>9. QED
    BY <1>8 DEF CapInv

(* A shard is counted, and it is not the last one. *)
LEMMA CountGoesOn ==
  ASSUME TypeInv, MaxKeys > 0, NEW last, NEW unseen, NEW before,
         Past(last, unseen, before), NEW c \in Callers, CountShard(c),
         caller[c].shard < Len(Shards)
  PROVE  CapInv'
  <1> DEFINE shard == InShard(Shards[caller[c].shard])
             total == caller[c].total + Cardinality(shard)
  <1>t. caller \in [Callers -> Caller] /\ caller[c].total \in Nat
        /\ Counting(c) /\ CountInv(last, unseen, c)
    BY DEF TypeInv, TypeOK, Caller, CountShard, Past, Counting
  <1>1. Present \in SUBSET Keys /\ shard \in SUBSET Keys /\ Passed(c) \in SUBSET Keys
    BY DEF Present, InShard, Passed
  <1>2. Cardinality(shard) \in Nat
    BY <1>1, KeySets
  <1> HIDE DEF total
  <1>3. /\ caller'[c].pc = "count" /\ caller'[c].shard = caller[c].shard + 1
        /\ caller'[c].total = total
        /\ \A d \in Callers : d # c => caller'[d] = caller[d]
    BY <1>t DEF CountShard, Caller, Counting, total
  <1>4. Present' = Present /\ \A d \in Callers : d # c => Passed(d)' = Passed(d)
    BY <1>3 DEF CountShard, Present, Passed
  <1>5. Passed(c)' \subseteq Passed(c) \cup shard
    <2>1. ASSUME NEW k \in Present, NEW i \in 1 .. caller[c].shard, ShardOf[k] = Shards[i]
          PROVE  k \in Passed(c) \cup shard
      <3>1. caller[c].shard \in Nat
        BY <1>t DEF Caller
      <3>2. CASE i = caller[c].shard
        BY <3>2, <2>1 DEF Present, InShard
      <3>3. CASE i # caller[c].shard
        BY <3>1, <3>3, <2>1 DEF Passed
      <3>4. QED
        BY <3>2, <3>3
    <2>2. caller'[c].shard - 1 = caller[c].shard
      BY <1>3, <1>t DEF Caller
    <2>3. QED
      BY <2>1, <2>2, <1>4 DEF Passed
  <1>6. Cardinality(Passed(c) \ unseen[c]) <= caller[c].total =>
          Cardinality(Passed(c)' \ unseen[c]) <= total
    <2> DEFINE rest == Passed(c) \ unseen[c]
               both == rest \cup shard
    <2>1. rest \in SUBSET Keys /\ both \in SUBSET Keys /\ Passed(c)' \ unseen[c] \subseteq both
      BY <1>1, <1>5
    <2>2. Cardinality(both) <= Cardinality(rest) + Cardinality(shard)
          /\ Cardinality(rest) \in Nat /\ Cardinality(both) \in Nat
      BY <2>1, <1>1, KeySets
    <2>3. Cardinality(rest) <= caller[c].total => Cardinality(both) <= total
      BY <2>2, <1>2, <1>t DEF total
    <2>4. total \in Nat
      BY <1>2, <1>t DEF total
    <2> HIDE DEF both
    <2>5. QED
      BY <2>1, <2>3, <2>4, FewerKeys
  <1>7. CountInv(last, unseen, c)'
    <2>1. caller'[c].shard \in 1 .. Len(Shards)
      <3>1. Len(Shards) \in Nat
        BY RateLimitAssumption
      <3>2. QED
        BY <3>1, <1>3, <1>t DEF CountInv
    <2>2. QED
      BY <2>1, <1>3, <1>4, <1>6, <1>t DEF CountInv
  <1>8. ASSUME NEW d \in Callers, d # c, Counting(d)'
        PROVE  CountInv(last, unseen, d)'
    <2>1. CountInv(last, unseen, d)
      BY <1>3, <1>8 DEF Past, Counting
    <2>2. QED
      BY <2>1, <1>3, <1>4, <1>8 DEF CountInv
  <1>9. Past(last, unseen, before)'
    BY <1>3, <1>4, <1>7, <1>8, <1>t DEF Past, Counting
  <1>10. QED
    BY <1>9 DEF CapInv

(* A count that passes has seen all keys but its unseen ones. *)
LEMMA SeenAtTheEnd ==
  ASSUME TypeInv, MaxKeys > 0, NEW last, NEW unseen, NEW before,
         Past(last, unseen, before), NEW c \in Callers, Counting(c),
         ~(caller[c].shard < Len(Shards)),
         caller[c].total + Cardinality(InShard(Shards[caller[c].shard])) < MaxKeys
  PROVE  Cardinality(Present \ unseen[c]) < MaxKeys
  <1> DEFINE shard == InShard(Shards[caller[c].shard])
             rest == Passed(c) \ unseen[c]
             both == rest \cup shard
  <1>t. caller[c].total \in Nat /\ CountInv(last, unseen, c) /\ Len(Shards) \in Nat
    BY RateLimitAssumption DEF TypeInv, TypeOK, Caller, Past
  <1>1. Present \in SUBSET Keys /\ shard \in SUBSET Keys /\ Passed(c) \in SUBSET Keys
    BY DEF Present, InShard, Passed
  <1>2. caller[c].shard = Len(Shards)
    BY <1>t DEF CountInv
  <1>3. Present \subseteq Passed(c) \cup shard
    <2>1. ASSUME NEW k \in Present
          PROVE  k \in Passed(c) \cup shard
      <3>1. PICK i \in 1 .. Len(Shards) : ShardOf[k] = Shards[i]
        BY <1>1, KeyHasShard
      <3>2. CASE i = caller[c].shard
        BY <3>1, <3>2 DEF Present, InShard
      <3>3. CASE i # caller[c].shard
        BY <3>1, <3>3, <1>2, <1>t DEF Passed
      <3>4. QED
        BY <3>2, <3>3
    <2>2. QED
      BY <2>1
  <1>4. rest \in SUBSET Keys /\ both \in SUBSET Keys /\ Present \ unseen[c] \subseteq both
    BY <1>1, <1>3
  <1>5. Cardinality(both) <= Cardinality(rest) + Cardinality(shard)
        /\ Cardinality(rest) \in Nat /\ Cardinality(both) \in Nat
        /\ Cardinality(shard) \in Nat
    BY <1>1, <1>4, KeySets
  <1>6. Cardinality(rest) <= caller[c].total => Cardinality(both) < MaxKeys
    BY <1>5, <1>t, RateLimitAssumption
  <1> HIDE DEF both
  <1>7. QED
    BY <1>4, <1>6, <1>t, FewerKeys DEF CountInv

(* It forgets the key it inserted before.  A count that had missed that    *)
(* key began earlier, so this one has missed none of that one's keys, and  *)
(* what it has missed will do for both.                                    *)
LEMMA CountPasses ==
  ASSUME TypeInv, MaxKeys > 0, NEW last, NEW unseen, NEW before,
         Past(last, unseen, before), NEW c \in Callers, Counting(c),
         Cardinality(Present \ unseen[c]) < MaxKeys, Goto(c, "insert"), UNCHANGED buckets
  PROVE  CapInv'
  <1> DEFINE none == [last EXCEPT ![c] = NoKey]
             missed == [d \in Callers |->
                          IF last[c] \in unseen[d] THEN unseen[c] ELSE unseen[d]]
  <1>t. /\ caller \in [Callers -> Caller]
        /\ last \in [Callers -> Keys \cup {NoKey}] /\ unseen \in [Callers -> SUBSET Keys]
        /\ CountInv(last, unseen, c) /\ Order(before)
    BY DEF TypeInv, TypeOK, Past
  <1>1. /\ caller'[c].pc = "insert"
        /\ \A d \in Callers : d # c => caller'[d] = caller[d]
    BY <1>t DEF Goto, Caller
  <1>2. Present' = Present /\ \A d \in Callers : d # c => Passed(d)' = Passed(d)
    BY <1>1 DEF Present, Passed
  <1>3. none \in [Callers -> Keys \cup {NoKey}] /\ missed \in [Callers -> SUBSET Keys]
    BY <1>t
  <1>4. \A d \in Callers : d # c => none[d] = last[d]
    BY <1>t
  <1>5. unseen[c] \subseteq LastOf(none, Callers)
    BY <1>4, <1>t DEF CountInv, LastOf
  <1>6. Cardinality(Present \ LastOf(none, Callers)) < MaxKeys
    <2>1. Present \ LastOf(none, Callers) \subseteq Present \ unseen[c]
      BY <1>5
    <2>2. Present \ unseen[c] \subseteq Keys
      BY DEF Present
    <2>3. QED
      BY <2>1, <2>2, FewerKeys
  <1>7. ASSUME NEW d \in Callers, Counting(d)'
        PROVE  CountInv(none, missed, d)'
    <2>1. d # c /\ CountInv(last, unseen, d) /\ Counting(d)
      BY <1>1, <1>7 DEF Past, Counting
    <2>2. CASE last[c] \in unseen[d]
      <3>1. missed[d] = unseen[c] /\ <<d, c>> \in before
        BY <2>1, <2>2 DEF Past
      <3>2. last[d] \notin unseen[c]
        BY <3>1, <2>1, <1>t DEF Past, Order
      <3>3. missed[d] \subseteq LastOf(none, Callers \ {d})
        BY <3>1, <3>2, <1>4, <1>t DEF CountInv, LastOf
      <3> HIDE DEF none, missed
      <3>4. QED
        BY <3>1, <3>3, <2>1, <1>1, <1>2 DEF CountInv
    <2>3. CASE last[c] \notin unseen[d]
      <3>1. missed[d] = unseen[d]
        BY <2>3
      <3>2. missed[d] \subseteq LastOf(none, Callers \ {d})
        BY <3>1, <2>1, <2>3, <1>4 DEF CountInv, LastOf
      <3> HIDE DEF none, missed
      <3>3. QED
        BY <3>1, <3>2, <2>1, <1>1, <1>2 DEF CountInv
    <2>4. QED
      BY <2>2, <2>3
  <1>8. ASSUME NEW d \in Callers, NEW e \in Callers, Counting(d)', Counting(e)',
               none[e] \in missed[d]
        PROVE  <<d, e>> \in before
    <2>1. d # c /\ e # c /\ Counting(d) /\ Counting(e) /\ last[e] \in missed[d]
      BY <1>1, <1>4, <1>8 DEF Counting
    <2>2. CASE last[c] \in unseen[d]
      <3>1. <<d, c>> \in before /\ <<c, e>> \in before
        BY <2>1, <2>2 DEF Past
      <3>2. QED
        BY <3>1, <1>t DEF Order
    <2>3. CASE last[c] \notin unseen[d]
      BY <2>1, <2>3 DEF Past
    <2>4. QED
      BY <2>2, <2>3
  <1>9. \A d \in Callers : caller'[d].pc = "insert" => none[d] = NoKey
    BY <1>1, <1>t DEF Past
  <1> HIDE DEF none, missed
  <1>10. Past(none, missed, before)'
    BY <1>2, <1>3, <1>6, <1>7, <1>8, <1>9, <1>t DEF Past
  <1>11. QED
    BY <1>10 DEF CapInv

(* A request inserts a key that is not there: its last one, and one that   *)
(* every other count may have missed.                                      *)
LEMMA InsertsKey ==
  ASSUME TypeInv, MaxKeys > 0, NEW last, NEW unseen, NEW before,
         Past(last, unseen, before), NEW c \in Callers, caller[c].pc = "insert",
         NEW k \in Keys, Present' = Present \cup {k},
         caller'[c].pc = "idle", \A d \in Callers : d # c => caller'[d] = caller[d]
  PROVE  CapInv'
  <1> DEFINE mine == [d \in Callers |->
                        IF d = c THEN k ELSE IF last[d] = k THEN NoKey ELSE last[d]]
             missed == [d \in Callers |-> unseen[d] \cup {k}]
  <1>t. /\ last \in [Callers -> Keys \cup {NoKey}] /\ unseen \in [Callers -> SUBSET Keys]
        /\ Order(before) /\ last[c] = NoKey /\ NoKey \notin Keys
    BY RateLimitAssumption DEF Past
  <1>1. mine \in [Callers -> Keys \cup {NoKey}] /\ missed \in [Callers -> SUBSET Keys]
    BY <1>t
  <1>2. \A x \in Keys : \A S \in SUBSET Callers :
          x # k /\ x \in LastOf(last, S) => x \in LastOf(mine, S)
    BY <1>t DEF LastOf
  <1>3. \A S \in SUBSET Callers : c \in S => k \in LastOf(mine, S)
    BY DEF LastOf
  <1>p. Present \subseteq Keys
    BY DEF Present
  <1> HIDE DEF mine
  <1>4. Cardinality(Present' \ LastOf(mine, Callers)) < MaxKeys
    <2>1. Present' \ LastOf(mine, Callers) \subseteq Present \ LastOf(last, Callers)
      BY <1>2, <1>3, <1>p
    <2>2. Present \ LastOf(last, Callers) \subseteq Keys
      BY <1>p
    <2>3. QED
      BY <2>1, <2>2, FewerKeys DEF Past
  <1>5. ASSUME NEW d \in Callers, Counting(d)'
        PROVE  CountInv(mine, missed, d)'
    <2>1. d # c /\ CountInv(last, unseen, d) /\ caller'[d] = caller[d]
      BY <1>5 DEF Past, Counting
    <2>2. missed[d] \subseteq LastOf(mine, Callers \ {d})
      BY <2>1, <1>2, <1>3, <1>t DEF CountInv
    <2>3. /\ Passed(d)' \ missed[d] \subseteq Passed(d) \ unseen[d]
          /\ Passed(d) \ unseen[d] \subseteq Keys
          /\ Present' \ missed[d] \subseteq Present \ unseen[d]
          /\ Present \ unseen[d] \subseteq Keys
      BY <2>1, <1>p DEF Passed
    <2>4. caller[d].total \in Nat
      BY DEF TypeInv, TypeOK, Caller
    <2> HIDE DEF missed
    <2>5. Cardinality(Passed(d) \ unseen[d]) <= caller[d].total =>
            Cardinality(Passed(d)' \ missed[d]) <= caller[d].total
      BY <2>3, <2>4, FewerKeys
    <2>6. Cardinality(Present \ unseen[d]) < MaxKeys =>
            Cardinality(Present' \ missed[d]) < MaxKeys
      BY <2>3, FewerKeys
    <2>7. QED
      BY <2>1, <2>2, <2>5, <2>6 DEF CountInv
  <1>6. ASSUME NEW d \in Callers, NEW e \in Callers, Counting(d)', Counting(e)',
               mine[e] \in missed[d]
        PROVE  <<d, e>> \in before
    <2>1. d # c /\ e # c /\ Counting(d) /\ Counting(e)
      BY <1>6 DEF Counting
    <2>2. mine[e] = last[e] /\ last[e] \in unseen[d]
      BY <2>1, <1>6, <1>t DEF mine
    <2>3. QED
      BY <2>1, <2>2 DEF Past
  <1>7. \A d \in Callers : caller'[d].pc = "insert" => mine[d] = NoKey
    BY <1>t DEF mine, Past
  <1> HIDE DEF missed
  <1>8. Past(mine, missed, before)'
    BY <1>1, <1>4, <1>5, <1>6, <1>7, <1>t DEF Past
  <1>9. QED
    BY <1>8 DEF CapInv

LEMMA CapStep == TypeInv /\ CapInv /\ [Next]_vars => CapInv'
  <1> SUFFICES ASSUME TypeInv, CapInv, [Next]_vars, MaxKeys > 0 PROVE CapInv'
    BY DEF CapInv
  <1>t. /\ now \in Nat /\ buckets \in [Keys -> Bucket] /\ caller \in [Callers -> Caller]
        /\ Stamped
    BY DEF TypeInv, TypeOK
  <1>p. PICK last, unseen, before : Past(last, unseen, before)
    BY DEF CapInv
  <1>1. ASSUME Present' \subseteq Present,
               \A c \in Callers :
                 /\ caller'[c].pc \in {"count", "insert"} => caller'[c].pc = caller[c].pc
                 /\ Counting(c)' => /\ caller'[c].shard = caller[c].shard
                                    /\ caller'[c].total = caller[c].total
        PROVE  CapInv'
    <2>1. Past(last, unseen, before)'
      BY <1>1, <1>p, PastKept
    <2>2. QED
      BY <2>1 DEF CapInv
  <1>2. ASSUME NEW c \in Callers, NEW k \in Keys \cup {NoKey}, Call(c, k)
        PROVE  CapInv'
    <2>1. /\ [NoCaller EXCEPT !.reply.kind = "error"].pc = "idle"
          /\ [NoCaller EXCEPT !.pc = "look", !.key = k].pc = "look"
      BY DEF NoCaller
    <2>2. caller'[c].pc \in {"idle", "look"}
          /\ \A d \in Callers : d # c => caller'[d] = caller[d]
      BY <2>1, <1>2, <1>t DEF Call
    <2>3. Present' = Present
      BY <1>2 DEF Call, Present
    <2>4. QED
      BY <2>2, <2>3, <1>1 DEF Counting
  <1>3. ASSUME NEW c \in Callers, Look(c)
        PROVE  CapInv'
    <2>1. CASE Goto(c, "check")
      <3>1. caller'[c].pc = "check" /\ \A d \in Callers : d # c => caller'[d] = caller[d]
        BY <2>1, <1>t DEF Goto, Caller
      <3>2. Present' = Present
        BY <1>3 DEF Look, Present
      <3>3. QED
        BY <3>1, <3>2, <1>1 DEF Counting
    <2>2. CASE GotoCount(c)
      BY <2>2, <1>3, <1>p, CountBegins DEF Look
    <2>3. QED
      BY <2>1, <2>2, <1>3 DEF Look
  <1>4. ASSUME NEW c \in Callers, caller[c].pc # "idle", NEW b \in Bucket, b.last <= now,
               CheckBucket(c, b)
        PROVE  /\ caller'[c].pc = "idle"
               /\ \A d \in Callers : d # c => caller'[d] = caller[d]
               /\ caller[c].key \in Keys /\ Present' = Present \cup {caller[c].key}
    <2>1. CheckReply(b) \in Reply /\ CheckReply(b).at = now /\ Checked(b).in
      BY <1>4, <1>t, CheckedType
    <2>2. /\ caller'[c].pc = "idle"
          /\ \A d \in Callers : d # c => caller'[d] = caller[d]
      BY <2>1, <1>4, <1>t, AnswerType DEF CheckBucket
    <2>3. caller[c].key \in Keys
      BY <1>4, <1>t DEF Stamped
    <2>4. /\ buckets'[caller[c].key] = Checked(b)
          /\ \A j \in Keys : j # caller[c].key => buckets'[j] = buckets[j]
      BY <2>3, <1>4, <1>t DEF CheckBucket
    <2>5. QED
      BY <2>1, <2>2, <2>3, <2>4 DEF Present
  <1>5. ASSUME NEW c \in Callers, CheckExisting(c)
        PROVE  CapInv'
    <2> DEFINE b == buckets[caller[c].key]
    <2>1. caller[c].key \in Keys /\ b \in Bucket /\ b.last <= now /\ caller[c].pc # "idle"
      BY <1>5, <1>t DEF CheckExisting, Stamped
    <2>2. CASE b.in
      <3>1. CheckBucket(c, b)
        BY <2>2, <1>5 DEF CheckExisting
      <3>2. /\ caller'[c].pc = "idle"
            /\ \A d \in Callers : d # c => caller'[d] = caller[d]
            /\ Present' = Present \cup {caller[c].key}
        BY <3>1, <2>1, <1>4
      <3>3. Present' = Present
        BY <3>2, <2>1, <2>2 DEF Present
      <3>4. QED
        BY <3>2, <3>3, <1>1 DEF Counting
    <2>3. CASE ~b.in
      BY <2>3, <1>5, <1>p, CountBegins DEF CheckExisting
    <2>4. QED
      BY <2>2, <2>3
  <1>6. ASSUME NEW c \in Callers, CountShard(c)
        PROVE  CapInv'
    <2> DEFINE total == caller[c].total + Cardinality(InShard(Shards[caller[c].shard]))
               capped == [kind |-> "capped", retry |-> 1, at |-> now]
    <2>1. CASE caller[c].shard < Len(Shards)
      BY <2>1, <1>6, <1>p, CountGoesOn
    <2>2. CASE ~(caller[c].shard < Len(Shards)) /\ total >= MaxKeys
      <3>1. capped \in Reply /\ capped.at <= now
        BY <1>t DEF Reply
      <3>2. Answer(c, capped) /\ Present' = Present
        BY <2>2, <1>6 DEF CountShard, Present
      <3>3. caller'[c].pc = "idle" /\ \A d \in Callers : d # c => caller'[d] = caller[d]
        BY <3>1, <3>2, AnswerType
      <3>4. QED
        BY <3>2, <3>3, <1>1 DEF Counting
    <2>3. CASE ~(caller[c].shard < Len(Shards)) /\ ~(total >= MaxKeys)
      <3>1. total \in Nat
        <4>1. InShard(Shards[caller[c].shard]) \in SUBSET Keys
          BY DEF InShard
        <4>2. Cardinality(InShard(Shards[caller[c].shard])) \in Nat
          BY <4>1, KeySets
        <4>3. QED
          BY <4>2, <1>t DEF Caller
      <3>2. total < MaxKeys
        BY <3>1, <2>3, RateLimitAssumption
      <3>3. Counting(c) /\ Goto(c, "insert") /\ UNCHANGED buckets
        BY <2>3, <1>6 DEF CountShard, Counting
      <3>4. Cardinality(Present \ unseen[c]) < MaxKeys
        BY <3>2, <3>3, <2>3, <1>p, SeenAtTheEnd
      <3>5. QED
        BY <3>3, <3>4, <1>p, CountPasses
    <2>4. QED
      BY <2>1, <2>2, <2>3
  <1>7. ASSUME NEW c \in Callers, Insert(c)
        PROVE  CapInv'
    <2> DEFINE b == buckets[caller[c].key]
    <2>1. /\ caller[c].key \in Keys /\ b \in Bucket /\ b.last <= now
          /\ caller[c].pc = "insert" /\ new \in Bucket /\ new.last <= now
      BY <1>7, <1>t, NewType DEF Insert, Stamped
    <2>2. /\ caller'[c].pc = "idle"
          /\ \A d \in Callers : d # c => caller'[d] = caller[d]
          /\ Present' = Present \cup {caller[c].key}
      BY <2>1, <1>4, <1>7 DEF Insert
    <2>3. QED
      BY <2>1, <2>2, <1>p, InsertsKey
  <1>8. CASE SweepShard
    <2>1. Present' \subseteq Present
      BY <1>8 DEF SweepShard, Present, NoBucket
    <2>2. QED
      BY <2>1, <1>1, <1>8 DEF SweepShard, Counting
  <1>9. CASE SweepBegins \/ SweeperEnds \/ Tick \/ UNCHANGED vars
    <2>1. UNCHANGED <<buckets, caller>>
      BY <1>9 DEF SweepBegins, SweeperEnds, Tick, vars
    <2>2. QED
      BY <2>1, <1>1 DEF Present, Counting
  <1>10. QED
    BY <1>2, <1>3, <1>5, <1>6, <1>7, <1>8, <1>9 DEF Next

(* However counts, inserts and sweeps of the shards interleave, max_keys   *)
(* is exceeded by less than the number of requests under way, for any      *)
(* number of keys, shards and requests.                                    *)
THEOREM CapHolds == Spec => []KeysBounded
  <1>1. Init => CapInv
    <2> SUFFICES ASSUME Init, MaxKeys > 0 PROVE CapInv
      BY DEF CapInv
    <2> DEFINE last == [c \in Callers |-> NoKey]
               unseen == [c \in Callers |-> {}]
    <2>1. Present = {} /\ \A c \in Callers : caller[c].pc = "idle"
      BY DEF Init, Present, NoBucket, NoCaller
    <2>2. Cardinality(Present \ LastOf(last, Callers)) < MaxKeys
      <3>1. Present \ LastOf(last, Callers) = {}
        BY <2>1
      <3>2. QED
        BY <3>1, FS_EmptySet
    <2>3. Order({})
      BY DEF Order
    <2>4. Past(last, unseen, {})
      BY <2>1, <2>2, <2>3 DEF Past, Counting
    <2>5. QED
      BY <2>4 DEF CapInv
  <1>2. QED
    BY <1>1, TypeInvariant, CapStep, CapBounds, PTL DEF Spec
=============================================================================
