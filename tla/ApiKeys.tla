------------------------------- MODULE ApiKeys ------------------------------
(***************************************************************************)
(* API keys (src/auth/apikey).  ApiKeyStore reads a key's record in one    *)
(* statement and writes single columns of it in others; verify spawns a    *)
(* task that records the use later.                                        *)
(***************************************************************************)
EXTENDS Integers, FiniteSets

CONSTANTS
  Keys,            \* the ids of keys
  Callers,         \* calls of the store under way at a time
  Threshold,       \* touch_threshold_secs
  MaxTime,         \* bound: the clock
  None             \* no expiry, no use, not revoked

VARIABLES
  now,
  records,         \* the table api_keys
  caller,          \* the calls under way
  touches          \* keys whose use a spawned task is about to record

vars == <<now, records, caller, touches>>

Times == 0 .. MaxTime

ApiKeyRecord ==
  [in : BOOLEAN, expires_at : Times \cup {None}, last_used_at : Times \cup {None},
   revoked_at : Times \cup {None}]

NoRecord == [in |-> FALSE, expires_at |-> None, last_used_at |-> None, revoked_at |-> None]

(* A call: the record it read, and what a verify answered last. *)
Caller ==
  [pc : {"idle", "verify", "revoke", "refresh"}, key : Keys \cup {None},
   record : ApiKeyRecord, secret : BOOLEAN, expires_at : Times \cup {None},
   dead : BOOLEAN,                     \* whether the key was dead when it began
   ok : BOOLEAN]

NoCaller ==
  [pc |-> "idle", key |-> None, record |-> NoRecord, secret |-> FALSE,
   expires_at |-> None, dead |-> FALSE, ok |-> FALSE]

Init ==
  /\ now = 0
  /\ records = [k \in Keys |-> NoRecord]
  /\ caller = [c \in Callers |-> NoCaller]
  /\ touches = {}

expires_at_passed(r) == r.expires_at # None /\ r.expires_at <= now

Unusable(r) == ~r.in \/ r.revoked_at # None \/ expires_at_passed(r)

(* create: a tenant, a name and an expiry that parses; the key is new. *)
Create(k, expires_at) ==
  /\ ~records[k].in
  /\ records' = [records EXCEPT ![k] = [NoRecord EXCEPT !.in = TRUE, !.expires_at = expires_at]]
  /\ UNCHANGED <<now, caller, touches>>

(* verify: lookup by the id in the token, then the decision.  A token that *)
(* does not parse is refused without a lookup.                             *)
Lookup(c, k, secret) ==
  /\ caller[c].pc = "idle"
  /\ caller' = [caller EXCEPT ![c] =
       [NoCaller EXCEPT !.pc = "verify", !.key = k, !.record = records[k],
                        !.secret = secret, !.dead = Unusable(records[k])]]
  /\ UNCHANGED <<now, records, touches>>

(* maybe_touch: the first use, or the last one long enough ago. *)
should_touch(r) == r.last_used_at = None \/ now - r.last_used_at >= Threshold

Verified(c) == caller[c].secret /\ ~Unusable(caller[c].record)

Verify(c) ==
  /\ caller[c].pc = "verify"
  /\ caller' = [caller EXCEPT ![c].pc = "idle", ![c].ok = Verified(c)]
  /\ touches' = IF Verified(c) /\ should_touch(caller[c].record)
                THEN touches \cup {caller[c].key} ELSE touches
  /\ UNCHANGED <<now, records>>

(* Fault: the record is written back the way verify had read it. *)
TouchWhole(k) ==
  /\ records' = [records EXCEPT ![k].last_used_at = now, ![k].revoked_at = None]
  /\ touches' = touches \ {k}
  /\ UNCHANGED <<now, caller>>

(* update_last_used, in the spawned task; a failure is only logged. *)
Touch(k) ==
  /\ \/ records' = [records EXCEPT ![k].last_used_at = now]
     \/ UNCHANGED records
  /\ touches' = touches \ {k}
  /\ UNCHANGED <<now, caller>>

(* revoke and refresh: the key is looked up, then one column is written. *)
Begin(c, k, pc, expires_at) ==
  /\ caller[c].pc = "idle" /\ records[k].in
  /\ caller' = [caller EXCEPT ![c] =
       [NoCaller EXCEPT !.pc = pc, !.key = k, !.expires_at = expires_at]]
  /\ UNCHANGED <<now, records, touches>>

Revoke(c) ==
  /\ caller[c].pc = "revoke"
  /\ records' = [records EXCEPT ![caller[c].key].revoked_at = now]
  /\ caller' = [caller EXCEPT ![c] = NoCaller]
  /\ UNCHANGED <<now, touches>>

(* Also of a key that is revoked meanwhile. *)
Refresh(c) ==
  /\ caller[c].pc = "refresh"
  /\ records' = [records EXCEPT ![caller[c].key].expires_at = caller[c].expires_at]
  /\ caller' = [caller EXCEPT ![c] = NoCaller]
  /\ UNCHANGED <<now, touches>>

Tick ==
  /\ now < MaxTime
  /\ now' = now + 1
  /\ UNCHANGED <<records, caller, touches>>

Next ==
  \/ \E k \in Keys, e \in Times \cup {None} : Create(k, e)
  \/ \E c \in Callers :
       \/ \E k \in Keys :
            \/ \E secret \in BOOLEAN : Lookup(c, k, secret)
            \/ Begin(c, k, "revoke", None)
            \/ \E e \in Times \cup {None} : Begin(c, k, "refresh", e)
       \/ Verify(c) \/ Revoke(c) \/ Refresh(c)
  \/ \E k \in touches : Touch(k)
  \/ Tick

Spec == Init /\ [][Next]_vars

-----------------------------------------------------------------------------
TypeOK ==
  /\ records \in [Keys -> ApiKeyRecord]
  /\ caller \in [Callers -> Caller]

(* Once a key is revoked it stays so, and no verify that began afterwards  *)
(* accepts it: neither a refresh that was under way nor the late record of *)
(* a use brings it back.                                                   *)
RevokedStaysRevoked ==
  [][/\ \A k \in Keys : records[k].revoked_at # None => records'[k].revoked_at # None
     /\ \A c \in Callers : caller[c].dead => ~caller'[c].ok \/ ~caller'[c].dead]_vars
=============================================================================
