------------------------------ MODULE Webhooks ------------------------------
(***************************************************************************)
(* Webhooks (src/webhook): a sender signs each delivery with every secret  *)
(* it has, a receiver accepts one that any of its own secrets verifies     *)
(* within a tolerance.  Both sides change their secrets while deliveries   *)
(* are on the way, where they can be lost, repeated, delayed and changed.  *)
(*                                                                         *)
(* A signature stands for its secret and the content it signs: no two      *)
(* pairs share one.  Content is put together as the code does; the Ids     *)
(* have no dot, so that its parts can be told apart.                       *)
(***************************************************************************)
EXTENDS Integers, Sequences, FiniteSets, TLC

CONSTANTS
  Written,         \* secrets as configured: [prefix, key]; key "garbled" is not base64
  Ids, Bodies,     \* "" is an id too
  Tolerance,       \* seconds
  Skew,            \* how far the receiver's clock may differ
  MaxTime,         \* bound: seconds
  MaxSends         \* bound: deliveries

VARIABLES
  now, skew,       \* the sender's clock; the receiver's is now + skew
  sending,         \* the sender's secrets, in order
  receiving,       \* the receiver's
  sent,            \* the deliveries: [id, timestamp, body, keys]
  network          \* requests on the way, each with the delivery it was sent as

vars == <<now, skew, sending, receiving, sent, network>>

-----------------------------------------------------------------------------
(* WebhookSecret::from_str: the prefix and base64 are required. *)
from_str == {w.key : w \in {v \in Written : v.prefix = "whsec_" /\ v.key # "garbled"}}

(* build_signed_content *)
build_signed_content(id, timestamp, body) == <<id, ".", ToString(timestamp), ".", body>>

sign(secret, content) == [secret |-> secret, content |-> content]

(* verify: a signature that is not base64 is not right either. *)
verify(secret, content, signature) == signature = sign(secret, content)

(* sign_headers: one entry for each secret, with the version in front. *)
sign_headers(secrets, id, timestamp, body) ==
  [webhook_id |-> id,
   webhook_timestamp |-> timestamp,
   webhook_signature |->
     [i \in DOMAIN secrets |->
        [version |-> "v1", signature |-> sign(secrets[i], build_signed_content(id, timestamp, body))]]]

(* Fault: only the first entry is tried. *)
verify_headers_first(secrets, headers, body) ==
  LET content == build_signed_content(headers.webhook_id, headers.webhook_timestamp, body) IN
  /\ now + skew - headers.webhook_timestamp \in -Tolerance..Tolerance
  /\ headers.webhook_signature[1].version = "v1"
  /\ \E s \in secrets : verify(s, content, headers.webhook_signature[1].signature)

(* verify_headers: any v1 entry with any secret; the distance in time is   *)
(* the same both ways.                                                     *)
verify_headers(secrets, headers, body) ==
  LET content == build_signed_content(headers.webhook_id, headers.webhook_timestamp, body) IN
  /\ now + skew - headers.webhook_timestamp \in -Tolerance..Tolerance
  /\ \E i \in DOMAIN headers.webhook_signature, s \in secrets :
       /\ headers.webhook_signature[i].version = "v1"
       /\ verify(s, content, headers.webhook_signature[i].signature)

-----------------------------------------------------------------------------
Secrets == {s \in [1..2 -> from_str] : s[1] # s[2]} \cup [1..1 -> from_str]

Init ==
  /\ now = 0
  /\ skew \in {-Skew, 0, Skew}
  /\ sending \in Secrets
  /\ receiving \in SUBSET from_str
  /\ sent = {}
  /\ network = {}

(* WebhookSender::send, up to the request: no secret or no id is refused. *)
Send(id, body) ==
  LET delivery == [id |-> id, timestamp |-> now, body |-> body,
                   keys |-> {sending[i] : i \in DOMAIN sending}] IN
  /\ Cardinality(sent) < MaxSends
  /\ sending # <<>>
  /\ id # ""
  /\ sent' = sent \cup {delivery}
  /\ network' = network \cup {[headers |-> sign_headers(sending, id, now, body), body |-> body,
                               delivery |-> delivery]}
  /\ UNCHANGED <<now, skew, sending, receiving>>

(* On the way, where a request may be received any number of times, it is  *)
(* lost, or its body, id or timestamp becomes another, or an entry of      *)
(* another version is put in front.                                        *)
Lose(request) ==
  /\ network' = network \ {request}
  /\ UNCHANGED <<now, skew, sending, receiving, sent>>

Change(request) ==
  LET entries == request.headers.webhook_signature IN
  /\ network' \in
       {(network \ {request}) \cup {r} :
          r \in {[request EXCEPT !.body = b] : b \in Bodies}
                \cup {[request EXCEPT !.headers.webhook_id = i] : i \in Ids}
                \cup {[request EXCEPT !.headers.webhook_timestamp = now]}
                \cup {[request EXCEPT !.headers.webhook_signature =
                         <<[version |-> "v1a", signature |-> entries[1].signature]>> \o entries]}}
  /\ Len(entries) < 3
  /\ UNCHANGED <<now, skew, sending, receiving, sent>>

(* Secrets are replaced, on either side. *)
RotateSender ==
  /\ sending' \in Secrets
  /\ sending' # sending
  /\ UNCHANGED <<now, skew, receiving, sent, network>>

RotateReceiver ==
  /\ receiving' \in SUBSET from_str
  /\ receiving' # receiving
  /\ UNCHANGED <<now, skew, sending, sent, network>>

Tick ==
  /\ now < MaxTime
  /\ now' = now + 1
  /\ UNCHANGED <<skew, sending, receiving, sent, network>>

Next ==
  \/ \E id \in Ids, body \in Bodies : Send(id, body)
  \/ \E request \in network : Lose(request) \/ Change(request)
  \/ RotateSender
  \/ RotateReceiver
  \/ Tick

Spec == Init /\ [][Next]_vars

-----------------------------------------------------------------------------
(* signature.rs:64-137: the receiver accepts a request, whenever it comes, *)
(* if and only if it still has the id, timestamp and body it was sent      *)
(* with, one of the secrets it was signed with is one of the receiver's    *)
(* now, and no more time than the tolerance lies between the two clocks,   *)
(* whichever side changed its secrets first and whatever happened to the   *)
(* request: one that was changed into another delivery is not that one.    *)
AcceptedIffGenuine ==
  \A request \in network :
    LET m == request.delivery IN
    verify_headers(receiving, request.headers, request.body) <=>
      /\ m.id = request.headers.webhook_id
      /\ m.timestamp = request.headers.webhook_timestamp
      /\ m.body = request.body
      /\ m.keys \cap receiving # {}
      /\ now + skew - m.timestamp \in -Tolerance..Tolerance
=============================================================================
