---------------------------- MODULE Broadcaster ----------------------------
(***************************************************************************)
(* Keyed fan-out to server-sent-event streams (src/sse/broadcaster.rs).    *)
(* A map under an RwLock holds the sender of one tokio broadcast channel   *)
(* per key; a BroadcastStream holds a receiver and a clean-up closure.     *)
(* Every critical section of the lock is one step, and what the code does  *)
(* between two of them (send that finds no receiver, drop of a stream)     *)
(* is several.  An event is its position in the channel's sequence.        *)
(***************************************************************************)
EXTENDS Integers, FiniteSets

CONSTANTS
  Keys,
  Streams,         \* the streams subscribe returns, each used once
  Chans,           \* the broadcast channels, each used once
  Callers,         \* the tasks that call send
  Capacity,        \* slots of a channel (the buffer, rounded up by tokio)
  None,            \* no channel, no key
  MaxSent          \* bound: events sent to a channel

ASSUME BroadcasterAssumption ==
  /\ None \notin Chans /\ None \notin Keys
  /\ Capacity \in Nat \ {0}
  /\ MaxSent \in Nat

VARIABLES
  channels,        \* BroadcasterInner::channels: the mapped channel of a key
  born,            \* the channels created so far
  sent,            \* per channel: how many events went into it
  stream,          \* per stream: its consumer's and its receiver's state
  failed           \* per caller: the key whose send found no receiver

vars == <<channels, born, sent, stream, failed>>

Policies == {"default", "end", "skip"}

StreamStates ==
  [pc : {"unborn", "open", "ended", "dropping", "dropped"},
   key : Keys \cup {None}, chan : Chans \cup {None}, policy : Policies,
   from : Nat,              \* the channel's position at subscribe
   next : Nat,              \* the receiver's position
   seen : SUBSET Nat,       \* the events the consumer got
   reported : Nat]          \* the events it was told it missed

Unborn ==
  [pc |-> "unborn", key |-> None, chan |-> None, policy |-> "default",
   from |-> 0, next |-> 0, seen |-> {}, reported |-> 0]

Init ==
  /\ channels = [k \in Keys |-> None]
  /\ born = {}
  /\ sent = [c \in Chans |-> 0]
  /\ stream = [s \in Streams |-> Unborn]
  /\ failed = [u \in Callers |-> None]

(* The streams that hold a receiver of c: also one being dropped, since    *)
(* Drop::drop runs before the fields of the stream are dropped.            *)
Receivers(c) ==
  {s \in Streams : stream[s].chan = c /\ stream[s].pc \in {"open", "dropping"}}

(* receiver_count() == 0 *)
Deserted(c) == Receivers(c) = {}

(* The sender lives in the map only: off the map, the channel is closed. *)
Closed(s) == channels[stream[s].key] # stream[s].chan

-----------------------------------------------------------------------------
(* Calls on the Broadcaster. *)

Subscribe(s, k) ==
  /\ stream[s].pc = "unborn"
  /\ \E c \in Chans :
       /\ IF channels[k] = None THEN c \notin born ELSE c = channels[k]
       /\ born' = born \cup {c}
       /\ channels' = [channels EXCEPT ![k] = c]
       /\ stream' = [stream EXCEPT ![s] =
            [Unborn EXCEPT !.pc = "open", !.key = k, !.chan = c,
                           !.from = sent[c], !.next = sent[c]]]
  /\ UNCHANGED <<sent, failed>>

(* send under the read lock: tokio stores the event if anyone listens. *)
Send(u, k) ==
  /\ failed[u] = None /\ channels[k] # None
  /\ sent[channels[k]] < MaxSent
  /\ IF Deserted(channels[k])
     THEN failed' = [failed EXCEPT ![u] = k] /\ UNCHANGED sent
     ELSE sent' = [sent EXCEPT ![channels[k]] = @ + 1] /\ UNCHANGED failed
  /\ UNCHANGED <<channels, born, stream>>

(* Faulty: the receivers are not counted again under the write lock. *)
RemoveAnyway(k) == channels' = [channels EXCEPT ![k] = None]

(* The removal that send and the clean-up closure share: the write lock is *)
(* taken and the receivers are counted again.                              *)
RemoveIfDeserted(k) ==
  channels' = IF channels[k] # None /\ Deserted(channels[k])
              THEN [channels EXCEPT ![k] = None] ELSE channels

(* send after the read lock is released. *)
SendCleansUp(u) ==
  /\ failed[u] # None
  /\ RemoveIfDeserted(failed[u])
  /\ failed' = [failed EXCEPT ![u] = None]
  /\ UNCHANGED <<born, sent, stream>>

Remove(k) ==
  /\ channels[k] # None
  /\ channels' = [channels EXCEPT ![k] = None]
  /\ UNCHANGED <<born, sent, stream, failed>>

-----------------------------------------------------------------------------
(* A stream and its consumer. *)

(* A second call changes nothing: the first policy lets no lag through. *)
OnLag(s, policy) ==
  /\ stream[s].pc = "open" /\ stream[s].policy = "default"
  /\ stream' = [stream EXCEPT ![s].policy = policy]
  /\ UNCHANGED <<channels, born, sent, failed>>

(* The oldest event the channel still holds. *)
Oldest(c) == IF sent[c] > Capacity THEN sent[c] - Capacity ELSE 0

RecvItem(s) ==
  /\ stream[s].pc = "open"
  /\ Oldest(stream[s].chan) <= stream[s].next
  /\ stream[s].next < sent[stream[s].chan]
  /\ stream' = [stream EXCEPT ![s].next = @ + 1,
                              ![s].seen = @ \cup {stream[s].next}]
  /\ UNCHANGED <<channels, born, sent, failed>>

(* Faulty: LagPolicy::End goes on as Skip does; and the count is negated. *)
AfterLagGoesOn(st) ==
  IF st.policy = "default"
  THEN [st EXCEPT !.next = Oldest(st.chan), !.reported = @ + (Oldest(st.chan) - st.next)]
  ELSE [st EXCEPT !.next = Oldest(st.chan)]

AfterLagNegated(st) ==
  [st EXCEPT !.next = Oldest(st.chan), !.reported = @ + (st.next - Oldest(st.chan))]

(* A lagged receiver jumps to the oldest event.  The consumer gets an      *)
(* error, or under LagPolicy::Skip nothing, or under End the end.          *)
AfterLag(st) ==
  LET oldest == Oldest(st.chan) IN
  CASE st.policy = "default" ->
         [st EXCEPT !.next = oldest, !.reported = @ + (oldest - st.next)]
    [] st.policy = "skip" -> [st EXCEPT !.next = oldest]
    [] st.policy = "end" -> [st EXCEPT !.pc = "ended"]

RecvLagged(s) ==
  /\ stream[s].pc = "open"
  /\ stream[s].next < Oldest(stream[s].chan)
  /\ stream' = [stream EXCEPT ![s] = AfterLag(@)]
  /\ UNCHANGED <<channels, born, sent, failed>>

(* Faulty: a closed channel is polled again. *)
RecvClosedRetries(s) ==
  /\ stream[s].pc = "open" /\ Closed(s)
  /\ stream[s].next = sent[stream[s].chan]
  /\ UNCHANGED vars

(* A closed channel is drained first; then unfold ends, and the receiver   *)
(* it owned is gone.                                                       *)
RecvClosed(s) ==
  /\ stream[s].pc = "open" /\ Closed(s)
  /\ stream[s].next = sent[stream[s].chan]
  /\ stream' = [stream EXCEPT ![s].pc = "ended"]
  /\ UNCHANGED <<channels, born, sent, failed>>

(* Drop::drop: the clean-up closure runs while `inner` is still there. *)
DropStream(s) ==
  /\ stream[s].pc \in {"open", "ended"}
  /\ RemoveIfDeserted(stream[s].key)
  /\ stream' = [stream EXCEPT ![s].pc = IF @ = "open" THEN "dropping" ELSE "dropped"]
  /\ UNCHANGED <<born, sent, failed>>

(* The fields follow: the receiver goes, without the lock. *)
DropReceiver(s) ==
  /\ stream[s].pc = "dropping"
  /\ stream' = [stream EXCEPT ![s].pc = "dropped"]
  /\ UNCHANGED <<channels, born, sent, failed>>

Recv(s) == RecvItem(s) \/ RecvLagged(s) \/ RecvClosed(s)

Next ==
  \/ \E k \in Keys : \/ Remove(k)
                     \/ \E s \in Streams : Subscribe(s, k)
                     \/ \E u \in Callers : Send(u, k)
  \/ \E u \in Callers : SendCleansUp(u)
  \/ \E s \in Streams : \/ \E p \in {"end", "skip"} : OnLag(s, p)
                        \/ Recv(s) \/ DropStream(s) \/ DropReceiver(s)

Spec == Init /\ [][Next]_vars

(* The server polls the body of a response for as long as it keeps it. *)
FairSpec == Spec /\ \A s \in Streams : WF_vars(Recv(s))

-----------------------------------------------------------------------------
(* The map, the channels and the streams hold values of their types. *)
TypeOK ==
  /\ channels \in [Keys -> Chans \cup {None}]
  /\ born \subseteq Chans
  /\ sent \in [Chans -> Nat]
  /\ stream \in [Streams -> StreamStates]
  /\ failed \in [Callers -> Keys \cup {None}]

(* Only remove(key) cuts off a stream: neither the clean-up of a stale     *)
(* stream nor that of a send takes a channel off the map that a stream     *)
(* subscribed to in the meantime (the second receiver_count() check, under *)
(* the write lock).                                                        *)
OnlyRemoveDisconnects ==
  [][\A s \in Streams :
       /\ stream[s].pc = "open" /\ ~Closed(s)
       /\ stream'[s].pc = "open" /\ Closed(s)'
       => Remove(stream[s].key)]_vars

(* Why it can be told from the counts: a subscribed stream has a channel. *)
SubscribedInv ==
  \A s \in Streams : stream[s].pc # "unborn" =>
    stream[s].key \in Keys /\ stream[s].chan \in Chans

(* A stream misses no event silently unless LagPolicy::Skip was asked for: *)
(* what its consumer did not get of the events up to the receiver's        *)
(* position is what lag errors told it, and under LagPolicy::End nothing   *)
(* at all is missing (unfold_default and apply_lag_policy).                *)
NoSilentGap ==
  \A s \in Streams : stream[s].policy # "skip" =>
    Cardinality((stream[s].from .. (stream[s].next - 1)) \ stream[s].seen)
      = stream[s].reported

(* Why: what the consumer got lies between its subscription and its        *)
(* receiver's position.                                                    *)
SeenInv ==
  \A s \in Streams :
    /\ stream[s].from <= stream[s].next
    /\ stream[s].seen \subseteq stream[s].from .. (stream[s].next - 1)

(* A stream whose channel was removed drains what is buffered and ends: no *)
(* consumer waits for ever on a channel no send can reach any more.        *)
DisconnectedStreamsEnd ==
  \A s \in Streams : stream[s].pc = "open" /\ Closed(s) ~> stream[s].pc # "open"

(* "Channels are auto-cleaned when the last subscriber's stream is         *)
(* dropped": a mapped channel has a stream that is not dropped.            *)
LastDropCleansUp ==
  \A k \in Keys : channels[k] # None =>
    \E s \in Streams : stream[s].chan = channels[k] /\ stream[s].pc # "dropped"
=============================================================================
