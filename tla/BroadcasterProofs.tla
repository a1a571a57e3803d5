------------------------- MODULE BroadcasterProofs -------------------------
(***************************************************************************)
(* Theorems about the broadcaster for every set of keys, streams, channels *)
(* and callers and every buffer size.                                      *)
(***************************************************************************)
EXTENDS Broadcaster, FiniteSetTheorems, TLAPS

Inv == TypeOK /\ SubscribedInv

(* The types of what a step of a stream reads. *)
LEMMA StreamType ==
  ASSUME Inv, NEW s \in Streams
  PROVE  /\ stream[s] \in StreamStates
         /\ stream[s].pc # "unborn" =>
              /\ stream[s].key \in Keys /\ stream[s].chan \in Chans
              /\ sent[stream[s].chan] \in Nat
              /\ Oldest(stream[s].chan) \in Nat
  <1>1. stream[s] \in StreamStates
    BY DEF Inv, TypeOK
  <1>2. SUFFICES ASSUME stream[s].pc # "unborn"
                 PROVE  /\ stream[s].key \in Keys /\ stream[s].chan \in Chans
                        /\ sent[stream[s].chan] \in Nat
                        /\ Oldest(stream[s].chan) \in Nat
    BY <1>1
  <1>3. stream[s].key \in Keys /\ stream[s].chan \in Chans
    BY <1>2 DEF Inv, SubscribedInv
  <1>4. sent[stream[s].chan] \in Nat
    BY <1>3 DEF Inv, TypeOK
  <1>5. QED
    BY <1>3, <1>4, BroadcasterAssumption DEF Oldest

LEMMA UnbornType == Unborn \in StreamStates
  BY DEF Unborn, StreamStates, Policies

(* What a lagged receiver leaves behind is a stream of the same channel. *)
LEMMA AfterLagType ==
  ASSUME Inv, NEW s \in Streams, stream[s].pc = "open",
         stream[s].next < Oldest(stream[s].chan)
  PROVE  /\ AfterLag(stream[s]) \in StreamStates
         /\ AfterLag(stream[s]).key = stream[s].key
         /\ AfterLag(stream[s]).chan = stream[s].chan
  <1>1. /\ stream[s] \in StreamStates
        /\ Oldest(stream[s].chan) \in Nat
    BY StreamType
  <1>2. stream[s].reported + (Oldest(stream[s].chan) - stream[s].next) \in Nat
    BY <1>1 DEF StreamStates
  <1>3. stream[s].policy \in {"default", "skip", "end"}
    BY <1>1 DEF StreamStates, Policies
  <1>4. QED
    BY <1>1, <1>2, <1>3 DEF AfterLag, StreamStates

(* RemoveIfDeserted leaves a map of channels. *)
LEMMA RemoveType ==
  ASSUME channels \in [Keys -> Chans \cup {None}], NEW k \in Keys, RemoveIfDeserted(k)
  PROVE  channels' \in [Keys -> Chans \cup {None}]
  BY DEF RemoveIfDeserted

(* Types, and the channels of subscribed streams, are preserved. *)
LEMMA InvStep == Inv /\ [Next]_vars => Inv'
  <1>1. SUFFICES ASSUME Inv, [Next]_vars PROVE Inv'
    OBVIOUS
  <1>2. ASSUME NEW s \in Streams, NEW k \in Keys, Subscribe(s, k) PROVE Inv'
    <2>1. PICK c \in Chans :
            /\ born' = born \cup {c}
            /\ channels' = [channels EXCEPT ![k] = c]
            /\ stream' = [stream EXCEPT ![s] =
                 [Unborn EXCEPT !.pc = "open", !.key = k, !.chan = c,
                                !.from = sent[c], !.next = sent[c]]]
      BY <1>2 DEF Subscribe
    <2>2. [Unborn EXCEPT !.pc = "open", !.key = k, !.chan = c,
                         !.from = sent[c], !.next = sent[c]] \in StreamStates
      BY <1>1, UnbornType DEF StreamStates, Inv, TypeOK
    <2>3. TypeOK'
      BY <1>1, <1>2, <2>1, <2>2 DEF Inv, TypeOK, Subscribe
    <2>4. SubscribedInv'
      BY <1>1, <2>1 DEF Inv, TypeOK, SubscribedInv, Unborn
    <2>5. QED BY <2>3, <2>4 DEF Inv
  <1>3. ASSUME NEW u \in Callers, NEW k \in Keys, Send(u, k) PROVE Inv'
    <2>1. channels[k] \in Chans /\ sent[channels[k]] + 1 \in Nat
      BY <1>1, <1>3 DEF Inv, TypeOK, Send
    <2>2. QED
      BY <1>1, <1>3, <2>1 DEF Inv, TypeOK, SubscribedInv, Send
  <1>4. ASSUME NEW u \in Callers, SendCleansUp(u) PROVE Inv'
    <2>1. failed[u] \in Keys
      BY <1>1, <1>4 DEF Inv, TypeOK, SendCleansUp
    <2>2. channels' \in [Keys -> Chans \cup {None}]
      BY <1>1, <1>4, <2>1, RemoveType DEF Inv, TypeOK, SendCleansUp
    <2>3. QED
      BY <1>1, <1>4, <2>2 DEF Inv, TypeOK, SubscribedInv, SendCleansUp
  <1>5. ASSUME NEW k \in Keys, Remove(k) PROVE Inv'
    BY <1>1, <1>5 DEF Inv, TypeOK, SubscribedInv, Remove
  <1>6. ASSUME NEW s \in Streams, NEW p \in {"end", "skip"}, OnLag(s, p) PROVE Inv'
    <2>1. [stream[s] EXCEPT !.policy = p] \in StreamStates
      BY <1>1 DEF Inv, TypeOK, StreamStates, Policies
    <2>2. TypeOK'
      BY <1>1, <1>6, <2>1 DEF Inv, TypeOK, OnLag
    <2>3. SubscribedInv'
      BY <1>1, <1>6 DEF Inv, TypeOK, SubscribedInv, OnLag, StreamStates
    <2>4. QED BY <2>2, <2>3 DEF Inv
  <1>7. ASSUME NEW s \in Streams, RecvItem(s) PROVE Inv'
    <2>1. [stream[s] EXCEPT !.next = @ + 1, !.seen = @ \cup {stream[s].next}]
            \in StreamStates
      <3>1. stream[s] \in StreamStates
        BY <1>1, StreamType
      <3>2. stream[s].next + 1 \in Nat /\ stream[s].seen \cup {stream[s].next} \in SUBSET Nat
        BY <3>1 DEF StreamStates
      <3>3. QED BY <3>1, <3>2 DEF StreamStates
    <2>2. TypeOK'
      BY <1>1, <1>7, <2>1 DEF Inv, TypeOK, RecvItem
    <2>3. SubscribedInv'
      BY <1>1, <1>7 DEF Inv, TypeOK, SubscribedInv, RecvItem, StreamStates
    <2>4. QED BY <2>2, <2>3 DEF Inv
  <1>8. ASSUME NEW s \in Streams, RecvLagged(s) PROVE Inv'
    <2>1. /\ AfterLag(stream[s]) \in StreamStates
          /\ AfterLag(stream[s]).key = stream[s].key
          /\ AfterLag(stream[s]).chan = stream[s].chan
      BY <1>1, <1>8, AfterLagType DEF RecvLagged
    <2>2. stream' = [stream EXCEPT ![s] = AfterLag(stream[s])]
      BY <1>8 DEF RecvLagged
    <2>3. TypeOK'
      BY <1>1, <1>8, <2>1, <2>2 DEF Inv, TypeOK, RecvLagged
    <2>4. SubscribedInv'
      BY <1>1, <1>8, <2>1, <2>2 DEF Inv, TypeOK, SubscribedInv, RecvLagged
    <2>5. QED BY <2>3, <2>4 DEF Inv
  <1>9. ASSUME NEW s \in Streams, RecvClosed(s) \/ DropReceiver(s) PROVE Inv'
    <2>1. \A p \in {"ended", "dropped"} : [stream[s] EXCEPT !.pc = p] \in StreamStates
      BY <1>1, StreamType DEF StreamStates
    <2>2. TypeOK'
      BY <1>1, <1>9, <2>1 DEF Inv, TypeOK, RecvClosed, DropReceiver
    <2>3. SubscribedInv'
      BY <1>1, <1>9 DEF Inv, TypeOK, SubscribedInv, RecvClosed, DropReceiver, StreamStates
    <2>4. QED BY <2>2, <2>3 DEF Inv
  <1>10. ASSUME NEW s \in Streams, DropStream(s) PROVE Inv'
    <2>1. \A p \in {"dropping", "dropped"} : [stream[s] EXCEPT !.pc = p] \in StreamStates
      BY <1>1, StreamType DEF StreamStates
    <2>2. channels' \in [Keys -> Chans \cup {None}]
      BY <1>1, <1>10, StreamType, RemoveType DEF Inv, TypeOK, DropStream
    <2>3. TypeOK'
      BY <1>1, <1>10, <2>1, <2>2 DEF Inv, TypeOK, DropStream
    <2>4. SubscribedInv'
      BY <1>1, <1>10 DEF Inv, TypeOK, SubscribedInv, DropStream, StreamStates
    <2>5. QED BY <2>3, <2>4 DEF Inv
  <1>11. CASE UNCHANGED vars
    BY <1>1, <1>11 DEF Inv, TypeOK, SubscribedInv, vars
  <1>12. QED
    BY <1>1, <1>2, <1>3, <1>4, <1>5, <1>6, <1>7, <1>8, <1>9, <1>10, <1>11
    DEF Next, Recv

LEMMA InvInit == Init => Inv
  <1>1. SUFFICES ASSUME Init PROVE Inv
    OBVIOUS
  <1>2. TypeOK
    BY <1>1, UnbornType DEF Init, TypeOK
  <1>3. SubscribedInv
    BY <1>1 DEF Init, SubscribedInv, Unborn
  <1>4. QED BY <1>2, <1>3 DEF Inv

(* The state of the broadcaster is always of its type. *)
THEOREM TypeCorrect == Spec => []TypeOK
  <1>1. Inv => TypeOK
    BY DEF Inv
  <1>2. QED
    BY <1>1, InvInit, InvStep, PTL DEF Spec

-----------------------------------------------------------------------------
(* The conditional removal spares the channel of an open stream. *)
LEMMA RemoveSpares ==
  ASSUME Inv, NEW s \in Streams, stream[s].pc = "open", ~Closed(s),
         NEW k \in Keys, RemoveIfDeserted(k)
  PROVE  channels'[stream[s].key] = stream[s].chan
  <1>1. stream[s].key \in Keys /\ stream[s].chan \in Chans
    BY StreamType
  <1>2. channels[stream[s].key] = stream[s].chan
    BY DEF Closed
  <1>3. s \in Receivers(stream[s].chan)
    BY DEF Receivers
  <1>4. CASE k = stream[s].key
    <2>1. ~Deserted(channels[k])
      BY <1>2, <1>3, <1>4 DEF Deserted
    <2>2. channels' = channels
      BY <2>1 DEF RemoveIfDeserted
    <2>3. QED BY <1>2, <2>2
  <1>5. CASE k # stream[s].key
    BY <1>1, <1>2, <1>5 DEF RemoveIfDeserted, Inv, TypeOK
  <1>6. QED BY <1>4, <1>5

(* A stream that stays open keeps its key and its channel. *)
LEMMA OpenKeeps ==
  ASSUME Inv, [Next]_vars, NEW s \in Streams,
         stream[s].pc = "open", stream'[s].pc = "open"
  PROVE  stream'[s].key = stream[s].key /\ stream'[s].chan = stream[s].chan
  <1>1. stream[s] \in StreamStates /\ stream \in [Streams -> StreamStates]
    BY DEF Inv, TypeOK
  <1>2. ASSUME NEW t \in Streams, NEW k \in Keys, Subscribe(t, k)
        PROVE  stream'[s] = stream[s]
    BY <1>1, <1>2 DEF Subscribe
  <1>3. ASSUME NEW t \in Streams, RecvLagged(t)
        PROVE  stream'[s].key = stream[s].key /\ stream'[s].chan = stream[s].chan
    <2>1. /\ AfterLag(stream[t]).key = stream[t].key
          /\ AfterLag(stream[t]).chan = stream[t].chan
      BY <1>3, AfterLagType DEF RecvLagged
    <2>2. QED BY <1>1, <1>3, <2>1 DEF RecvLagged
  <1>4. ASSUME NEW t \in Streams,
               \/ \E p \in {"end", "skip"} : OnLag(t, p)
               \/ RecvItem(t) \/ RecvClosed(t) \/ DropStream(t) \/ DropReceiver(t)
        PROVE  stream'[s].key = stream[s].key /\ stream'[s].chan = stream[s].chan
    BY <1>1, <1>4
    DEF OnLag, RecvItem, RecvClosed, DropStream, DropReceiver, StreamStates
  <1>5. QED
    BY <1>2, <1>3, <1>4
    DEF Next, vars, Remove, Send, SendCleansUp, Recv

(* For any number of concurrent subscribers and senders only remove(key)   *)
(* cuts a stream off from its key.                                         *)
THEOREM OnlyRemoveCutsOff == Spec => OnlyRemoveDisconnects
  <1>1. ASSUME Inv, [Next]_vars, NEW s \in Streams,
               stream[s].pc = "open", ~Closed(s),
               stream'[s].pc = "open", Closed(s)'
        PROVE  Remove(stream[s].key)
    <2>1. stream'[s].key = stream[s].key /\ stream'[s].chan = stream[s].chan
      BY <1>1, OpenKeeps
    <2>2. /\ channels'[stream[s].key] # stream[s].chan
          /\ channels[stream[s].key] = stream[s].chan
      BY <1>1, <2>1 DEF Closed
    <2>3. stream[s].key \in Keys /\ stream[s].chan \in Chans
      BY <1>1, StreamType
    <2>4. ASSUME NEW k \in Keys, RemoveIfDeserted(k) PROVE FALSE
      BY <1>1, <2>2, <2>4, RemoveSpares
    <2>5. ASSUME NEW k \in Keys, Remove(k) PROVE k = stream[s].key
      BY <1>1, <2>2, <2>3, <2>5 DEF Remove, Inv, TypeOK
    <2>6. ASSUME NEW t \in Streams, NEW k \in Keys, Subscribe(t, k) PROVE FALSE
      <3>1. PICK c \in Chans :
              /\ IF channels[k] = None THEN c \notin born ELSE c = channels[k]
              /\ channels' = [channels EXCEPT ![k] = c]
        BY <2>6 DEF Subscribe
      <3>2. QED
        BY <1>1, <2>2, <2>3, <3>1, BroadcasterAssumption DEF Inv, TypeOK
    <2>7. ASSUME NEW u \in Callers, SendCleansUp(u) PROVE FALSE
      BY <1>1, <2>4, <2>7 DEF SendCleansUp, Inv, TypeOK
    <2>8. ASSUME NEW t \in Streams, DropStream(t) PROVE FALSE
      BY <1>1, <2>4, <2>8, StreamType DEF DropStream
    <2>9. CASE UNCHANGED channels
      BY <2>2, <2>9
    <2>10. QED
      BY <1>1, <2>5, <2>6, <2>7, <2>8, <2>9
      DEF Next, vars, Send, Recv, RecvItem, RecvLagged, RecvClosed, OnLag, DropReceiver
  <1>2. Inv /\ [Next]_vars =>
          [\A s \in Streams :
             /\ stream[s].pc = "open" /\ ~Closed(s)
             /\ stream'[s].pc = "open" /\ Closed(s)'
             => Remove(stream[s].key)]_vars
    BY <1>1
  <1>3. QED
    BY <1>2, InvInit, InvStep, PTL DEF Spec, OnlyRemoveDisconnects

-----------------------------------------------------------------------------
(* What a stream missed of the events up to its receiver's position. *)
Missing(st) == (st.from .. (st.next - 1)) \ st.seen

Accounted(st) ==
  /\ st.from <= st.next
  /\ st.seen \subseteq st.from .. (st.next - 1)
  /\ st.policy # "skip" => Cardinality(Missing(st)) = st.reported

LEMMA GapForm == SeenInv /\ NoSilentGap <=> \A s \in Streams : Accounted(stream[s])
  BY DEF SeenInv, NoSilentGap, Accounted, Missing

LEMMA MissingFinite ==
  ASSUME NEW st \in StreamStates
  PROVE  IsFiniteSet(Missing(st)) /\ Cardinality(Missing(st)) \in Nat
  <1>1. IsFiniteSet(st.from .. (st.next - 1))
    BY FS_Interval DEF StreamStates
  <1>2. QED
    BY <1>1, FS_Difference, FS_CardinalityType DEF Missing

(* A new stream has missed nothing. *)
LEMMA FreshAccounted ==
  ASSUME NEW st \in StreamStates, st.from = st.next, st.seen = {}, st.reported = 0
  PROVE  Accounted(st)
  <1>1. Missing(st) = {} /\ st.from <= st.next
    BY DEF Missing, StreamStates
  <1>2. QED
    BY <1>1, FS_EmptySet DEF Accounted

(* An item received leaves no gap. *)
LEMMA ItemAccounted ==
  ASSUME NEW st \in StreamStates, Accounted(st), NEW new \in StreamStates,
         new.from = st.from, new.next = st.next + 1,
         new.seen = st.seen \cup {st.next},
         new.policy = st.policy, new.reported = st.reported
  PROVE  Accounted(new)
  <1>1. st.from \in Nat /\ st.next \in Nat /\ st.from <= st.next
    BY DEF StreamStates, Accounted
  <1>2. st.seen \subseteq st.from .. (st.next - 1)
    BY DEF Accounted
  <1>3. new.seen \subseteq new.from .. (new.next - 1) /\ new.from <= new.next
    BY <1>1, <1>2
  <1>4. Missing(new) = Missing(st)
    BY <1>1, <1>2 DEF Missing
  <1>5. QED
    BY <1>3, <1>4 DEF Accounted

(* A lag adds what the receiver jumps over, which the default reports. *)
LEMMA LagAccounted ==
  ASSUME NEW st \in StreamStates, Accounted(st), NEW new \in StreamStates,
         st.next < new.next, new.from = st.from, new.seen = st.seen,
         new.policy = st.policy,
         st.policy # "skip" => new.reported = st.reported + (new.next - st.next)
  PROVE  Accounted(new)
  <1>1. /\ st.from \in Nat /\ st.next \in Nat /\ new.next \in Nat
        /\ st.reported \in Nat /\ st.from <= st.next
    BY DEF StreamStates, Accounted
  <1>2. st.seen \subseteq st.from .. (st.next - 1)
    BY DEF Accounted
  <1>3. new.seen \subseteq new.from .. (new.next - 1) /\ new.from <= new.next
    BY <1>1, <1>2
  <1>4. ASSUME st.policy # "skip"
        PROVE  Cardinality(Missing(new)) = new.reported
    <2> DEFINE jump == st.next .. (new.next - 1)
    <2>1. Missing(new) = Missing(st) \cup jump
      BY <1>1, <1>2 DEF Missing
    <2>2. Missing(st) \cap jump = {}
      BY <1>1 DEF Missing
    <2>3. IsFiniteSet(jump) /\ Cardinality(jump) = new.next - st.next
      <3>1. new.next - 1 \in Int /\ st.next \in Int /\ ~(st.next > new.next - 1)
        BY <1>1
      <3>2. /\ IsFiniteSet(jump)
            /\ Cardinality(jump) = IF st.next > new.next - 1 THEN 0
                                   ELSE (new.next - 1) - st.next + 1
        BY <3>1, FS_Interval
      <3>3. QED BY <1>1, <3>1, <3>2
    <2>4. IsFiniteSet(Missing(st)) /\ Cardinality(Missing(st)) = st.reported
      BY <1>4, MissingFinite DEF Accounted
    <2>5. Cardinality(Missing(st) \cap jump) = 0
      BY <2>2, FS_EmptySet
    <2> HIDE DEF jump
    <2>6. Cardinality(Missing(new)) =
            Cardinality(Missing(st)) + Cardinality(jump) - Cardinality(Missing(st) \cap jump)
      BY <2>1, <2>3, <2>4, FS_Union
    <2>7. QED
      BY <1>1, <1>4, <2>3, <2>4, <2>5, <2>6
  <1>5. QED
    BY <1>3, <1>4 DEF Accounted

(* A step that leaves the receiver and its history alone. *)
LEMMA SameAccounted ==
  ASSUME NEW st, Accounted(st), NEW new,
         new.from = st.from, new.next = st.next, new.seen = st.seen,
         new.reported = st.reported, st.policy = "skip" => new.policy = "skip"
  PROVE  Accounted(new)
  BY DEF Accounted, Missing

LEMMA AccountedStep ==
  ASSUME Inv, Inv', [Next]_vars, NEW s \in Streams, Accounted(stream[s])
  PROVE  Accounted(stream'[s])
  <1>1. /\ stream[s] \in StreamStates /\ stream'[s] \in StreamStates
        /\ stream \in [Streams -> StreamStates]
    BY DEF Inv, TypeOK
  <1>2. CASE stream'[s] = stream[s]
    BY <1>2
  <1>3. ASSUME NEW k \in Keys, Subscribe(s, k) PROVE Accounted(stream'[s])
    <2>1. stream'[s].from = stream'[s].next /\ stream'[s].seen = {}
          /\ stream'[s].reported = 0
      BY <1>1, <1>3 DEF Subscribe, Unborn
    <2>2. QED BY <1>1, <2>1, FreshAccounted
  <1>4. ASSUME NEW p \in {"end", "skip"}, OnLag(s, p) PROVE Accounted(stream'[s])
    <2>1. /\ stream'[s].from = stream[s].from /\ stream'[s].next = stream[s].next
          /\ stream'[s].seen = stream[s].seen /\ stream'[s].reported = stream[s].reported
          /\ stream[s].policy # "skip"
      BY <1>1, <1>4 DEF OnLag, StreamStates
    <2>2. QED BY <2>1, SameAccounted
  <1>5. ASSUME RecvItem(s) PROVE Accounted(stream'[s])
    <2>1. /\ stream'[s].from = stream[s].from /\ stream'[s].next = stream[s].next + 1
          /\ stream'[s].seen = stream[s].seen \cup {stream[s].next}
          /\ stream'[s].policy = stream[s].policy
          /\ stream'[s].reported = stream[s].reported
      BY <1>1, <1>5 DEF RecvItem, StreamStates
    <2>2. QED BY <1>1, <2>1, ItemAccounted
  <1>6. ASSUME RecvLagged(s) PROVE Accounted(stream'[s])
    <2>1. stream'[s] = AfterLag(stream[s])
      BY <1>1, <1>6 DEF RecvLagged
    <2>2. stream[s].policy \in {"default", "skip", "end"}
      BY <1>1 DEF StreamStates, Policies
    <2>3. CASE stream[s].policy = "end"
      <3>1. stream'[s] = [stream[s] EXCEPT !.pc = "ended"]
        BY <2>1, <2>3 DEF AfterLag
      <3>2. QED BY <1>1, <3>1, SameAccounted DEF StreamStates
    <2>4. CASE stream[s].policy # "end"
      <3>1. /\ stream'[s].from = stream[s].from /\ stream'[s].seen = stream[s].seen
            /\ stream'[s].policy = stream[s].policy
            /\ stream'[s].next = Oldest(stream[s].chan)
            /\ stream[s].policy # "skip" => stream'[s].reported =
                 stream[s].reported + (Oldest(stream[s].chan) - stream[s].next)
        BY <1>1, <2>1, <2>2, <2>4 DEF AfterLag, StreamStates
      <3>2. stream[s].next < stream'[s].next
        BY <1>6, <3>1 DEF RecvLagged
      <3>3. QED BY <1>1, <3>1, <3>2, LagAccounted
    <2>5. QED BY <2>3, <2>4
  <1>7. ASSUME RecvClosed(s) \/ DropStream(s) \/ DropReceiver(s)
        PROVE  Accounted(stream'[s])
    <2>1. /\ stream'[s].from = stream[s].from /\ stream'[s].next = stream[s].next
          /\ stream'[s].seen = stream[s].seen /\ stream'[s].reported = stream[s].reported
          /\ stream'[s].policy = stream[s].policy
      BY <1>1, <1>7 DEF RecvClosed, DropStream, DropReceiver, StreamStates
    <2>2. QED BY <2>1, SameAccounted
  <1>8. ASSUME NEW t \in Streams, t # s,
               \/ \E k \in Keys : Subscribe(t, k)
               \/ \E p \in {"end", "skip"} : OnLag(t, p)
               \/ Recv(t) \/ DropStream(t) \/ DropReceiver(t)
        PROVE  stream'[s] = stream[s]
    BY <1>1, <1>8
    DEF Subscribe, OnLag, Recv, RecvItem, RecvLagged, RecvClosed, DropStream, DropReceiver
  <1>9. QED
    BY <1>2, <1>3, <1>4, <1>5, <1>6, <1>7, <1>8
    DEF Next, vars, Recv, Remove, Send, SendCleansUp

(* Every event a consumer did not get was reported to it, or skipped at    *)
(* its own wish, for every buffer size and any speed of the two sides.     *)
THEOREM NothingLostSilently == Spec => []NoSilentGap
  <1> DEFINE J == Inv /\ SeenInv /\ NoSilentGap
  <1>1. Init => J
    <2>1. SUFFICES ASSUME Init PROVE J
      OBVIOUS
    <2>2. ASSUME NEW s \in Streams PROVE Accounted(stream[s])
      <3>1. stream[s] = Unborn /\ Unborn \in StreamStates
        BY <2>1, UnbornType DEF Init
      <3>2. Accounted(Unborn)
        BY UnbornType, FreshAccounted DEF Unborn
      <3>3. QED BY <3>1, <3>2
    <2>3. QED BY <2>1, <2>2, InvInit, GapForm
  <1>2. J /\ [Next]_vars => J'
    <2>1. SUFFICES ASSUME J, [Next]_vars PROVE J'
      OBVIOUS
    <2>2. Inv'
      BY <2>1, InvStep
    <2>3. \A s \in Streams : Accounted(stream'[s])
      BY <2>1, <2>2, GapForm, AccountedStep
    <2>4. (SeenInv /\ NoSilentGap)'
      BY <2>3 DEF SeenInv, NoSilentGap, Accounted, Missing
    <2>5. QED BY <2>2, <2>4
  <1>3. J => NoSilentGap
    OBVIOUS
  <1>4. QED
    BY <1>1, <1>2, <1>3, PTL DEF Spec
=============================================================================
