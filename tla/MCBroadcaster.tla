--------------------------- MODULE MCBroadcaster ---------------------------
(* Small instances of the broadcaster. *)
EXTENDS Broadcaster, TLC

(* Channels, streams and callers are interchangeable. *)
Symmetry == Permutations(Chans) \cup Permutations(Streams) \cup Permutations(Callers)
=============================================================================
