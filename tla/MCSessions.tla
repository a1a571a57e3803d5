---------------------------- MODULE MCSessions -----------------------------
(* Small instances of the sessions. *)
EXTENDS Sessions, TLC

(* Ids and tokens are generated, requests and calls are slots. *)
Symmetry ==
  Permutations(Ids) \cup Permutations(Tokens)
    \cup Permutations(Requests) \cup Permutations(Calls)
=============================================================================
