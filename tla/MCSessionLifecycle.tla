------------------------- MODULE MCSessionLifecycle -------------------------
(* Instance of SessionLifecycle for TLC: all sets are interchangeable. *)
EXTENDS SessionLifecycle, TLC

Symmetry ==
  Permutations(Threads) \cup Permutations(Sessions) \cup Permutations(Slots)
=============================================================================
