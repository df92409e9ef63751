---------------------------- MODULE MCGameRoom ----------------------------
(* Instance of GameRoom for TLC: sessions are interchangeable. *)
EXTENDS GameRoom, TLC

Symmetry == Permutations(Sessions)
=============================================================================
