--------------------------- MODULE MCChatDelivery ---------------------------
(* Instance of ChatDelivery for TLC: the workers are interchangeable; the  *)
(* members are numbers in an order.                                        *)
EXTENDS ChatDelivery, TLC

Symmetry == Permutations(Threads)
=============================================================================
