---------------------------- MODULE SendChannel ----------------------------
(***************************************************************************)
(* What the send side of a Session promises to the threads that call       *)
(* Session::Send: an unbounded FIFO channel.  Buffers are numbered in the  *)
(* order in which Send accepted them.  A step of the transport takes a     *)
(* non-empty run of buffers off the front; it transmits all of them, or,   *)
(* when the transport fails, only the first few, and the rest of the run   *)
(* is lost.  Nothing is transmitted twice or out of order, and no buffer   *)
(* that is not at the front is ever lost.                                  *)
(***************************************************************************)
EXTENDS Naturals, Sequences

VARIABLES
  accepted,   \* number of buffers accepted so far; the n-th one is named n
  queue,      \* accepted buffers neither transmitted nor lost, oldest first
  sent        \* buffers handed to the peer, in order of transmission

chanVars == <<accepted, queue, sent>>

Init ==
  /\ accepted = 0
  /\ queue = <<>>
  /\ sent = <<>>

Accept ==
  /\ accepted' = accepted + 1
  /\ queue' = Append(queue, accepted + 1)
  /\ UNCHANGED sent

\* The first n buffers leave the queue, of which the first k are transmitted.
Remove(n, k) ==
  /\ sent' = sent \o SubSeq(queue, 1, k)
  /\ queue' = SubSeq(queue, n + 1, Len(queue))
  /\ UNCHANGED accepted

(* A step of the transport; it fails unless all n buffers go out. *)
Transmit == \E n \in 1..Len(queue) : \E k \in 0..n : Remove(n, k)

Next == Accept \/ Transmit

Spec == Init /\ [][Next]_chanVars
=============================================================================
