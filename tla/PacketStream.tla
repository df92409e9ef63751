---------------------------- MODULE PacketStream ----------------------------
(***************************************************************************)
(* What the receive path of a PacketSession promises to OnRecvPacket: TCP  *)
(* delivers the peer's bytes in pieces of any size, and the handler is     *)
(* called once for every packet the peer wrote, in the order written, with *)
(* exactly the bytes of that packet, once all of them have arrived.        *)
(*                                                                         *)
(* A byte of the stream is named by its offset.  boundaries holds the      *)
(* offsets at which a packet starts, and the end of the stream.            *)
(***************************************************************************)
EXTENDS Naturals, Sequences

CONSTANT StreamSize   \* length of the stream

VARIABLES
  boundaries,   \* where packets start and end
  arrived,      \* number of bytes received
  next,         \* offset of the first packet not handled yet
  handled       \* packets handled, each the sequence of its bytes

streamVars == <<boundaries, arrived, next, handled>>

\* The bytes from offset o up to o + s are one packet.
Packet(o, s) ==
  /\ o \in boundaries /\ o + s \in boundaries
  /\ \A b \in boundaries : ~(o < b /\ b < o + s)

Init ==
  /\ boundaries \subseteq 0..StreamSize
  /\ 0 \in boundaries
  /\ arrived = 0
  /\ next = 0
  /\ handled = <<>>

Arrive ==
  /\ \E n \in 1..(StreamSize - arrived) : arrived' = arrived + n
  /\ UNCHANGED <<boundaries, next, handled>>

Handle ==
  /\ \E s \in 1..(arrived - next) :
       /\ Packet(next, s)
       /\ next' = next + s
       /\ handled' = Append(handled, [i \in 1..s |-> next + i - 1])
  /\ UNCHANGED <<boundaries, arrived>>

Next == Arrive \/ Handle

Spec == Init /\ [][Next]_streamVars
=============================================================================
