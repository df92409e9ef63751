----------------------------- MODULE PacketRecv -----------------------------
(***************************************************************************)
(* The receive path of one PacketSession: RegisterRecv and ProcessRecv     *)
(* (ServerCore/Session.cpp), the framing loop of PacketSession::OnRecv,    *)
(* and the RecvBuffer they share (ServerCore/RecvBuffer.cpp).              *)
(*                                                                         *)
(* At most one WSARecv is outstanding, so one thread at a time runs this   *)
(* code and pc belongs to the session.  A byte of the peer's stream is     *)
(* named by its offset: the buffer holds offsets, so a byte that is lost,  *)
(* duplicated or read at the wrong place shows.                            *)
(***************************************************************************)
EXTENDS Integers, Sequences

CONSTANTS
  ChunkSize,      \* _chunkSize: 0x10000
  MultipleN,      \* the multipleN argument: 10
  HeaderSize,     \* sizeof(PacketHeader): 4
  MaxPacketSize,  \* largest PacketHeader::size: 0xFFFF
  StreamSize,     \* bound: bytes the peer writes
  Junk            \* the content of a byte that holds nothing of the stream

(* Any uint16 fits a chunk.  The constructor raises multipleN to            *)
(* MIN_MULTIPLE_N = 2, the server uses 10; Clean needs 3.                   *)
ASSUME RecvAssumption ==
  /\ HeaderSize \in Nat \ {0}
  /\ MaxPacketSize \in Nat /\ HeaderSize <= MaxPacketSize
  /\ ChunkSize \in Nat /\ MaxPacketSize < ChunkSize
  /\ MultipleN \in Nat /\ MultipleN >= 3
  /\ StreamSize \in Nat
  /\ Junk \notin Nat

VARIABLES
  boundaries,   \* the peer's stream: where packets start and end
  arrived,      \* bytes of it that the kernel has put into the buffer
  buffer,       \* _buffer
  readPos,      \* _readPos
  writePos,     \* _writePos
  processLen,   \* processLen of the running OnRecv
  pc,           \* what the session is doing
  connected,    \* _connected
  cause,        \* what this path last passed to Disconnect
  handled       \* history: arguments of OnRecvPacket

vars == <<boundaries, arrived, buffer, readPos, writePos, processLen, pc,
          connected, cause, handled>>

PacketSizes == HeaderSize..MaxPacketSize
Causes == {"none", "Recv 0", "OnWrite Overflow", "OnRead Overflow",
           "HandleError"}

\* Mutant of BufferSize: the smallest multiple the constructor admits.
BufferSizeMinMultiple == ChunkSize * 2

\* _bufferSize, with _multipleN = max(multipleN, MIN_MULTIPLE_N).
BufferSize == ChunkSize * (IF MultipleN > 2 THEN MultipleN ELSE 2)

UnreadSize == writePos - readPos
FreeSize   == BufferSize - writePos

\* The peer's bytes from offset o up to o + s are one packet.
Packet(o, s) ==
  /\ o \in boundaries /\ o + s \in boundaries
  /\ \A b \in boundaries : ~(o < b /\ b < o + s)

\* Sets of boundaries of a stream that ends with a whole packet.
Streams ==
  {b \cup {0, StreamSize} : b \in SUBSET (1..(StreamSize - 1))}

Init ==
  /\ boundaries \in Streams
  /\ \A o \in boundaries \ {StreamSize} :
       \E s \in PacketSizes : Packet(o, s)
  /\ arrived = 0
  /\ buffer = [i \in 0..(BufferSize - 1) |-> Junk]
  /\ readPos = 0 /\ writePos = 0
  /\ processLen = 0
  /\ pc = "RegisterRecv"
  /\ connected = TRUE
  /\ cause = "none"
  /\ handled = <<>>

-----------------------------------------------------------------------------
Disconnect(why) == connected' = FALSE /\ cause' = why

(* A failed send, or the disconnect of another handler. *)
OtherDisconnect ==
  /\ connected
  /\ connected' = FALSE
  /\ UNCHANGED <<boundaries, arrived, buffer, readPos, writePos, processLen,
                 pc, cause, handled>>

(* Session::RegisterRecv: WSARecv is posted, or refused.  HandleError then *)
(* disconnects for a lost connection and only logs any other error; either *)
(* way nothing is received any more.                                       *)
RegisterRecv ==
  /\ pc = "RegisterRecv"
  /\ \/ pc' = "posted" /\ UNCHANGED <<connected, cause>>
     \/ pc' = "stopped" /\ Disconnect("HandleError")
     \/ pc' = "stopped" /\ UNCHANGED <<connected, cause>>
  /\ UNCHANGED <<boundaries, arrived, buffer, readPos, writePos, processLen,
                 handled>>

\* Mutant of WsaBufLen: the length of the buffer, not of its free part.
WsaBufLenWholeBuffer == BufferSize

\* The length of the memory given to WSARecv; it starts at writePos.
WsaBufLen == FreeSize

(* The WSARecv completes with n bytes of the stream, and ProcessRecv runs  *)
(* up to its call of OnRecv: n = 0 when the peer has closed or the         *)
(* connection is gone; otherwise RecvBuffer::OnWrite.                      *)
ProcessRecv(n) ==
  /\ pc = "posted"
  /\ n <= WsaBufLen
  /\ buffer' = [i \in 0..(BufferSize - 1) |->
                  IF i \in writePos..(writePos + n - 1)
                    THEN arrived + i - writePos
                    ELSE buffer[i]]
  /\ arrived' = arrived + n
  /\ IF n = 0
       THEN pc' = "stopped" /\ Disconnect("Recv 0") /\ UNCHANGED writePos
     ELSE IF FreeSize < n
       THEN pc' = "stopped" /\ Disconnect("OnWrite Overflow")
            /\ UNCHANGED writePos
     ELSE pc' = "OnRecv" /\ writePos' = writePos + n
          /\ UNCHANGED <<connected, cause>>
  /\ UNCHANGED <<boundaries, readPos, processLen, handled>>

-----------------------------------------------------------------------------
\* dataSize of the framing loop.
DataSize == UnreadSize - processLen

(* header.size as read at position p of the buffer.  Bytes that are not    *)
(* the header of a packet could be read as any size.                       *)
HeaderAt(p) ==
  LET o == buffer[p] IN
  IF /\ o \in boundaries \ {StreamSize}
     /\ \A i \in 0..(HeaderSize - 1) : buffer[p + i] = o + i
    THEN {s \in PacketSizes : Packet(o, s)}
    ELSE PacketSizes

\* Mutant of OnRecv: the size is not compared with what has arrived.
OnRecvPartialPacket ==
  /\ pc = "OnRecv"
  /\ DataSize >= HeaderSize
  /\ LET p == readPos + processLen IN
     \E size \in HeaderAt(p) :
       /\ handled' = Append(handled, [i \in 1..size |-> buffer[p + i - 1]])
       /\ processLen' = processLen + size
  /\ UNCHANGED <<boundaries, arrived, buffer, readPos, writePos, pc,
                 connected, cause>>

(* One turn of the loop: a whole packet is handed to OnRecvPacket. *)
OnRecv ==
  /\ pc = "OnRecv"
  /\ DataSize >= HeaderSize
  /\ LET p == readPos + processLen IN
     \E size \in HeaderAt(p) :
       /\ DataSize >= size
       /\ handled' = Append(handled, [i \in 1..size |-> buffer[p + i - 1]])
       /\ processLen' = processLen + size
  /\ UNCHANGED <<boundaries, arrived, buffer, readPos, writePos, pc,
                 connected, cause>>

\* Mutant of Clean: the data is pulled forward only when nothing is free.
CleanWhenFull(read) ==
  LET dataSize == writePos - read IN
  IF dataSize = 0
    THEN readPos' = 0 /\ writePos' = 0 /\ UNCHANGED buffer
  ELSE IF FreeSize = 0
    THEN /\ readPos' = 0 /\ writePos' = dataSize
         /\ buffer' = [i \in 0..(BufferSize - 1) |->
                         IF i < dataSize THEN buffer[read + i] ELSE buffer[i]]
  ELSE readPos' = read /\ UNCHANGED <<writePos, buffer>>

\* Mutant of Clean: _readPos keeps its value when everything is read.
CleanKeepsReadPos(read) ==
  LET dataSize == writePos - read IN
  IF dataSize = 0
    THEN readPos' = read /\ writePos' = 0 /\ UNCHANGED buffer
    ELSE readPos' = read /\ UNCHANGED <<writePos, buffer>>

(* RecvBuffer::Clean, called when _readPos is read.  memcpy of overlapping *)
(* ranges has no defined result.                                           *)
Clean(read) ==
  LET dataSize == writePos - read IN
  IF dataSize = 0
    THEN readPos' = 0 /\ writePos' = 0 /\ UNCHANGED buffer
  ELSE IF FreeSize < ChunkSize
    THEN /\ readPos' = 0 /\ writePos' = dataSize
         /\ \E copied \in IF dataSize <= read THEN {TRUE} ELSE BOOLEAN :
              buffer' = [i \in 0..(BufferSize - 1) |->
                           IF i >= dataSize THEN buffer[i]
                           ELSE IF copied THEN buffer[read + i]
                           ELSE Junk]
  ELSE readPos' = read /\ UNCHANGED <<writePos, buffer>>

\* Mutant of EndOnRecv: the loop is left after the first packet.
EndOnRecvAfterOne ==
  /\ pc = "OnRecv"
  /\ processLen = 0 /\ DataSize >= HeaderSize =>
       \E size \in HeaderAt(readPos) : DataSize < size
  /\ Clean(readPos + processLen)
  /\ pc' = "RegisterRecv"
  /\ processLen' = 0
  /\ UNCHANGED <<boundaries, arrived, handled, connected, cause>>

(* The loop ends, and ProcessRecv moves the read cursor (OnRead), cleans   *)
(* the buffer and goes on to RegisterRecv.                                 *)
EndOnRecv ==
  /\ pc = "OnRecv"
  /\ DataSize >= HeaderSize =>
       \E size \in HeaderAt(readPos + processLen) : DataSize < size
  /\ IF UnreadSize < processLen
       THEN /\ pc' = "stopped" /\ Disconnect("OnRead Overflow")
            /\ UNCHANGED <<readPos, writePos, buffer>>
       ELSE /\ Clean(readPos + processLen)
            /\ pc' = "RegisterRecv"
            /\ UNCHANGED <<connected, cause>>
  /\ processLen' = 0
  /\ UNCHANGED <<boundaries, arrived, handled>>

-----------------------------------------------------------------------------
\* Nothing is posted any more; it lets TLC tell this rest from a deadlock.
Stopped == pc = "stopped" /\ UNCHANGED vars

Next ==
  \/ OtherDisconnect
  \/ RegisterRecv
  \/ \E n \in 0..(StreamSize - arrived) : ProcessRecv(n)
  \/ OnRecv
  \/ EndOnRecv
  \/ Stopped

\* The worker that runs ProcessRecv keeps running.  The peer may stop.
Fairness == WF_vars(OnRecv \/ EndOnRecv \/ RegisterRecv)

Spec == Init /\ [][Next]_vars

FairSpec == Spec /\ Fairness

-----------------------------------------------------------------------------
Bytes == 0..(StreamSize - 1)

TypeOK ==
  /\ boundaries \subseteq 0..StreamSize
  /\ arrived \in 0..StreamSize
  /\ buffer \in [0..(BufferSize - 1) -> Bytes \cup {Junk}]
  /\ writePos \in 0..BufferSize
  /\ readPos \in 0..writePos
  /\ processLen \in 0..UnreadSize
  /\ pc \in {"RegisterRecv", "posted", "OnRecv", "stopped"}
  /\ connected \in BOOLEAN
  /\ cause \in Causes
  /\ handled \in Seq(Seq(Bytes \cup {Junk}))

(* Whatever has piled up, the memory given to WSARecv holds a whole chunk: *)
(* a receive of length 0, which would look like a closed peer, is never    *)
(* posted (Session.cpp:129-131, RecvBuffer.cpp:30-36).                     *)
ReceiveHasRoom == pc = "posted" => FreeSize >= ChunkSize

(* What is between the cursors is the end of what has arrived, unbroken:   *)
(* no piece is lost, repeated or damaged by Clean's memcpy                 *)
(* (RecvBuffer.cpp:21-38).                                                 *)
WindowIsStream ==
  \A i \in readPos..(writePos - 1) : buffer[i] = arrived - (writePos - i)

(* The framing loop leaves no packet in the buffer that has arrived in     *)
(* full: it would wait for bytes that may never come (Session.cpp:310-327).*)
NoPacketLeft ==
  pc = "posted" =>
    ~ \E s \in 1..UnreadSize : Packet(arrived - UnreadSize, s)

(* The overflow checks of ProcessRecv never disconnect a well-behaved peer,*)
(* however its packets are cut into receives (Session.cpp:232-246).        *)
NeverOverflows == cause \notin {"OnWrite Overflow", "OnRead Overflow"}

(* Every packet that has arrived in full is handled, even when the session *)
(* is disconnected meanwhile (Session.cpp:222-254, 306-330).               *)
EveryPacketHandled ==
  \A o \in 0..StreamSize :
    (\E s \in PacketSizes : Packet(o, s) /\ o + s <= arrived)
      ~> \E k \in 1..Len(handled) : handled[k][1] = o

-----------------------------------------------------------------------------
Stream == INSTANCE PacketStream WITH next <- arrived - DataSize

(* Framing, cursors and buffer together implement the packet stream:       *)
(* OnRecvPacket gets each packet once, whole, in order.                    *)
ImplementsStream == Stream!Spec
=============================================================================
