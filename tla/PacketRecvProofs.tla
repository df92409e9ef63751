-------------------------- MODULE PacketRecvProofs --------------------------
(***************************************************************************)
(* Proofs about PacketRecv, for every chunk size, multiple (from 3 on),    *)
(* header size, packet size below the chunk size and stream.               *)
(*                                                                         *)
(* IInv says why the receive path works: the window between the cursors is *)
(* the end of what has arrived; the framing cursor stands on a boundary of *)
(* the stream, so what is read as a header is one; and whenever a receive  *)
(* is (about to be) posted, less than one packet is left in the buffer.    *)
(***************************************************************************)
EXTENDS PacketRecv, TLAPS

StreamInv ==
  /\ StreamSize \in boundaries
  /\ \A o \in boundaries \ {StreamSize} : \E s \in PacketSizes : Packet(o, s)

CursorInv ==
  /\ arrived - DataSize \in boundaries
  /\ WindowIsStream

RoomInv ==
  pc \in {"RegisterRecv", "posted"} =>
    /\ processLen = 0
    /\ FreeSize >= ChunkSize
    /\ ~ \E s \in 1..UnreadSize : Packet(arrived - UnreadSize, s)

IInv == TypeOK /\ StreamInv /\ CursorInv /\ RoomInv /\ NeverOverflows

-----------------------------------------------------------------------------
\* The buffer holds at least three chunks.
LEMMA BufferSizeBound == BufferSize \in Nat /\ BufferSize >= 3 * ChunkSize
<1>1. BufferSize = ChunkSize * MultipleN
  BY RecvAssumption DEF BufferSize
<1>2. ChunkSize * MultipleN \in Nat /\ ChunkSize * MultipleN >= ChunkSize * 3
  BY RecvAssumption
<1> QED BY <1>1, <1>2, RecvAssumption

\* The inductive invariant holds initially.
LEMMA InitIInv == Init => IInv
<1> SUFFICES ASSUME Init PROVE IInv
  OBVIOUS
<1> USE RecvAssumption, BufferSizeBound DEF Init
<1> HIDE DEF BufferSize
<1>1. boundaries \subseteq 0..StreamSize /\ {0, StreamSize} \subseteq boundaries
  BY DEF Streams
<1>2. TypeOK
  BY <1>1 DEF TypeOK, Bytes, UnreadSize, Causes
<1>3. StreamInv
  BY <1>1 DEF StreamInv
<1>4. CursorInv
  BY <1>1 DEF CursorInv, WindowIsStream, DataSize, UnreadSize
<1>5. RoomInv
  BY DEF RoomInv, FreeSize, UnreadSize
<1>6. NeverOverflows
  BY DEF NeverOverflows
<1> QED BY <1>2, <1>3, <1>4, <1>5, <1>6 DEF IInv

\* With the cursor on a boundary, the header read there is the packet's own.
LEMMA HeaderIsPacket ==
  ASSUME IInv, DataSize >= HeaderSize
  PROVE  HeaderAt(readPos + processLen) =
           {s \in PacketSizes : Packet(arrived - DataSize, s)}
<1> DEFINE p == readPos + processLen
           o == arrived - DataSize
<1> USE RecvAssumption, BufferSizeBound
<1> HIDE DEF BufferSize
<1>1. /\ p \in readPos..(writePos - 1) /\ p + HeaderSize <= writePos
      /\ DataSize = writePos - p
      /\ o \in boundaries /\ o \in Nat /\ o # StreamSize
  BY DEF IInv, TypeOK, CursorInv, DataSize, UnreadSize
<1>2. \A i \in 0..(HeaderSize - 1) : buffer[p + i] = o + i
  <2>1. SUFFICES ASSUME NEW i \in 0..(HeaderSize - 1)
                 PROVE  buffer[p + i] = o + i
    OBVIOUS
  <2>2. p + i \in readPos..(writePos - 1)
    BY <1>1 DEF IInv, TypeOK
  <2>3. buffer[p + i] = arrived - (writePos - (p + i))
    BY <2>2 DEF IInv, CursorInv, WindowIsStream
  <2> QED BY <1>1, <2>3 DEF IInv, TypeOK
<1>3. buffer[p] = o
  BY <1>1, <1>2
<1> QED BY <1>1, <1>2, <1>3 DEF HeaderAt

\* When the framing loop ends, less than a packet is left, and none whole.
LEMMA LoopEndLeavesLess ==
  ASSUME IInv, EndOnRecv
  PROVE  /\ DataSize < MaxPacketSize
         /\ ~ \E s \in 1..DataSize : Packet(arrived - DataSize, s)
<1> DEFINE o == arrived - DataSize
<1> USE RecvAssumption
<1>1. DataSize \in Nat /\ o \in boundaries /\ o \in 0..StreamSize
      /\ arrived \in 0..StreamSize /\ boundaries \subseteq 0..StreamSize
  <2>1. BufferSize \in Nat
    BY BufferSizeBound
  <2> HIDE DEF BufferSize
  <2> QED BY <2>1 DEF IInv, TypeOK, CursorInv, DataSize, UnreadSize
<1>2. DataSize < MaxPacketSize
  <2>1. CASE DataSize < HeaderSize
    BY <1>1, <2>1
  <2>2. CASE DataSize >= HeaderSize
    <3>1. \E s \in PacketSizes : DataSize < s
      BY <2>2, HeaderIsPacket DEF EndOnRecv
    <3> QED BY <1>1, <3>1 DEF PacketSizes
  <2> QED BY <1>1, <2>1, <2>2
<1>3. CASE DataSize = 0
  BY <1>2, <1>3
<1>4. CASE DataSize > 0
  <2>1. o # StreamSize
    BY <1>1, <1>4
  <2>2. PICK size \in PacketSizes : Packet(o, size) /\ DataSize < size
    <3>1. CASE DataSize < HeaderSize
      <4>1. PICK s \in PacketSizes : Packet(o, s)
        BY <1>1, <2>1 DEF IInv, StreamInv
      <4> QED BY <1>1, <3>1, <4>1 DEF PacketSizes
    <3>2. CASE DataSize >= HeaderSize
      BY <3>2, HeaderIsPacket DEF EndOnRecv
    <3> QED BY <1>1, <3>1, <3>2
  <2>3. ASSUME NEW s \in 1..DataSize, Packet(o, s) PROVE FALSE
    <3>1. o + s \in boundaries /\ o < o + s /\ o + s < o + size
      BY <1>1, <2>2, <2>3 DEF Packet, PacketSizes
    <3> QED BY <2>2, <3>1 DEF Packet
  <2> QED BY <1>2, <2>3
<1> QED BY <1>1, <1>3, <1>4

-----------------------------------------------------------------------------
\* What the steps use of IInv and of the constants.
CursorFacts ==
  /\ BufferSize \in Nat /\ BufferSize >= 3 * ChunkSize
  /\ ChunkSize \in Nat /\ ChunkSize > 0
  /\ StreamSize \in Nat /\ arrived \in 0..StreamSize
  /\ writePos \in 0..BufferSize /\ readPos \in 0..writePos
  /\ processLen \in 0..(writePos - readPos)
  /\ buffer \in [0..(BufferSize - 1) -> Bytes \cup {Junk}]
  /\ boundaries \subseteq 0..StreamSize
  /\ DataSize = writePos - readPos - processLen
  /\ UnreadSize = writePos - readPos
  /\ FreeSize = BufferSize - writePos

LEMMA Facts == IInv => CursorFacts
  BY RecvAssumption, BufferSizeBound
  DEF IInv, TypeOK, DataSize, UnreadSize, FreeSize, CursorFacts

\* A completed receive keeps the invariant: OnWrite cannot overflow.
LEMMA ProcessRecvKeeps ==
  ASSUME IInv, NEW n \in 0..(StreamSize - arrived), ProcessRecv(n)
  PROVE  IInv'
<1>a. CursorFacts
  BY Facts
<1> USE <1>a DEF CursorFacts
<1> HIDE DEF BufferSize
<1>b. /\ n <= FreeSize /\ n \in Nat /\ processLen = 0
      /\ boundaries' = boundaries /\ readPos' = readPos
      /\ processLen' = processLen /\ handled' = handled
      /\ arrived' = arrived + n /\ pc = "posted"
  <2>1. n \in Nat
    OBVIOUS
  <2>2. pc = "posted" /\ n <= FreeSize
    BY DEF ProcessRecv, WsaBufLen
  <2>3. processLen = 0
    BY <2>2 DEF IInv, RoomInv
  <2> QED BY <2>1, <2>2, <2>3 DEF ProcessRecv
<1>c. \/ n = 0 /\ pc' = "stopped" /\ Disconnect("Recv 0")
         /\ writePos' = writePos
      \/ n > 0 /\ pc' = "OnRecv" /\ connected' = connected /\ cause' = cause
         /\ writePos' = writePos + n
  <2>1. CASE n = 0
    BY <2>1 DEF ProcessRecv
  <2>2. CASE n # 0
    <3>1. ~(FreeSize < n) /\ n > 0
      BY <1>b, <2>2
    <3> QED BY <2>2, <3>1 DEF ProcessRecv
  <2> QED BY <2>1, <2>2
<1>w. writePos' = writePos + n
  <2>1. \/ n = 0 /\ writePos' = writePos
        \/ writePos' = writePos + n
    BY <1>c
  <2> QED BY <2>1
<1>f. /\ buffer' \in [0..(BufferSize - 1) -> Bytes \cup {Junk}]
      /\ \A i \in 0..(BufferSize - 1) :
           buffer'[i] = IF i \in writePos..(writePos + n - 1)
                          THEN arrived + i - writePos ELSE buffer[i]
  <2>1. \A i \in writePos..(writePos + n - 1) : arrived + i - writePos \in Bytes
    BY <1>b DEF Bytes
  <2> QED BY <2>1 DEF ProcessRecv
<1>1. TypeOK'
  <2>1. arrived' \in 0..StreamSize /\ writePos' \in 0..BufferSize
    BY <1>b, <1>w
  <2>2. readPos' \in 0..writePos' /\ processLen' \in 0..(writePos' - readPos')
    BY <1>b, <1>w
  <2>3. /\ pc' \in {"OnRecv", "stopped"} /\ connected' \in BOOLEAN
        /\ cause' \in Causes
    BY <1>c DEF Disconnect, IInv, TypeOK, Causes
  <2>4. handled' \in Seq(Seq(Bytes \cup {Junk}))
    BY <1>b DEF IInv, TypeOK
  <2> QED BY <1>b, <1>f, <2>1, <2>2, <2>3, <2>4 DEF TypeOK, UnreadSize
<1>2. StreamInv'
  BY <1>b DEF IInv, StreamInv, Packet
<1>3. CursorInv'
  <2>1. arrived' - DataSize' = arrived - DataSize
    BY <1>b, <1>w DEF DataSize, UnreadSize
  <2>2. WindowIsStream'
    <3>1. SUFFICES ASSUME NEW i \in readPos'..(writePos' - 1)
                   PROVE  buffer'[i] = arrived' - (writePos' - i)
      BY DEF WindowIsStream
    <3>2. CASE i >= writePos
      BY <1>b, <1>w, <1>f, <3>2
    <3>3. CASE i < writePos
      <4>1. buffer'[i] = buffer[i] /\ buffer[i] = arrived - (writePos - i)
        BY <1>b, <1>f, <3>3 DEF IInv, CursorInv, WindowIsStream
      <4> QED BY <1>b, <1>w, <4>1
    <3> QED BY <1>b, <1>w, <3>2, <3>3
  <2> QED BY <1>b, <2>1, <2>2 DEF IInv, CursorInv
<1>4. RoomInv'
  BY <1>b DEF ProcessRecv, RoomInv
<1>5. NeverOverflows'
  BY <1>c DEF Disconnect, IInv, NeverOverflows
<1> QED BY <1>1, <1>2, <1>3, <1>4, <1>5 DEF IInv

\* Handing over a packet keeps the invariant: it ends on a boundary.
LEMMA OnRecvKeeps ==
  ASSUME IInv, OnRecv PROVE IInv'
<1>a. CursorFacts
  BY Facts
<1> USE <1>a DEF CursorFacts
<1> HIDE DEF BufferSize
<1>b. /\ UNCHANGED <<boundaries, arrived, buffer, readPos, writePos, pc,
                     connected, cause>>
      /\ pc = "OnRecv" /\ DataSize >= HeaderSize
  BY DEF OnRecv
<1>s. PICK size \in PacketSizes :
        /\ Packet(arrived - DataSize, size) /\ DataSize >= size
        /\ handled' = Append(handled, [i \in 1..size |->
                                        buffer[readPos + processLen + i - 1]])
        /\ processLen' = processLen + size
  BY <1>b, HeaderIsPacket DEF OnRecv
<1>n. size \in Nat
  BY RecvAssumption DEF PacketSizes
<1>1. TypeOK'
  <2>1. processLen' \in 0..(writePos' - readPos')
    BY <1>b, <1>s, <1>n
  <2>2. handled' \in Seq(Seq(Bytes \cup {Junk}))
    <3> DEFINE B == Bytes \cup {Junk}
               packet == [i \in 1..size |-> buffer[readPos + processLen + i - 1]]
    <3>1. packet \in [1..size -> B]
      <4>1. \A i \in 1..size :
              readPos + processLen + i - 1 \in 0..(BufferSize - 1)
        BY <1>s, <1>n
      <4> QED BY <4>1
    <3>2. handled \in Seq(Seq(B)) /\ handled' = Append(handled, packet)
      BY <1>s DEF IInv, TypeOK
    <3> HIDE DEF packet, B
    <3>3. packet \in Seq(B)
      BY <1>n, <3>1
    <3>4. handled' \in Seq(Seq(B))
      BY <3>2, <3>3
    <3> QED BY <3>4 DEF B
  <2>3. pc' \in {"OnRecv"} /\ connected' \in BOOLEAN /\ cause' \in Causes
    BY <1>b DEF IInv, TypeOK
  <2> QED BY <1>b, <2>1, <2>2, <2>3 DEF TypeOK, UnreadSize
<1>2. StreamInv'
  BY <1>b DEF IInv, StreamInv, Packet
<1>3. CursorInv'
  <2>1. arrived' - DataSize' = (arrived - DataSize) + size
    BY <1>b, <1>s, <1>n DEF DataSize, UnreadSize
  <2>2. arrived' - DataSize' \in boundaries'
    BY <1>b, <1>s, <2>1 DEF Packet
  <2>3. WindowIsStream'
    BY <1>b DEF IInv, CursorInv, WindowIsStream
  <2> QED BY <2>2, <2>3 DEF CursorInv
<1>4. RoomInv'
  BY <1>b DEF RoomInv
<1>5. NeverOverflows'
  BY <1>b DEF IInv, NeverOverflows
<1> QED BY <1>1, <1>2, <1>3, <1>4, <1>5 DEF IInv

\* Leaving the framing loop keeps the invariant: Clean makes room for a chunk
\* and moves the window without overlap.
LEMMA EndOnRecvKeeps ==
  ASSUME IInv, EndOnRecv PROVE IInv' /\ arrived' - DataSize' = arrived - DataSize
<1>a. CursorFacts
  BY Facts
<1> USE <1>a DEF CursorFacts
<1> HIDE DEF BufferSize
<1> DEFINE read == readPos + processLen
<1>b. /\ boundaries' = boundaries /\ arrived' = arrived /\ handled' = handled
      /\ processLen' = 0 /\ pc' = "RegisterRecv"
      /\ connected' = connected /\ cause' = cause
      /\ Clean(read)
  <2>1. ~(UnreadSize < processLen)
    OBVIOUS
  <2> QED BY <2>1 DEF EndOnRecv
<1>s. /\ DataSize < MaxPacketSize /\ MaxPacketSize < ChunkSize
      /\ MaxPacketSize \in Nat
      /\ ~ \E s \in 1..DataSize : Packet(arrived - DataSize, s)
  BY LoopEndLeavesLess, RecvAssumption
<1>r. read \in 0..writePos /\ DataSize = writePos - read /\ DataSize \in Nat
  OBVIOUS
<1>t. /\ connected \in BOOLEAN /\ cause \in Causes
      /\ handled \in Seq(Seq(Bytes \cup {Junk}))
      /\ \A i \in readPos..(writePos - 1) :
           buffer[i] = arrived - (writePos - i)
  BY DEF IInv, TypeOK, CursorInv, WindowIsStream
<1> HIDE DEF read
\* The three outcomes of Clean, as far as the invariant cares.
<1>c. /\ buffer' \in [0..(BufferSize - 1) -> Bytes \cup {Junk}]
      /\ writePos' \in 0..BufferSize /\ readPos' \in 0..writePos'
      /\ writePos' - readPos' = DataSize
      /\ BufferSize - writePos' >= ChunkSize
      /\ \A i \in readPos'..(writePos' - 1) :
           buffer'[i] = arrived - (writePos' - i)
  <2>1. CASE DataSize = 0
    <3>1. readPos' = 0 /\ writePos' = 0 /\ buffer' = buffer
      BY <1>b, <1>r, <2>1 DEF Clean
    <3> QED BY <2>1, <3>1
  <2>2. CASE DataSize # 0 /\ FreeSize < ChunkSize
    <3>1. DataSize <= read
      BY <1>r, <1>s, <2>2
    <3>2. /\ readPos' = 0 /\ writePos' = DataSize
          /\ buffer' = [i \in 0..(BufferSize - 1) |->
                          IF i >= DataSize THEN buffer[i]
                          ELSE buffer[read + i]]
      BY <1>b, <1>r, <2>2, <3>1 DEF Clean
    <3>3. \A i \in 0..(DataSize - 1) :
            /\ read + i \in readPos..(writePos - 1)
            /\ read + i \in 0..(BufferSize - 1)
            /\ i \in 0..(BufferSize - 1)
      BY <1>r DEF read
    <3>4. buffer' \in [0..(BufferSize - 1) -> Bytes \cup {Junk}]
      BY <1>r, <3>2, <3>3
    <3>5. ASSUME NEW i \in 0..(DataSize - 1)
          PROVE  buffer'[i] = arrived - (DataSize - i)
      <4>1. buffer'[i] = buffer[read + i]
        BY <1>r, <3>2, <3>3
      <4>2. buffer[read + i] = arrived - (writePos - (read + i))
        BY <1>t, <3>3
      <4> QED BY <1>r, <4>1, <4>2
    <3>6. DataSize \in 0..BufferSize /\ BufferSize - DataSize >= ChunkSize
      BY <1>r, <1>s
    <3>7. readPos' = 0 /\ writePos' = DataSize
      BY <3>2
    <3>8. \A i \in readPos'..(writePos' - 1) :
            buffer'[i] = arrived - (writePos' - i)
      BY <3>5, <3>7
    <3> QED BY <1>r, <3>4, <3>6, <3>7, <3>8
  <2>3. CASE DataSize # 0 /\ FreeSize >= ChunkSize
    <3>0. writePos - read # 0 /\ ~(FreeSize < ChunkSize)
      BY <1>r, <2>3
    <3>1. readPos' = read /\ writePos' = writePos /\ buffer' = buffer
      BY <1>b, <3>0 DEF Clean
    <3>2. readPos <= read
      BY DEF read
    <3> QED BY <1>r, <1>t, <2>3, <3>1, <3>2
  <2> QED BY <1>r, <2>1, <2>2, <2>3
<1>d. DataSize' = DataSize /\ UnreadSize' = DataSize
  <2>1. UnreadSize' = writePos' - readPos' /\ DataSize' = UnreadSize' - processLen'
    BY DEF DataSize, UnreadSize
  <2>2. UnreadSize' = DataSize
    BY <1>c, <2>1
  <2>3. DataSize' = DataSize - 0
    BY <1>b, <2>1, <2>2
  <2> QED BY <1>r, <2>2, <2>3
<1>1. TypeOK'
  BY <1>b, <1>c, <1>d, <1>r, <1>t DEF TypeOK
<1>2. StreamInv'
  BY <1>b DEF IInv, StreamInv, Packet
<1>3. CursorInv'
  BY <1>b, <1>c, <1>d DEF IInv, CursorInv, WindowIsStream
<1>4. RoomInv'
  <2>1. FreeSize' >= ChunkSize
    BY <1>c DEF FreeSize, BufferSize
  <2>2. ~ \E s \in 1..DataSize :
            /\ arrived - DataSize \in boundaries'
            /\ arrived - DataSize + s \in boundaries'
            /\ \A b \in boundaries' :
                 ~(arrived - DataSize < b /\ b < arrived - DataSize + s)
    BY <1>b, <1>s DEF Packet
  <2>3. (~ \E s \in 1..UnreadSize : Packet(arrived - UnreadSize, s))'
    BY <1>b, <1>d, <2>2 DEF Packet
  <2> QED BY <1>b, <2>1, <2>3 DEF RoomInv
<1>5. NeverOverflows'
  BY <1>b DEF IInv, NeverOverflows
<1> QED BY <1>b, <1>d, <1>1, <1>2, <1>3, <1>4, <1>5 DEF IInv

\* Every step keeps the inductive invariant.
LEMMA NextIInv == IInv /\ [Next]_vars => IInv'
<1> SUFFICES ASSUME IInv, [Next]_vars PROVE IInv'
  OBVIOUS
<1> USE DEF IInv, TypeOK, StreamInv, CursorInv, RoomInv, NeverOverflows,
            WindowIsStream, Packet, DataSize, UnreadSize, FreeSize
<1> HIDE DEF BufferSize
<1>1. CASE OtherDisconnect
  <2>1. UNCHANGED <<boundaries, arrived, buffer, readPos, writePos,
                    processLen, pc, cause, handled>> /\ connected' \in BOOLEAN
    BY <1>1 DEF OtherDisconnect
  <2> QED BY <2>1
<1>2. CASE RegisterRecv
  <2>1. /\ UNCHANGED <<boundaries, arrived, buffer, readPos, writePos,
                       processLen, handled>>
        /\ pc = "RegisterRecv" /\ pc' \in {"posted", "stopped"}
        /\ connected' \in BOOLEAN /\ cause' \in {cause, "HandleError"}
    BY <1>2 DEF RegisterRecv, Disconnect
  <2>2. cause' \in Causes /\ NeverOverflows'
    BY <2>1 DEF Causes
  <2> QED BY <2>1, <2>2
<1>3. ASSUME NEW n \in 0..(StreamSize - arrived), ProcessRecv(n) PROVE IInv'
  BY <1>3, ProcessRecvKeeps
<1>4. CASE OnRecv
  BY <1>4, OnRecvKeeps
<1>5. CASE EndOnRecv
  BY <1>5, EndOnRecvKeeps
<1>6. CASE UNCHANGED vars
  BY <1>6 DEF vars
<1> QED BY <1>1, <1>2, <1>3, <1>4, <1>5, <1>6 DEF Next, Stopped

\* The inductive invariant holds in every reachable state.
THEOREM Invariance == Spec => []IInv
  BY InitIInv, NextIInv, PTL DEF Spec

(* Every reachable state is well typed: the cursors stay in order and inside *)
(* the buffer.                                                               *)
THEOREM TypeCorrect == Spec => []TypeOK
<1>1. IInv => TypeOK
  BY DEF IInv
<1> QED BY Invariance, <1>1, PTL

(* A receive is always posted with room for a whole chunk, never with 0.     *)
THEOREM RoomForAChunk == Spec => []ReceiveHasRoom
<1>1. IInv => ReceiveHasRoom
  BY DEF IInv, RoomInv, ReceiveHasRoom
<1> QED BY Invariance, <1>1, PTL

(* The unread window is the unbroken end of what has arrived, through every  *)
(* memcpy of Clean.                                                          *)
THEOREM WindowStaysStream == Spec => []WindowIsStream
<1>1. IInv => WindowIsStream
  BY DEF IInv, CursorInv
<1> QED BY Invariance, <1>1, PTL

(* No packet that has arrived in full waits in the buffer for more bytes.    *)
THEOREM NothingLeftBehind == Spec => []NoPacketLeft
<1>1. IInv => NoPacketLeft
  BY DEF IInv, RoomInv, NoPacketLeft
<1> QED BY Invariance, <1>1, PTL

(* The overflow branches of ProcessRecv never disconnect a peer whose        *)
(* packets fit a chunk.                                                      *)
THEOREM OverflowsNever == Spec => []NeverOverflows
<1>1. IInv => NeverOverflows
  BY DEF IInv
<1> QED BY Invariance, <1>1, PTL

-----------------------------------------------------------------------------
\* Init is an initial state of the packet stream.
LEMMA InitRefines == Init => Stream!Init
<1> SUFFICES ASSUME Init PROVE Stream!Init
  OBVIOUS
<1>1. boundaries \subseteq 0..StreamSize /\ 0 \in boundaries
  <2>1. PICK b \in SUBSET (1..(StreamSize - 1)) :
          boundaries = b \cup {0, StreamSize}
    BY DEF Init, Streams
  <2> QED BY <2>1, RecvAssumption
<1>2. arrived - DataSize = 0 /\ arrived = 0 /\ handled = <<>>
  BY DEF Init, DataSize, UnreadSize
<1> QED BY <1>1, <1>2 DEF Stream!Init

\* Every step is a step of the packet stream or leaves it as it is.
LEMMA NextRefines == IInv /\ [Next]_vars => [Stream!Next]_(Stream!streamVars)
<1> SUFFICES ASSUME IInv, [Next]_vars
             PROVE  [Stream!Next]_(Stream!streamVars)
  OBVIOUS
<1> DEFINE Stutter == UNCHANGED <<boundaries, arrived, arrived - DataSize,
                                  handled>>
<1>s. Stutter => [Stream!Next]_(Stream!streamVars)
  BY DEF Stream!streamVars
<1>a. CursorFacts
  BY Facts
<1> USE <1>a DEF CursorFacts
<1> HIDE DEF BufferSize, Stutter
<1>1. ASSUME OtherDisconnect PROVE Stutter
  <2>1. UNCHANGED <<boundaries, arrived, readPos, writePos, processLen, handled>>
    BY <1>1 DEF OtherDisconnect
  <2>2. DataSize' = DataSize
    BY <2>1 DEF DataSize, UnreadSize
  <2> QED BY <2>1, <2>2 DEF Stutter
<1>2. ASSUME RegisterRecv PROVE Stutter
  <2>1. UNCHANGED <<boundaries, arrived, readPos, writePos, processLen, handled>>
    BY <1>2 DEF RegisterRecv
  <2>2. DataSize' = DataSize
    BY <2>1 DEF DataSize, UnreadSize
  <2> QED BY <2>1, <2>2 DEF Stutter
<1>3. ASSUME NEW n \in 0..(StreamSize - arrived), ProcessRecv(n)
      PROVE  Stutter \/ Stream!Next
  <2>1. /\ UNCHANGED <<boundaries, readPos, processLen, handled>>
        /\ arrived' = arrived + n /\ n <= FreeSize
    BY <1>3 DEF ProcessRecv, WsaBufLen
  <2>2. writePos' = writePos + n
    <3>1. CASE n = 0
      <4>1. writePos' = writePos
        BY <1>3, <3>1 DEF ProcessRecv
      <4> QED BY <3>1, <4>1
    <3>2. CASE n # 0
      <4>1. ~(FreeSize < n)
        BY <2>1
      <4> QED BY <1>3, <3>2, <4>1 DEF ProcessRecv
    <3> QED BY <3>1, <3>2
  <2>3. arrived' - DataSize' = arrived - DataSize
    BY <2>1, <2>2 DEF DataSize, UnreadSize
  <2>4. CASE n = 0
    BY <2>1, <2>3, <2>4 DEF Stutter
  <2>5. CASE n # 0
    BY <2>1, <2>3, <2>5 DEF Stream!Next, Stream!Arrive
  <2> QED BY <2>4, <2>5
<1>4. ASSUME OnRecv PROVE Stream!Next
  <2>1. /\ UNCHANGED <<boundaries, arrived, readPos, writePos>>
        /\ DataSize >= HeaderSize
    BY <1>4 DEF OnRecv
  <2>2. PICK size \in PacketSizes :
          /\ Packet(arrived - DataSize, size) /\ DataSize >= size
          /\ handled' = Append(handled, [i \in 1..size |->
                                          buffer[readPos + processLen + i - 1]])
          /\ processLen' = processLen + size
    BY <1>4, <2>1, HeaderIsPacket DEF OnRecv
  <2>3. size \in 1..DataSize
    BY <2>2, RecvAssumption DEF PacketSizes
  <2>4. arrived' - DataSize' = (arrived - DataSize) + size
    BY <2>1, <2>2, <2>3 DEF DataSize, UnreadSize
  <2>5. [i \in 1..size |-> buffer[readPos + processLen + i - 1]] =
          [i \in 1..size |-> (arrived - DataSize) + i - 1]
    <3>1. ASSUME NEW i \in 1..size
          PROVE  buffer[readPos + processLen + i - 1] =
                   (arrived - DataSize) + i - 1
      <4>1. readPos + processLen + i - 1 \in readPos..(writePos - 1)
        BY <2>3
      <4>2. buffer[readPos + processLen + i - 1] =
              arrived - (writePos - (readPos + processLen + i - 1))
        BY <4>1 DEF IInv, CursorInv, WindowIsStream
      <4> QED BY <2>3, <4>2
    <3> QED BY <3>1
  <2>6. Stream!Packet(arrived - DataSize, size)
    BY <2>2 DEF Packet, Stream!Packet
  <2>7. size \in 1..(arrived - (arrived - DataSize))
    BY <2>3
  <2> QED BY <2>1, <2>2, <2>4, <2>5, <2>6, <2>7
      DEF Stream!Next, Stream!Handle
<1>5. ASSUME EndOnRecv PROVE Stutter
  <2>1. UNCHANGED <<boundaries, arrived, handled>>
    BY <1>5 DEF EndOnRecv
  <2>2. arrived' - DataSize' = arrived - DataSize
    BY <1>5, EndOnRecvKeeps
  <2> QED BY <2>1, <2>2 DEF Stutter
<1>6. ASSUME UNCHANGED vars PROVE Stutter
  <2>1. UNCHANGED <<boundaries, arrived, readPos, writePos, processLen, handled>>
    BY <1>6 DEF vars
  <2>2. DataSize' = DataSize
    BY <2>1 DEF DataSize, UnreadSize
  <2> QED BY <2>1, <2>2 DEF Stutter
<1> QED BY <1>s, <1>1, <1>2, <1>3, <1>4, <1>5, <1>6 DEF Next, Stopped

(* The receive path implements the packet stream: every packet is handed to  *)
(* OnRecvPacket once, whole and in order.                                    *)
THEOREM Refinement == Spec => ImplementsStream
  BY Invariance, InitRefines, NextRefines, PTL
  DEF Spec, ImplementsStream, Stream!Spec

=============================================================================
