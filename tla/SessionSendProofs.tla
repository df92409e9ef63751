------------------------- MODULE SessionSendProofs -------------------------
(***************************************************************************)
(* Proofs about SessionSend, for any set of threads and any number of      *)
(* sends.  The safety invariants are not inductive by themselves: that     *)
(* _sendRegistered is a token for _sendEvent depends on the mutex, and     *)
(* that a queued buffer is not forgotten depends on who holds the token.   *)
(* IInv states these three layers.                                         *)
(***************************************************************************)
EXTENDS SessionSend, TLAPS

\* The mutex is held exactly inside the scopes of WRITE_LOCK.
LockInv ==
  \A t \in Threads : pc[t] \in Registering \cup {"unlock"} <=> lock = t

\* _sendRegistered is set while anybody has the right to use _sendEvent.
TokenInv ==
  /\ InSend # {} => sendRegistered
  /\ io.state # "none" => sendRegistered
  /\ ExclusiveSendEvent

\* Conversely, _sendRegistered stays set without anybody using it only on a
\* disconnected session; and no buffer is queued while it is clear.
WakeupInv ==
  /\ sendQueue # <<>> => sendRegistered
  /\ connected /\ sendRegistered => InSend # {} \/ io.state # "none"
  /\ \A t \in Threads :
       pc[t] \in Registering \ {"RegisterSend"} => sendQueue = <<>>

\* RegisterSend has set the owner before it calls WSASend.
PinInv ==
  /\ BuffersPinned
  /\ \A t \in Threads : pc[t] = "WSASend" => sendEvent.owner

IInv == TypeOK /\ LockInv /\ TokenInv /\ WakeupInv /\ PinInv

-----------------------------------------------------------------------------
\* TypeOK holds initially.
LEMMA InitTypeOK == Init => TypeOK
<1> SUFFICES ASSUME Init PROVE TypeOK
  OBVIOUS
<1> USE SendAssumption DEF Init
<1>1. /\ sendEvent \in [owner : BOOLEAN, sendBuffers : Seq(Nat)]
      /\ sendEvent.sendBuffers # <<>> => sendEvent.owner
  BY DEF Released
<1>2. /\ io \in [state : {"none", "pending", "posted"}, bufs : Seq(Nat),
                 bytes : {0, 1}]
      /\ io.bufs # <<>> => io.state = "pending"
  BY DEF NoIo
<1>3. pc \in [Threads -> Labels] /\ numOfBytes \in [Threads -> {0, 1}]
  BY DEF Labels
<1>4. sendQueue \in Seq(Nat) /\ wire \in Seq(Nat) /\ pushed \in 0..MaxSends
  OBVIOUS
<1> QED BY <1>1, <1>2, <1>3, <1>4 DEF TypeOK

\* A piece of a sequence of numbers has numbers.
LEMMA PiecesOfSeq ==
  ASSUME NEW b \in Seq(Nat)
  PROVE  /\ Range(b) \subseteq Nat
         /\ \A k \in 0..Len(b) : /\ SubSeq(b, 1, k) \in Seq(Nat)
                                /\ SubSeq(b, k + 1, Len(b)) \in Seq(Nat)
<1>1. Range(b) \subseteq Nat
  BY DEF Range
<1>2. ASSUME NEW k \in 0..Len(b)
      PROVE  SubSeq(b, 1, k) \in Seq(Nat) /\ SubSeq(b, k + 1, Len(b)) \in Seq(Nat)
  OBVIOUS
<1> QED BY <1>1, <1>2

\* Every step keeps TypeOK.
LEMMA NextTypeOK == TypeOK /\ [Next]_vars => TypeOK'
<1> SUFFICES ASSUME TypeOK, [Next]_vars PROVE TypeOK'
  OBVIOUS
<1> USE SendAssumption DEF TypeOK, Labels, Registering, Processing, Goto
<1>1. ASSUME NEW t \in Threads, Send(t) PROVE TypeOK'
  <2>1. Append(sendQueue, pushed + 1) \in Seq(Nat)
    OBVIOUS
  <2>2. sendQueue' \in Seq(Nat) /\ pushed' \in 0..MaxSends
    BY <1>1, <2>1 DEF Send
  <2>3. pc' \in [Threads -> Labels] /\ lock' \in Threads \cup {NoThread}
    BY <1>1 DEF Send
  <2>4. /\ sendRegistered' \in BOOLEAN
        /\ UNCHANGED <<connected, sendEvent, disconnectEvent, io, numOfBytes,
                       wire, dropped>>
    BY <1>1 DEF Send
  <2> QED BY <2>2, <2>3, <2>4
<1>2. ASSUME NEW t \in Threads, OtherDisconnect(t) PROVE TypeOK'
  BY <1>2 DEF OtherDisconnect, Disconnect
<1>3. ASSUME NEW t \in Threads, Dispatch(t) PROVE TypeOK'
  BY <1>3 DEF Dispatch, NoIo
<1>4. ASSUME NEW t \in Threads, RegisterSend(t) PROVE TypeOK'
  <2>1. sendEvent.sendBuffers \o sendQueue \in Seq(Nat)
    OBVIOUS
  <2>2. CASE connected
    <3>1. /\ sendEvent' \in [owner : BOOLEAN, sendBuffers : Seq(Nat)]
          /\ sendEvent'.owner
      <4>1. sendEvent' = [owner |-> TRUE,
                          sendBuffers |-> sendEvent.sendBuffers \o sendQueue]
        BY <1>4, <2>2 DEF RegisterSend
      <4> HIDE DEF TypeOK
      <4> QED BY <2>1, <4>1
    <3>2. sendQueue' = <<>> /\ pc' = [pc EXCEPT ![t] = "WSASend"]
      BY <1>4, <2>2 DEF RegisterSend
    <3>3. UNCHANGED <<connected, lock, sendRegistered, disconnectEvent, io,
                      numOfBytes, pushed, wire, dropped>>
      BY <1>4 DEF RegisterSend
    <3>4. <<>> \in Seq(Nat) /\ pc' \in [Threads -> Labels]
      BY <3>2
    <3> QED BY <3>1, <3>2, <3>3, <3>4
  <2>3. CASE ~connected
    BY <1>4, <2>3 DEF RegisterSend
  <2> QED BY <2>2, <2>3
<1>5. ASSUME NEW t \in Threads, WSASend(t) PROVE TypeOK'
  <2>1. /\ io' \in [state : {"none", "pending", "posted"}, bufs : Seq(Nat),
                    bytes : {0, 1}]
        /\ io'.bufs # <<>> => io'.state = "pending"
    BY <1>5 DEF WSASend
  <2>2. pc' \in [Threads -> Labels]
    BY <1>5 DEF WSASend
  <2> QED BY <1>5, <2>1, <2>2 DEF WSASend
<1>6. ASSUME NEW t \in Threads, HandleError(t) PROVE TypeOK'
  BY <1>6 DEF HandleError, Disconnect
<1>7. ASSUME NEW t \in Threads, SendFailed(t) PROVE TypeOK'
  <2>1. Range(sendEvent.sendBuffers) \subseteq Nat
    BY DEF Range
  <2>2. /\ sendEvent' \in [owner : BOOLEAN, sendBuffers : Seq(Nat)]
        /\ sendEvent'.sendBuffers = <<>>
    BY <1>7 DEF SendFailed, Released
  <2>3. dropped' \subseteq Nat
    BY <1>7, <2>1 DEF SendFailed
  <2> QED BY <1>7, <2>2, <2>3 DEF SendFailed
<1>8. ASSUME NEW t \in Threads, Unlock(t) PROVE TypeOK'
  BY <1>8 DEF Unlock
<1>9. ASSUME NEW t \in Threads, ProcessSend(t) PROVE TypeOK'
  BY <1>9 DEF ProcessSend, Released
<1>10. ASSUME NEW t \in Threads, Send0(t) PROVE TypeOK'
  BY <1>10 DEF Send0, Disconnect
<1>11. ASSUME NEW t \in Threads, ProcessSendLock(t) PROVE TypeOK'
  BY <1>11 DEF ProcessSendLock
<1>12. ASSUME Complete PROVE TypeOK'
  <2>1. \A b \in Seq(Nat) : Range(b) \subseteq Nat
    BY PiecesOfSeq
  <2>2. CASE /\ wire' = wire \o io.bufs
             /\ io' = [state |-> "posted", bufs |-> <<>>, bytes |-> 1]
             /\ UNCHANGED dropped
    <3>1. io.bufs \in Seq(Nat) /\ <<>> \in Seq(Nat)
      OBVIOUS
    <3>2. wire' \in Seq(Nat)
      BY <2>2, <3>1
    <3>3. /\ io' \in [state : {"none", "pending", "posted"}, bufs : Seq(Nat),
                      bytes : {0, 1}]
          /\ io'.bufs = <<>>
      BY <2>2, <3>1
    <3> QED BY <1>12, <2>2, <3>2, <3>3 DEF Complete
  <2>3. ASSUME NEW k \in 0..Len(io.bufs),
               wire' = wire \o SubSeq(io.bufs, 1, k),
               dropped' = dropped \cup
                            Range(SubSeq(io.bufs, k + 1, Len(io.bufs))),
               io' = [state |-> "posted", bufs |-> <<>>, bytes |-> 0]
        PROVE  TypeOK'
    <3>1. /\ SubSeq(io.bufs, 1, k) \in Seq(Nat)
          /\ SubSeq(io.bufs, k + 1, Len(io.bufs)) \in Seq(Nat)
      BY PiecesOfSeq
    <3>2. wire' \in Seq(Nat)
      BY <2>3, <3>1
    <3>3. dropped' \subseteq Nat
      BY <2>1, <2>3, <3>1
    <3>4. /\ io' \in [state : {"none", "pending", "posted"}, bufs : Seq(Nat),
                      bytes : {0, 1}]
          /\ io'.bufs = <<>>
      BY <2>3
    <3> QED BY <1>12, <3>2, <3>3, <3>4 DEF Complete
  <2> QED BY <1>12, <2>2, <2>3 DEF Complete
<1>13. ASSUME UNCHANGED vars PROVE TypeOK'
  BY <1>13 DEF vars
<1> QED
  BY <1>1, <1>2, <1>3, <1>4, <1>5, <1>6, <1>7, <1>8, <1>9, <1>10, <1>11,
     <1>12, <1>13 DEF Next, Step, Quiescent

(* Every reachable state of the send path is well typed; in particular an  *)
(* event that nobody owns holds no buffers (Session.cpp:153-194, 258-259). *)
THEOREM TypeCorrect == Spec => []TypeOK
  BY InitTypeOK, NextTypeOK, PTL DEF Spec

-----------------------------------------------------------------------------
\* IInv holds initially.
LEMMA InitIInv == Init => IInv
  BY InitTypeOK, SendAssumption
  DEF Init, IInv, LockInv, TokenInv, WakeupInv, PinInv, ExclusiveSendEvent,
      BuffersPinned, InSend, Registering, Processing, NoIo

\* Every step keeps IInv.
LEMMA NextIInv == IInv /\ [Next]_vars => IInv'
<1> SUFFICES ASSUME IInv, [Next]_vars PROVE IInv'
  OBVIOUS
<1> USE SendAssumption
    DEF IInv, LockInv, TokenInv, WakeupInv, PinInv, ExclusiveSendEvent,
        BuffersPinned, InSend, Labels, Registering, Processing, Goto
<1>0. TypeOK'
  BY NextTypeOK
<1>t. /\ pc \in [Threads -> Labels]
      /\ lock \in Threads \cup {NoThread}
      /\ sendEvent \in [owner : BOOLEAN, sendBuffers : Seq(Nat)]
      /\ connected \in BOOLEAN /\ sendRegistered \in BOOLEAN
  BY DEF TypeOK
<1>1. ASSUME NEW t \in Threads, Send(t) PROVE IInv'
  <2>1. LockInv'
    BY <1>t, <1>1 DEF Send
  <2>2. TokenInv'
    BY <1>t, <1>1 DEF Send
  <2>3. WakeupInv'
    BY <1>t, <1>1 DEF Send
  <2>4. PinInv'
    BY <1>t, <1>1 DEF Send
  <2> QED BY <1>0, <2>1, <2>2, <2>3, <2>4
<1>2. ASSUME NEW t \in Threads, OtherDisconnect(t) PROVE IInv'
  <2>1. LockInv'
    BY <1>t, <1>2 DEF OtherDisconnect, Disconnect
  <2>2. TokenInv'
    BY <1>t, <1>2 DEF OtherDisconnect, Disconnect
  <2>3. WakeupInv'
    BY <1>t, <1>2 DEF OtherDisconnect, Disconnect
  <2>4. PinInv'
    BY <1>t, <1>2 DEF OtherDisconnect, Disconnect
  <2> QED BY <1>0, <2>1, <2>2, <2>3, <2>4
<1>3. ASSUME NEW t \in Threads, Dispatch(t) PROVE IInv'
  <2>1. LockInv'
    BY <1>t, <1>3 DEF Dispatch, NoIo
  <2>2. TokenInv'
    BY <1>t, <1>3 DEF Dispatch, NoIo
  <2>3. WakeupInv'
    BY <1>t, <1>3 DEF Dispatch, NoIo
  <2>4. PinInv'
    BY <1>t, <1>3 DEF Dispatch, NoIo
  <2> QED BY <1>0, <2>1, <2>2, <2>3, <2>4
<1>4. ASSUME NEW t \in Threads, RegisterSend(t) PROVE IInv'
  <2>1. LockInv'
    BY <1>t, <1>4 DEF RegisterSend
  <2>2. TokenInv'
    BY <1>t, <1>4 DEF RegisterSend
  <2>3. WakeupInv'
    BY <1>t, <1>4 DEF RegisterSend
  <2>4. PinInv'
    BY <1>t, <1>4 DEF RegisterSend
  <2> QED BY <1>0, <2>1, <2>2, <2>3, <2>4
<1>5. ASSUME NEW t \in Threads, WSASend(t) PROVE IInv'
  <2>1. LockInv'
    BY <1>t, <1>5 DEF WSASend
  <2>2. TokenInv'
    BY <1>t, <1>5 DEF WSASend
  <2>3. WakeupInv'
    BY <1>t, <1>5 DEF WSASend
  <2>4. PinInv'
    BY <1>t, <1>5 DEF WSASend
  <2> QED BY <1>0, <2>1, <2>2, <2>3, <2>4
<1>6. ASSUME NEW t \in Threads, HandleError(t) PROVE IInv'
  <2>1. LockInv'
    BY <1>t, <1>6 DEF HandleError, Disconnect
  <2>2. TokenInv'
    BY <1>t, <1>6 DEF HandleError, Disconnect
  <2>3. WakeupInv'
    BY <1>t, <1>6 DEF HandleError, Disconnect
  <2>4. PinInv'
    BY <1>t, <1>6 DEF HandleError, Disconnect
  <2> QED BY <1>0, <2>1, <2>2, <2>3, <2>4
<1>7. ASSUME NEW t \in Threads, SendFailed(t) PROVE IInv'
  <2>1. LockInv'
    BY <1>t, <1>7 DEF SendFailed
  <2>2. TokenInv'
    BY <1>t, <1>7 DEF SendFailed
  <2>3. WakeupInv'
    BY <1>t, <1>7 DEF SendFailed
  <2>4. PinInv'
    BY <1>t, <1>7 DEF SendFailed
  <2> QED BY <1>0, <2>1, <2>2, <2>3, <2>4
<1>8. ASSUME NEW t \in Threads, Unlock(t) PROVE IInv'
  <2>1. LockInv'
    BY <1>t, <1>8 DEF Unlock
  <2>2. TokenInv'
    BY <1>t, <1>8 DEF Unlock
  <2>3. WakeupInv'
    BY <1>t, <1>8 DEF Unlock
  <2>4. PinInv'
    BY <1>t, <1>8 DEF Unlock
  <2> QED BY <1>0, <2>1, <2>2, <2>3, <2>4
<1>9. ASSUME NEW t \in Threads, ProcessSend(t) PROVE IInv'
  <2>1. LockInv'
    BY <1>t, <1>9 DEF ProcessSend
  <2>2. TokenInv'
    BY <1>t, <1>9 DEF ProcessSend
  <2>3. WakeupInv'
    BY <1>t, <1>9 DEF ProcessSend
  <2>4. PinInv'
    BY <1>t, <1>9 DEF ProcessSend
  <2> QED BY <1>0, <2>1, <2>2, <2>3, <2>4
<1>10. ASSUME NEW t \in Threads, Send0(t) PROVE IInv'
  <2>1. LockInv'
    BY <1>t, <1>10 DEF Send0, Disconnect
  <2>2. TokenInv'
    BY <1>t, <1>10 DEF Send0, Disconnect
  <2>3. WakeupInv'
    BY <1>t, <1>10 DEF Send0, Disconnect
  <2>4. PinInv'
    BY <1>t, <1>10 DEF Send0, Disconnect
  <2> QED BY <1>0, <2>1, <2>2, <2>3, <2>4
<1>11. ASSUME NEW t \in Threads, ProcessSendLock(t) PROVE IInv'
  <2>1. LockInv'
    BY <1>t, <1>11 DEF ProcessSendLock
  <2>2. TokenInv'
    BY <1>t, <1>11 DEF ProcessSendLock
  <2>3. WakeupInv'
    BY <1>t, <1>11 DEF ProcessSendLock
  <2>4. PinInv'
    BY <1>t, <1>11 DEF ProcessSendLock
  <2> QED BY <1>0, <2>1, <2>2, <2>3, <2>4
<1>12. ASSUME Complete PROVE IInv'
  <2>1. LockInv' /\ TokenInv'
    BY <1>12 DEF Complete
  <2>2. WakeupInv' /\ PinInv'
    BY <1>12 DEF Complete
  <2> QED BY <1>0, <2>1, <2>2
<1>13. ASSUME UNCHANGED vars PROVE IInv'
  BY <1>0, <1>13 DEF vars
<1> QED
  BY <1>1, <1>2, <1>3, <1>4, <1>5, <1>6, <1>7, <1>8, <1>9, <1>10, <1>11,
     <1>12, <1>13 DEF Next, Step, Quiescent

\* The inductive invariant holds in every reachable state.
THEOREM Invariance == Spec => []IInv
  BY InitIInv, NextIInv, PTL DEF Spec

(* _sendRegistered is a token: _sendEvent, which ProcessSend writes without *)
(* the lock, has one user at a time among all threads and the kernel.       *)
THEOREM SendEventIsExclusive == Spec => []ExclusiveSendEvent
<1>1. IInv => ExclusiveSendEvent
  BY DEF IInv, TokenInv
<1> QED BY Invariance, <1>1, PTL

(* No lost wakeup: while connected, a queued buffer always has a thread or  *)
(* a completion that leads to RegisterSend.                                 *)
THEOREM NoBufferIsStranded == Spec => []NoStrandedBuffer
<1>1. IInv => NoStrandedBuffer
  BY DEF IInv, WakeupInv, NoStrandedBuffer
<1> QED BY Invariance, <1>1, PTL

(* What the kernel reads stays alive, and the completion finds its session. *)
THEOREM BuffersArePinned == Spec => []BuffersPinned
<1>1. IInv => BuffersPinned
  BY DEF IInv, PinInv
<1> QED BY Invariance, <1>1, PTL

-----------------------------------------------------------------------------
(* The refinement of SendChannel needs to know what _sendEvent.sendBuffers  *)
(* holds: nothing except between RegisterSend and ProcessSend, and then at  *)
(* least one buffer, so that every WSASend maps to a step of the channel.   *)
QueueInv ==
  /\ io.state = "none" /\ sendEvent.sendBuffers # <<>> =>
       \E t \in Threads :
         pc[t] \in (Registering \ {"RegisterSend"}) \cup {"ProcessSend"}
  /\ io.state = "pending" => io.bufs # <<>>
  /\ \A t \in Threads :
       /\ pc[t] = "RegisterSend" => sendQueue # <<>>
       /\ pc[t] \in Registering \ {"RegisterSend"} =>
            sendEvent.sendBuffers # <<>>

\* Facts about sequences that the steps of the refinement rest on.
LEMMA ConcatAppend ==
  ASSUME NEW S, NEW a \in Seq(S), NEW b \in Seq(S), NEW x \in S
  PROVE  a \o Append(b, x) = Append(a \o b, x)
  OBVIOUS

LEMMA ConcatEmpty ==
  ASSUME NEW S, NEW a \in Seq(S)
  PROVE  a \o <<>> = a /\ <<>> \o a = a
  OBVIOUS

LEMMA FrontOfConcat ==
  ASSUME NEW S, NEW a \in Seq(S), NEW b \in Seq(S), NEW k \in 0..Len(a)
  PROVE  SubSeq(a \o b, 1, k) = SubSeq(a, 1, k)
  OBVIOUS

LEMMA PartOfConcat ==
  ASSUME NEW S, NEW a \in Seq(S), NEW b \in Seq(S), NEW k \in 0..Len(a)
  PROVE  SubSeq(a \o b, k + 1, Len(a)) = SubSeq(a, k + 1, Len(a))
  OBVIOUS

LEMMA RestOfConcat ==
  ASSUME NEW S, NEW a \in Seq(S), NEW b \in Seq(S)
  PROVE  SubSeq(a \o b, Len(a) + 1, Len(a \o b)) = b
  OBVIOUS

\* QueueInv holds initially.
LEMMA InitQueueInv == Init => QueueInv
  BY DEF Init, QueueInv, Released, NoIo, Registering

\* Every step keeps QueueInv.
LEMMA NextQueueInv == IInv /\ QueueInv /\ [Next]_vars => QueueInv'
<1> SUFFICES ASSUME IInv, QueueInv, [Next]_vars PROVE QueueInv'
  OBVIOUS
<1>t. /\ pc \in [Threads -> Labels]
      /\ sendQueue \in Seq(Nat)
      /\ sendEvent \in [owner : BOOLEAN, sendBuffers : Seq(Nat)]
      /\ io.bufs \in Seq(Nat)
      /\ pushed \in Nat
  BY SendAssumption DEF IInv, TypeOK
<1>i. LockInv /\ TokenInv /\ WakeupInv
  BY DEF IInv
<1> USE <1>t, <1>i
    DEF QueueInv, LockInv, TokenInv, WakeupInv, ExclusiveSendEvent,
        InSend, Registering, Processing, Labels, Goto
<1>1. ASSUME NEW t \in Threads, Send(t) PROVE QueueInv'
  BY <1>1 DEF Send
<1>2. ASSUME NEW t \in Threads, OtherDisconnect(t) PROVE QueueInv'
  BY <1>2 DEF OtherDisconnect
<1>3. ASSUME NEW t \in Threads, Dispatch(t) PROVE QueueInv'
  BY <1>3 DEF Dispatch, NoIo
<1>4. ASSUME NEW t \in Threads, RegisterSend(t) PROVE QueueInv'
  <2>1. sendQueue # <<>>
    BY <1>4 DEF RegisterSend
  <2>2. sendEvent.sendBuffers \o sendQueue # <<>>
    BY <2>1
  <2>3. CASE connected
    <3>1. sendEvent'.sendBuffers # <<>> /\ io' = io
      BY <1>4, <2>2, <2>3 DEF RegisterSend
    <3>2. io.state = "none"
      BY <1>4 DEF RegisterSend
    <3>3. \A u \in Threads : u # t => pc'[u] \notin Registering
      BY <1>4 DEF RegisterSend
    <3>4. pc'[t] = "WSASend"
      BY <1>4, <2>3 DEF RegisterSend
    <3> QED BY <3>1, <3>2, <3>3, <3>4
  <2>4. CASE ~connected
    BY <1>4, <2>4 DEF RegisterSend
  <2> QED BY <2>3, <2>4
<1>5. ASSUME NEW t \in Threads, WSASend(t) PROVE QueueInv'
  BY <1>5 DEF WSASend
<1>6. ASSUME NEW t \in Threads, HandleError(t) PROVE QueueInv'
  BY <1>6 DEF HandleError
<1>7. ASSUME NEW t \in Threads, SendFailed(t) PROVE QueueInv'
  BY <1>7 DEF SendFailed, Released
<1>8. ASSUME NEW t \in Threads, Unlock(t) PROVE QueueInv'
  BY <1>8 DEF Unlock
<1>9. ASSUME NEW t \in Threads, ProcessSend(t) PROVE QueueInv'
  BY <1>9 DEF ProcessSend, Released
<1>10. ASSUME NEW t \in Threads, Send0(t) PROVE QueueInv'
  BY <1>10 DEF Send0
<1>11. ASSUME NEW t \in Threads, ProcessSendLock(t) PROVE QueueInv'
  BY <1>11 DEF ProcessSendLock
<1>12. ASSUME Complete PROVE QueueInv'
  BY <1>12 DEF Complete
<1>13. ASSUME UNCHANGED vars PROVE QueueInv'
  BY <1>13 DEF vars
<1> QED
  BY <1>1, <1>2, <1>3, <1>4, <1>5, <1>6, <1>7, <1>8, <1>9, <1>10, <1>11,
     <1>12, <1>13 DEF Next, Step, Quiescent

\* Init is an initial state of the channel.
LEMMA InitRefines == Init => Channel!Init
  BY DEF Init, Channel!Init, Unsent, NoIo, Registering

(* What a step does with the buffers: nothing; or one more is accepted; or *)
(* the first n of the queue are transmitted, of which those after the k-th *)
(* are dropped.                                                            *)
Stutter == UNCHANGED <<pushed, Unsent \o sendQueue, wire, dropped>>
Accept == Channel!Accept /\ UNCHANGED dropped
Transmit ==
  LET q == Unsent \o sendQueue IN
  \E n \in 1..Len(q) : \E k \in 0..n :
    /\ Channel!Remove(n, k)
    /\ dropped' = dropped \cup Range(SubSeq(q, k + 1, n))

\* Every step is one of the three.
LEMMA NextIsChannelStep ==
  IInv /\ QueueInv /\ [Next]_vars => Stutter \/ Accept \/ Transmit
<1> SUFFICES ASSUME IInv, QueueInv, [Next]_vars
             PROVE  Stutter \/ Accept \/ Transmit
  OBVIOUS
<1>t. /\ pc \in [Threads -> Labels]
      /\ sendQueue \in Seq(Nat)
      /\ sendEvent \in [owner : BOOLEAN, sendBuffers : Seq(Nat)]
      /\ sendEvent.sendBuffers \in Seq(Nat)
      /\ io.bufs \in Seq(Nat)
      /\ Unsent \in Seq(Nat)
      /\ wire \in Seq(Nat)
      /\ pushed \in Nat
  BY SendAssumption DEF IInv, TypeOK, Unsent
<1>i. LockInv /\ TokenInv
  BY DEF IInv
<1> USE <1>t, <1>i DEF LockInv, TokenInv, ExclusiveSendEvent, InSend,
                       Registering, Processing, Labels, Goto
<1>1. ASSUME NEW t \in Threads, Send(t) PROVE Accept
  <2>1. Unsent' = Unsent
    BY <1>1, SendAssumption DEF Send, Unsent
  <2>2. (Unsent \o sendQueue)' = Append(Unsent \o sendQueue, pushed + 1)
    <3>1. sendQueue' = Append(sendQueue, pushed + 1)
      BY <1>1 DEF Send
    <3> QED BY SMTT(30), <2>1, <3>1, ConcatAppend
  <2>3. pushed' = pushed + 1 /\ UNCHANGED <<wire, dropped>>
    BY <1>1 DEF Send
  <2> QED BY <2>2, <2>3 DEF Accept, Channel!Accept
<1>2. ASSUME NEW t \in Threads, OtherDisconnect(t) PROVE Stutter
  <2>1. Unsent' = Unsent
    BY <1>2 DEF OtherDisconnect, Unsent
  <2> QED BY <1>2, <2>1 DEF OtherDisconnect, Stutter
<1>3. ASSUME NEW t \in Threads, Dispatch(t) PROVE Stutter
  <2>1. Unsent' = Unsent
    BY <1>3 DEF Dispatch, NoIo, Unsent
  <2> QED BY <1>3, <2>1 DEF Dispatch, Stutter
<1>4. ASSUME NEW t \in Threads, RegisterSend(t) PROVE Stutter
  <2>1. CASE connected
    <3>1. Unsent = <<>> /\ sendEvent.sendBuffers = <<>>
      BY SMTT(30), <1>4 DEF RegisterSend, Unsent, QueueInv
    <3>2. Unsent' = sendEvent'.sendBuffers
      BY <1>4, <2>1 DEF RegisterSend, Unsent
    <3>3. sendEvent'.sendBuffers = sendEvent.sendBuffers \o sendQueue
      BY <1>4, <2>1 DEF RegisterSend
    <3>4. Unsent' = sendQueue /\ sendQueue' = <<>>
      BY <1>4, <2>1, <3>1, <3>2, <3>3, ConcatEmpty DEF RegisterSend
    <3>5. (Unsent \o sendQueue)' = Unsent \o sendQueue
      BY <3>1, <3>4, ConcatEmpty
    <3> QED BY <1>4, <3>5 DEF RegisterSend, Stutter
  <2>2. CASE ~connected
    <3>0. /\ io' = io /\ sendEvent' = sendEvent /\ t \in Threads
          /\ pc[t] = "RegisterSend" /\ pc' = [pc EXCEPT ![t] = "unlock"]
      BY <1>4, <2>2 DEF RegisterSend
    <3>1. Unsent' = Unsent
      <4>1. (\E u \in Threads : pc[u] \in Registering \ {"RegisterSend"})
              = (\E u \in Threads : pc'[u] \in Registering \ {"RegisterSend"})
        BY SMTT(30), <3>0
      <4> QED BY <3>0, <4>1 DEF Unsent
    <3> QED BY <1>4, <2>2, <3>1 DEF RegisterSend, Stutter
  <2> QED BY <2>1, <2>2
<1>5. ASSUME NEW t \in Threads, WSASend(t) PROVE Stutter
  <2>1. Unsent' = Unsent
    BY <1>5 DEF WSASend, Unsent
  <2> QED BY <1>5, <2>1 DEF WSASend, Stutter
<1>6. ASSUME NEW t \in Threads, HandleError(t) PROVE Stutter
  <2>1. Unsent' = Unsent
    BY <1>6 DEF HandleError, Unsent
  <2> QED BY <1>6, <2>1 DEF HandleError, Stutter
<1>7. ASSUME NEW t \in Threads, SendFailed(t) PROVE Transmit
  <2>1. /\ Unsent = sendEvent.sendBuffers /\ Unsent # <<>>
        /\ Unsent' = <<>> /\ sendQueue = <<>> /\ sendQueue' = <<>>
    BY <1>7 DEF SendFailed, Unsent, QueueInv, IInv, WakeupInv
  <2> DEFINE q == Unsent \o sendQueue
  <2>2. q = Unsent /\ Len(q) \in 1..Len(q) /\ 0 \in 0..Len(q)
    BY <2>1, ConcatEmpty
  <2>3. q' = SubSeq(q, Len(q) + 1, Len(q))
    BY <2>1, <2>2
  <2>4. wire' = wire \o SubSeq(q, 1, 0)
    BY <1>7, <2>2 DEF SendFailed
  <2>5. dropped' = dropped \cup Range(SubSeq(q, 0 + 1, Len(q)))
    <3>1. SubSeq(q, 0 + 1, Len(q)) = sendEvent.sendBuffers
      BY <2>1, <2>2
    <3> QED BY <1>7, <3>1 DEF SendFailed
  <2>6. Channel!Remove(Len(q), 0)
    BY <1>7, <2>3, <2>4 DEF SendFailed, Channel!Remove
  <2> HIDE DEF q
  <2>7. \E n \in 1..Len(q) : \E k \in 0..n :
          /\ Channel!Remove(n, k)
          /\ dropped' = dropped \cup Range(SubSeq(q, k + 1, n))
    BY <2>2, <2>5, <2>6
  <2> QED BY <2>7 DEF Transmit, q
<1>8. ASSUME NEW t \in Threads, Unlock(t) PROVE Stutter
  <2>1. Unsent' = Unsent
    BY <1>8 DEF Unlock, Unsent
  <2> QED BY <1>8, <2>1 DEF Unlock, Stutter
<1>9. ASSUME NEW t \in Threads, ProcessSend(t) PROVE Stutter
  <2>1. Unsent' = Unsent
    BY <1>9 DEF ProcessSend, Unsent
  <2> QED BY <1>9, <2>1 DEF ProcessSend, Stutter
<1>10. ASSUME NEW t \in Threads, Send0(t) PROVE Stutter
  <2>1. Unsent' = Unsent
    BY <1>10 DEF Send0, Unsent
  <2> QED BY <1>10, <2>1 DEF Send0, Stutter
<1>11. ASSUME NEW t \in Threads, ProcessSendLock(t) PROVE Stutter
  <2>1. Unsent = <<>>
    BY <1>11 DEF ProcessSendLock, Unsent
  <2>2. pc'[t] \in {"RegisterSend", "unlock"} /\ io' = io
    BY <1>11 DEF ProcessSendLock
  <2>3. \A u \in Threads : u # t => pc'[u] \notin Registering
    BY <1>11, SendAssumption DEF ProcessSendLock
  <2>4. Unsent' = <<>>
    BY <1>11, <2>2, <2>3 DEF ProcessSendLock, Unsent
  <2> QED BY <1>11, <2>1, <2>4 DEF ProcessSendLock, Stutter
<1>12. ASSUME Complete PROVE Transmit
  <2> DEFINE q == Unsent \o sendQueue
             n == Len(io.bufs)
  <2>1. Unsent = io.bufs /\ Unsent' = <<>> /\ sendQueue' = sendQueue
    BY <1>12 DEF Complete, Unsent
  <2>2. io.bufs # <<>>
    BY <1>12 DEF Complete, QueueInv
  <2>3. n \in 1..Len(q)
    BY <2>1, <2>2
  <2>4. SubSeq(q, n + 1, Len(q)) = sendQueue
    <3> HIDE DEF q, n
    <3>1. q = io.bufs \o sendQueue /\ n = Len(io.bufs)
      BY <2>1 DEF q, n
    <3> QED BY <3>1, RestOfConcat
  <2>5. q' = SubSeq(q, n + 1, Len(q))
    BY <2>1, <2>4, ConcatEmpty
  <2>6. PICK k \in 0..n :
          /\ wire' = wire \o SubSeq(io.bufs, 1, k)
          /\ dropped' = dropped \cup Range(SubSeq(io.bufs, k + 1, n))
    <3>1. SubSeq(io.bufs, 1, n) = io.bufs
      OBVIOUS
    <3>2. Range(SubSeq(io.bufs, n + 1, n)) = {}
      BY DEF Range
    <3>3. n \in 0..n
      OBVIOUS
    <3> QED BY <1>12, <3>1, <3>2, <3>3 DEF Complete
  <2>7. wire' = wire \o SubSeq(q, 1, k)
    <3>1. SubSeq(q, 1, k) = SubSeq(io.bufs, 1, k)
      BY <2>1, FrontOfConcat
    <3> QED BY <2>6, <3>1
  <2>8. dropped' = dropped \cup Range(SubSeq(q, k + 1, n))
    <3>1. SubSeq(q, k + 1, n) = SubSeq(io.bufs, k + 1, n)
      <4> HIDE DEF q, n
      <4>1. q = io.bufs \o sendQueue /\ n = Len(io.bufs)
        BY <2>1 DEF q, n
      <4>2. k \in 0..Len(io.bufs)
        BY <4>1
      <4>3. SubSeq(io.bufs \o sendQueue, k + 1, Len(io.bufs))
              = SubSeq(io.bufs, k + 1, Len(io.bufs))
        BY ONLY <1>t, <4>2, PartOfConcat
      <4> QED BY <4>1, <4>3
    <3> QED BY <2>6, <3>1
  <2>9. Channel!Remove(n, k)
    BY <1>12, <2>5, <2>7 DEF Complete, Channel!Remove
  <2> QED BY <2>3, <2>8, <2>9 DEF Transmit
<1>13. ASSUME UNCHANGED vars PROVE Stutter
  BY <1>13 DEF vars, Unsent, Stutter
<1> QED
  BY <1>1, <1>2, <1>3, <1>4, <1>5, <1>6, <1>7, <1>8, <1>9, <1>10,
     <1>11, <1>12, <1>13 DEF Next, Step, Quiescent

\* Each of the three is a step of the channel or leaves it as it is.
LEMMA NextRefines ==
  IInv /\ QueueInv /\ [Next]_vars => [Channel!Next]_(Channel!chanVars)
<1>1. Stutter => UNCHANGED Channel!chanVars
  BY DEF Stutter, Channel!chanVars
<1>2. Accept => Channel!Next
  BY DEF Accept, Channel!Next
<1>3. Transmit => Channel!Next
  BY DEF Transmit, Channel!Next, Channel!Transmit
<1> QED BY <1>1, <1>2, <1>3, NextIsChannelStep

(* The send path implements the FIFO channel: no buffer is transmitted twice *)
(* or out of order, and none but the front of the queue is ever lost.        *)
THEOREM Refinement == Spec => ImplementsChannel
<1>1. Spec => []QueueInv
  BY InitQueueInv, NextQueueInv, Invariance, PTL DEF Spec
<1> QED
  BY <1>1, Invariance, InitRefines, NextRefines, PTL
  DEF Spec, ImplementsChannel, Channel!Spec

-----------------------------------------------------------------------------
(* NothingOvertaken is not inductive: that what comes next is in order has *)
(* to be known of the queue.  The queue q holds consecutive numbers up to  *)
(* the last one; what is before them is on the wire w, in order, or in the *)
(* set d of those dropped.                                                 *)
Order(q, last, w, d) ==
  LET out == last - Len(q) IN
  /\ out \in Nat
  /\ \A i \in 1..Len(q) : q[i] = out + i
  /\ \A i \in 1..Len(w) : w[i] \in 1..out
  /\ \A i, j \in 1..Len(w) : j < i => w[j] < w[i]
  /\ \A b \in 1..out : b \in d \/ \E j \in 1..Len(w) : w[j] = b

OrderInv == Order(Unsent \o sendQueue, pushed, wire, dropped)

\* Order is kept when one more buffer is accepted.
LEMMA AcceptKeepsOrder ==
  ASSUME NEW q \in Seq(Nat), NEW last \in Nat, NEW w \in Seq(Nat), NEW d,
         Order(q, last, w, d)
  PROVE  Order(Append(q, last + 1), last + 1, w, d)
<1> DEFINE out == last - Len(q)
           r == Append(q, last + 1)
<1>1. Len(r) = Len(q) + 1
  OBVIOUS
<1>2. last + 1 - Len(r) = out
  BY <1>1
<1>3. /\ \A i \in 1..Len(q) : r[i] = q[i]
      /\ r[Len(q) + 1] = last + 1
  OBVIOUS
<1>4. out \in Nat /\ \A i \in 1..Len(q) : q[i] = out + i
  BY DEF Order
<1>5. out + (Len(q) + 1) = last + 1
  OBVIOUS
<1> HIDE DEF r, out
<1>6. ASSUME NEW i \in 1..Len(r) PROVE r[i] = out + i
  <2>1. i \in 1..Len(q) \/ i = Len(q) + 1
    BY <1>1
  <2> QED BY <1>3, <1>4, <1>5, <2>1
<1>7. /\ \A i \in 1..Len(w) : w[i] \in 1..out
      /\ \A i, j \in 1..Len(w) : j < i => w[j] < w[i]
      /\ \A b \in 1..out : b \in d \/ \E j \in 1..Len(w) : w[j] = b
  BY DEF Order, out
<1> HIDE DEF Order
<1>8. /\ last + 1 - Len(r) \in Nat
      /\ \A i \in 1..Len(r) : r[i] = (last + 1 - Len(r)) + i
      /\ \A i \in 1..Len(w) : w[i] \in 1..(last + 1 - Len(r))
      /\ \A b \in 1..(last + 1 - Len(r)) :
           b \in d \/ \E j \in 1..Len(w) : w[j] = b
  BY <1>2, <1>4, <1>6, <1>7
<1> QED BY <1>7, <1>8 DEF Order, r

\* What is left of the first n elements without the first k, by position.
LEMMA RestIsShifted ==
  ASSUME NEW q \in Seq(Nat), NEW n \in 0..Len(q), NEW k \in 0..n
  PROVE  /\ Len(SubSeq(q, k + 1, n)) = n - k
         /\ \A m \in 1..(n - k) : SubSeq(q, k + 1, n)[m] = q[k + m]
<1>1. (k + 1)..n \subseteq DOMAIN q /\ k \in Nat /\ n \in Nat
  OBVIOUS
<1>2. CASE k = n
  BY <1>1, <1>2
<1>3. CASE k < n
  BY <1>1, <1>3
<1> QED BY <1>1, <1>2, <1>3

\* Order is kept when the front of the queue is transmitted or dropped.
LEMMA RemoveKeepsOrder ==
  ASSUME NEW q \in Seq(Nat), NEW last \in Nat, NEW w \in Seq(Nat), NEW d,
         Order(q, last, w, d),
         NEW n \in 1..Len(q), NEW k \in 0..n
  PROVE  Order(SubSeq(q, n + 1, Len(q)), last, w \o SubSeq(q, 1, k),
               d \cup Range(SubSeq(q, k + 1, n)))
<1> DEFINE out == last - Len(q)
           r == SubSeq(q, n + 1, Len(q))
           s == SubSeq(q, 1, k)
           v == w \o s
           e == d \cup Range(SubSeq(q, k + 1, n))
<1>o. /\ out \in Nat
      /\ \A i \in 1..Len(q) : q[i] = out + i
      /\ \A i \in 1..Len(w) : w[i] \in 1..out
      /\ \A i, j \in 1..Len(w) : j < i => w[j] < w[i]
      /\ \A b \in 1..out : b \in d \/ \E j \in 1..Len(w) : w[j] = b
  BY DEF Order
<1>r. /\ Len(r) = Len(q) - n
      /\ \A i \in 1..Len(r) : r[i] = q[n + i]
  OBVIOUS
<1>q. Len(q) \in Nat /\ Len(w) \in Nat /\ n \in Nat /\ k \in Nat
  OBVIOUS
<1>1. last - Len(r) = out + n
  <2> HIDE DEF r
  <2> QED BY <1>q, <1>r
<1>2. \A i \in 1..Len(r) : r[i] = out + n + i
  BY <1>o, <1>r
<1>s. s \in Seq(Nat) /\ Len(s) = k /\ \A i \in 1..k : s[i] = q[i]
  OBVIOUS
<1>v. /\ Len(v) = Len(w) + k
      /\ \A i \in 1..Len(w) : v[i] = w[i]
      /\ \A i \in 1..k : v[Len(w) + i] = out + i
  BY <1>o, <1>s
<1> HIDE DEF r, s, v, out
<1>3. \A i \in 1..Len(v) :
        \/ i \in 1..Len(w) /\ v[i] = w[i]
        \/ i - Len(w) \in 1..k /\ v[i] = out + (i - Len(w))
  <2> TAKE i \in 1..Len(v)
  <2>1. CASE i <= Len(w)
    BY <1>q, <1>v, <2>1
  <2>2. CASE i > Len(w)
    <3>1. i - Len(w) \in 1..k /\ Len(w) + (i - Len(w)) = i
      BY <1>q, <1>v, <2>2
    <3>2. v[Len(w) + (i - Len(w))] = out + (i - Len(w))
      BY <1>v, <3>1
    <3> QED BY <3>1, <3>2
  <2> QED BY <1>q, <1>v, <2>1, <2>2
<1>4. \A i \in 1..Len(v) : v[i] \in 1..(out + n)
  <2> TAKE i \in 1..Len(v)
  <2>1. CASE i \in 1..Len(w) /\ v[i] = w[i]
    BY <1>q, <1>o, <2>1
  <2>2. CASE i - Len(w) \in 1..k /\ v[i] = out + (i - Len(w))
    BY <1>q, <1>o, <2>2
  <2> QED BY <1>3, <2>1, <2>2
<1>5. \A i, j \in 1..Len(v) : j < i => v[j] < v[i]
  <2> SUFFICES ASSUME NEW i \in 1..Len(v), NEW j \in 1..Len(v), j < i
               PROVE  v[j] < v[i]
    OBVIOUS
  <2>1. CASE i \in 1..Len(w)
    <3>1. j \in 1..Len(w) /\ v[i] = w[i] /\ v[j] = w[j]
      BY <1>q, <1>v, <2>1
    <3> QED BY <1>o, <2>1, <3>1
  <2>2. CASE i - Len(w) \in 1..k /\ v[i] = out + (i - Len(w))
    <3>1. v[j] \in 1..out \/ v[j] = out + (j - Len(w))
      BY <1>o, <1>3
    <3> QED BY <1>q, <1>o, <2>2, <3>1
  <2> QED BY <1>3, <2>1, <2>2
<1>6. ASSUME NEW b \in 1..(out + n)
      PROVE  b \in e \/ \E j \in 1..Len(v) : v[j] = b
  <2>1. CASE b \in 1..out
    <3>1. CASE b \in d
      BY <3>1
    <3>2. ASSUME NEW j \in 1..Len(w), w[j] = b
          PROVE  \E m \in 1..Len(v) : v[m] = b
      BY <1>q, <1>v, <3>2
    <3> QED BY <1>o, <2>1, <3>1, <3>2
  <2>2. CASE b - out \in 1..k
    <3>1. Len(w) + (b - out) \in 1..Len(v)
      BY <1>q, <1>o, <1>v, <2>2
    <3>2. v[Len(w) + (b - out)] = out + (b - out)
      BY <1>v, <2>2
    <3>3. out + (b - out) = b
      BY <1>o
    <3> QED BY <3>1, <3>2, <3>3
  <2>3. CASE b - out \in (k + 1)..n
    <3> DEFINE t == SubSeq(q, k + 1, n)
               i == b - out - k
    <3>1. Len(t) = n - k /\ \A m \in 1..(n - k) : t[m] = q[k + m]
      <4>1. n \in 0..Len(q) /\ k \in 0..n
        OBVIOUS
      <4> QED BY ONLY <4>1, RestIsShifted DEF t
    <3>2. i \in 1..(n - k) /\ k + i \in 1..Len(q) /\ out + (k + i) = b
      BY <1>o, <2>3
    <3>3. t[i] = b
      BY <1>o, <3>1, <3>2
    <3>4. i \in DOMAIN t
      BY <3>1, <3>2
    <3> QED BY <3>3, <3>4 DEF Range
  <2> QED BY <1>o, <2>1, <2>2, <2>3
<1>7. out + n \in Nat
  BY <1>o
<1> QED BY <1>1, <1>2, <1>4, <1>5, <1>6, <1>7 DEF Order, r, v, s, out

\* OrderInv holds initially.
LEMMA InitOrderInv == Init => OrderInv
<1> SUFFICES ASSUME Init PROVE OrderInv
  OBVIOUS
<1>1. Unsent \o sendQueue = <<>>
  BY DEF Init, Unsent, NoIo, Registering
<1> QED BY <1>1 DEF Init, OrderInv, Order

\* Every step keeps OrderInv.
LEMMA NextOrderInv ==
  IInv /\ QueueInv /\ OrderInv /\ [Next]_vars => OrderInv'
<1> SUFFICES ASSUME IInv, QueueInv, OrderInv, [Next]_vars PROVE OrderInv'
  OBVIOUS
<1> DEFINE q == Unsent \o sendQueue
<1>t. q \in Seq(Nat) /\ wire \in Seq(Nat) /\ pushed \in Nat
  BY SendAssumption DEF IInv, TypeOK, Unsent
<1>o. Order(q, pushed, wire, dropped)
  BY DEF OrderInv
<1>1. CASE Stutter
  BY <1>1 DEF Stutter, OrderInv
<1>2. CASE Accept
  <2>1. /\ q' = Append(q, pushed + 1) /\ pushed' = pushed + 1
        /\ wire' = wire /\ dropped' = dropped
    BY <1>2 DEF Accept, Channel!Accept
  <2> HIDE DEF q
  <2>2. Order(q', pushed', wire', dropped')
    BY <1>t, <1>o, <2>1, AcceptKeepsOrder
  <2> QED BY <2>2 DEF OrderInv, q
<1>3. CASE Transmit
  <2>1. PICK n \in 1..Len(q) : \E k \in 0..n :
          /\ Channel!Remove(n, k)
          /\ dropped' = dropped \cup Range(SubSeq(q, k + 1, n))
    BY <1>3 DEF Transmit
  <2>k. PICK k \in 0..n :
          /\ Channel!Remove(n, k)
          /\ dropped' = dropped \cup Range(SubSeq(q, k + 1, n))
    BY <2>1
  <2>2. /\ q' = SubSeq(q, n + 1, Len(q)) /\ pushed' = pushed
        /\ wire' = wire \o SubSeq(q, 1, k)
    BY <2>k DEF Channel!Remove
  <2> HIDE DEF q
  <2>3. Order(q', pushed', wire', dropped')
    BY <1>t, <1>o, <2>k, <2>2, RemoveKeepsOrder
  <2> QED BY <2>3 DEF OrderInv, q
<1> QED BY <1>1, <1>2, <1>3, NextIsChannelStep

(* Whatever sends are refused or break off, the peer gets the buffers in   *)
(* the order in which Send took them, and misses none but dropped ones.    *)
THEOREM InOrder == Spec => []NothingOvertaken
<1>1. Spec => []QueueInv
  BY InitQueueInv, NextQueueInv, Invariance, PTL DEF Spec
<1>2. Spec => []OrderInv
  BY <1>1, InitOrderInv, NextOrderInv, Invariance, PTL DEF Spec
<1>3. IInv /\ OrderInv => NothingOvertaken
  <2> SUFFICES ASSUME IInv, OrderInv, NEW i \in 1..Len(wire)
               PROVE  /\ wire[i] \in Buffers
                      /\ \A b \in 1..(wire[i] - 1) :
                           b \in dropped \/ \E j \in 1..(i - 1) : wire[j] = b
                      /\ \A j \in 1..(i - 1) : wire[j] < wire[i]
    BY DEF NothingOvertaken
  <2> DEFINE out == pushed - Len(Unsent \o sendQueue)
  <2>t. wire \in Seq(Nat) /\ pushed \in Nat /\ Unsent \o sendQueue \in Seq(Nat)
    BY SendAssumption DEF IInv, TypeOK, Unsent
  <2>o. /\ out \in Nat
        /\ \A m \in 1..Len(wire) : wire[m] \in 1..out
        /\ \A m, j \in 1..Len(wire) : j < m => wire[j] < wire[m]
        /\ \A b \in 1..out : b \in dropped \/ \E j \in 1..Len(wire) : wire[j] = b
    BY DEF OrderInv, Order
  <2>1. out <= pushed
    BY <2>t
  <2> HIDE DEF out
  <2>2. wire[i] \in Buffers
    BY <2>t, <2>o, <2>1 DEF Buffers
  <2>3. \A j \in 1..(i - 1) : wire[j] < wire[i]
    BY <2>t, <2>o
  <2>4. ASSUME NEW b \in 1..(wire[i] - 1), b \notin dropped
        PROVE  \E j \in 1..(i - 1) : wire[j] = b
    <3>1. PICK j \in 1..Len(wire) : wire[j] = b
      BY <2>t, <2>o, <2>4
    <3>2. ~(i < j) /\ i # j
      BY <2>t, <2>o, <3>1
    <3> QED BY <2>t, <3>1, <3>2
  <2> QED BY <2>2, <2>3, <2>4
<1> QED BY <1>2, <1>3, Invariance, PTL

=============================================================================
