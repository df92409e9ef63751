---------------------------- MODULE SessionSend ----------------------------
(***************************************************************************)
(* The send path of one connected Session (ServerCore/Session.cpp): Send,  *)
(* RegisterSend, ProcessSend, HandleError and Disconnect, run by the       *)
(* threads of the server, and the one overlapped WSASend of _sendEvent,    *)
(* run by the operating system.                                            *)
(*                                                                         *)
(* Threads are interchangeable: a worker calls Send from a packet handler  *)
(* (for its own session or, through a broadcast, for another's) and also   *)
(* serves the completion of a WSASend.  An action is the code between two  *)
(* points at which another thread, or the kernel, can see or change the    *)
(* state; "pc" names the next one.  SendBuffers are numbered in the order  *)
(* in which Send pushes them.                                              *)
(***************************************************************************)
EXTENDS Naturals, Sequences, Functions

CONSTANTS
  Threads,    \* threads that call Send or serve completions
  NoThread,   \* the mutex is free
  MaxSends    \* bound: calls of Send

ASSUME SendAssumption ==
  /\ NoThread \notin Threads
  /\ MaxSends \in Nat

VARIABLES
  connected,        \* _connected
  lock,             \* holder of _locks[0], the mutex of WRITE_LOCK
  sendQueue,        \* _sendQueue
  sendRegistered,   \* _sendRegistered
  sendEvent,        \* _sendEvent: owner set or not, and its sendBuffers
  disconnectEvent,  \* _disconnectEvent.owner is set: a DisconnectEx is out
  io,               \* the kernel's side of _sendEvent (OVERLAPPED)
  pc,               \* where each thread is
  numOfBytes,       \* the argument of ProcessSend: 0, or 1 for a full send
  pushed,           \* history: number of buffers Send has accepted
  wire,             \* history: buffers transmitted to the peer, in order
  dropped           \* history: buffers released without being transmitted

vars == <<connected, lock, sendQueue, sendRegistered, sendEvent,
          disconnectEvent, io, pc, numOfBytes, pushed, wire, dropped>>

\* Between WRITE_LOCK and the end of its scope, in RegisterSend.
Registering == {"RegisterSend", "WSASend", "HandleError", "SendFailed"}
\* In ProcessSend, before its WRITE_LOCK.
Processing  == {"ProcessSend", "Send0", "ProcessSendLock"}
Labels      == {"idle", "unlock"} \cup Registering \cup Processing

Released == [owner |-> FALSE, sendBuffers |-> <<>>]
NoIo     == [state |-> "none", bufs |-> <<>>, bytes |-> 0]

Goto(t, label) == pc' = [pc EXCEPT ![t] = label]

Init ==
  /\ connected = TRUE
  /\ lock = NoThread
  /\ sendQueue = <<>>
  /\ sendRegistered = FALSE
  /\ sendEvent = Released
  /\ disconnectEvent = FALSE
  /\ io = NoIo
  /\ pc = [t \in Threads |-> "idle"]
  /\ numOfBytes = [t \in Threads |-> 0]
  /\ pushed = 0
  /\ wire = <<>>
  /\ dropped = {}

-----------------------------------------------------------------------------
(* Session::Disconnect: whoever turns _connected off registers the         *)
(* DisconnectEx, which may be refused at once.                             *)
Disconnect ==
  /\ connected' = FALSE
  /\ IF connected
       THEN disconnectEvent' \in BOOLEAN
       ELSE UNCHANGED disconnectEvent

(* Another handler of this session disconnects it: ProcessRecv after a     *)
(* zero-length or unusable read, or HandleError after a failed WSARecv.    *)
OtherDisconnect(t) ==
  /\ pc[t] = "idle"
  /\ connected
  /\ Disconnect
  /\ UNCHANGED <<lock, sendQueue, sendRegistered, sendEvent, io, pc,
                 numOfBytes, pushed, wire, dropped>>

-----------------------------------------------------------------------------
\* Mutant of Send: RegisterSend without testing what exchange returned.
SendIgnoresExchange(t) ==
  /\ pc[t] = "idle"
  /\ lock = NoThread
  /\ pushed < MaxSends
  /\ lock' = t
  /\ pushed' = pushed + 1
  /\ sendQueue' = Append(sendQueue, pushed + 1)
  /\ sendRegistered' = TRUE
  /\ Goto(t, "RegisterSend")
  /\ UNCHANGED <<connected, sendEvent, disconnectEvent, io, numOfBytes,
                 wire, dropped>>

(* Session::Send: lock, push, _sendRegistered.exchange(true).              *)
Send(t) ==
  /\ pc[t] = "idle"
  /\ lock = NoThread
  /\ pushed < MaxSends
  /\ lock' = t
  /\ pushed' = pushed + 1
  /\ sendQueue' = Append(sendQueue, pushed + 1)
  /\ sendRegistered' = TRUE
  /\ Goto(t, IF sendRegistered THEN "unlock" ELSE "RegisterSend")
  /\ UNCHANGED <<connected, sendEvent, disconnectEvent, io, numOfBytes,
                 wire, dropped>>

(* Session::RegisterSend up to the WSASend: give up when disconnected,     *)
(* otherwise move the whole queue behind what _sendEvent holds.            *)
RegisterSend(t) ==
  /\ pc[t] = "RegisterSend"
  /\ IF connected
       THEN /\ sendEvent' =
                 [owner |-> TRUE,
                  sendBuffers |-> sendEvent.sendBuffers \o sendQueue]
            /\ sendQueue' = <<>>
            /\ Goto(t, "WSASend")
       ELSE /\ Goto(t, "unlock")
            /\ UNCHANGED <<sendEvent, sendQueue>>
  /\ UNCHANGED <<connected, lock, sendRegistered, disconnectEvent, io,
                 numOfBytes, pushed, wire, dropped>>

\* Mutant of WSASend: WSA_IO_PENDING is handled like an error.
WSASendPendingIsError(t) ==
  /\ pc[t] = "WSASend"
  /\ io' = [state |-> "pending", bufs |-> sendEvent.sendBuffers, bytes |-> 0]
  /\ \E label \in {"HandleError", "SendFailed"} : Goto(t, label)
  /\ UNCHANGED <<connected, lock, sendQueue, sendRegistered, sendEvent,
                 disconnectEvent, numOfBytes, pushed, wire, dropped>>

(* ::WSASend takes the buffers (at once or WSA_IO_PENDING: a completion    *)
(* follows either way) or refuses them, with an error code that            *)
(* HandleError treats as a lost connection or only logs.                   *)
WSASend(t) ==
  /\ pc[t] = "WSASend"
  /\ \/ /\ io' = [state |-> "pending", bufs |-> sendEvent.sendBuffers,
                  bytes |-> 0]
        /\ Goto(t, "unlock")
     \/ /\ \E label \in {"HandleError", "SendFailed"} : Goto(t, label)
        /\ UNCHANGED io
  /\ UNCHANGED <<connected, lock, sendQueue, sendRegistered, sendEvent,
                 disconnectEvent, numOfBytes, pushed, wire, dropped>>

(* Session::HandleError for WSAECONNRESET and WSAECONNABORTED.             *)
HandleError(t) ==
  /\ pc[t] = "HandleError"
  /\ Disconnect
  /\ Goto(t, "SendFailed")
  /\ UNCHANGED <<lock, sendQueue, sendRegistered, sendEvent, io, numOfBytes,
                 pushed, wire, dropped>>

\* Mutant of SendFailed: sendBuffers.clear() is forgotten.
SendFailedKeepsBuffers(t) ==
  /\ pc[t] = "SendFailed"
  /\ sendEvent' = [sendEvent EXCEPT !.owner = FALSE]
  /\ dropped' = dropped \cup Range(sendEvent.sendBuffers)
  /\ sendRegistered' = FALSE
  /\ Goto(t, "unlock")
  /\ UNCHANGED <<connected, lock, sendQueue, disconnectEvent, io, numOfBytes,
                 pushed, wire>>

\* Mutant of SendFailed: _sendRegistered.store(false) is forgotten.
SendFailedKeepsRight(t) ==
  /\ pc[t] = "SendFailed"
  /\ sendEvent' = Released
  /\ dropped' = dropped \cup Range(sendEvent.sendBuffers)
  /\ Goto(t, "unlock")
  /\ UNCHANGED <<connected, lock, sendQueue, sendRegistered, disconnectEvent,
                 io, numOfBytes, pushed, wire>>

(* The rest of RegisterSend's error branch.                                *)
SendFailed(t) ==
  /\ pc[t] = "SendFailed"
  /\ sendEvent' = Released
  /\ dropped' = dropped \cup Range(sendEvent.sendBuffers)
  /\ sendRegistered' = FALSE
  /\ Goto(t, "unlock")
  /\ UNCHANGED <<connected, lock, sendQueue, disconnectEvent, io, numOfBytes,
                 pushed, wire>>

(* The end of the scope that holds the lock_guard.                         *)
Unlock(t) ==
  /\ pc[t] = "unlock"
  /\ lock' = NoThread
  /\ Goto(t, "idle")
  /\ UNCHANGED <<connected, sendQueue, sendRegistered, sendEvent,
                 disconnectEvent, io, numOfBytes, pushed, wire, dropped>>

-----------------------------------------------------------------------------
(* The kernel finishes the outstanding WSASend: all of it is transmitted,  *)
(* or the connection breaks after the first k buffers and the completion   *)
(* reports no bytes.                                                       *)
Complete ==
  /\ io.state = "pending"
  /\ \/ /\ wire' = wire \o io.bufs
        /\ io' = [state |-> "posted", bufs |-> <<>>, bytes |-> 1]
        /\ UNCHANGED dropped
     \/ \E k \in 0..Len(io.bufs) :
          /\ wire' = wire \o SubSeq(io.bufs, 1, k)
          /\ dropped' = dropped \cup
                        Range(SubSeq(io.bufs, k + 1, Len(io.bufs)))
          /\ io' = [state |-> "posted", bufs |-> <<>>, bytes |-> 0]
  /\ UNCHANGED <<connected, lock, sendQueue, sendRegistered, sendEvent,
                 disconnectEvent, pc, numOfBytes, pushed>>

(* IocpCore::Dispatch dequeues the completion, successful or not, and      *)
(* Session::Dispatch enters ProcessSend.                                   *)
Dispatch(t) ==
  /\ pc[t] = "idle"
  /\ io.state = "posted"
  /\ numOfBytes' = [numOfBytes EXCEPT ![t] = io.bytes]
  /\ io' = NoIo
  /\ Goto(t, "ProcessSend")
  /\ UNCHANGED <<connected, lock, sendQueue, sendRegistered, sendEvent,
                 disconnectEvent, pushed, wire, dropped>>

\* Mutant of ProcessSend: sendBuffers.clear() is forgotten.
ProcessSendKeepsBuffers(t) ==
  /\ pc[t] = "ProcessSend"
  /\ sendEvent' = [sendEvent EXCEPT !.owner = FALSE]
  /\ Goto(t, IF numOfBytes[t] = 0 THEN "Send0" ELSE "ProcessSendLock")
  /\ numOfBytes' = [numOfBytes EXCEPT ![t] = 0]
  /\ UNCHANGED <<connected, lock, sendQueue, sendRegistered, disconnectEvent,
                 io, pushed, wire, dropped>>

(* Session::ProcessSend releases the event without holding the lock.       *)
ProcessSend(t) ==
  /\ pc[t] = "ProcessSend"
  /\ sendEvent' = Released
  /\ Goto(t, IF numOfBytes[t] = 0 THEN "Send0" ELSE "ProcessSendLock")
  /\ numOfBytes' = [numOfBytes EXCEPT ![t] = 0]
  /\ UNCHANGED <<connected, lock, sendQueue, sendRegistered, disconnectEvent,
                 io, pushed, wire, dropped>>

(* ProcessSend(0): Disconnect("Send 0") and return.                        *)
Send0(t) ==
  /\ pc[t] = "Send0"
  /\ Disconnect
  /\ Goto(t, "idle")
  /\ UNCHANGED <<lock, sendQueue, sendRegistered, sendEvent, io, numOfBytes,
                 pushed, wire, dropped>>

\* Mutant of ProcessSendLock: _sendRegistered.store(false) without asking
\* whether the queue is empty.
ProcessSendLockNoTest(t) ==
  /\ pc[t] = "ProcessSendLock"
  /\ lock = NoThread
  /\ lock' = t
  /\ sendRegistered' = FALSE
  /\ Goto(t, "unlock")
  /\ UNCHANGED <<connected, sendQueue, sendEvent, disconnectEvent, io,
                 numOfBytes, pushed, wire, dropped>>

(* The locked end of ProcessSend: give the send right back, or use it for  *)
(* what was queued meanwhile.                                              *)
ProcessSendLock(t) ==
  /\ pc[t] = "ProcessSendLock"
  /\ lock = NoThread
  /\ lock' = t
  /\ IF sendQueue = <<>>
       THEN sendRegistered' = FALSE /\ Goto(t, "unlock")
       ELSE UNCHANGED sendRegistered /\ Goto(t, "RegisterSend")
  /\ UNCHANGED <<connected, sendQueue, sendEvent, disconnectEvent, io,
                 numOfBytes, pushed, wire, dropped>>

-----------------------------------------------------------------------------
\* What a thread does once it has started, until it is idle again.
Step(t) ==
  \/ RegisterSend(t) \/ WSASend(t) \/ HandleError(t) \/ SendFailed(t)
  \/ Unlock(t)
  \/ ProcessSend(t) \/ Send0(t) \/ ProcessSendLock(t)

\* Every thread waits for work and none is left: the model's calls are used
\* up.  It lets TLC tell this rest from a deadlock.
Quiescent ==
  /\ pushed = MaxSends /\ io = NoIo
  /\ \A t \in Threads : pc[t] = "idle"
  /\ UNCHANGED vars

Next ==
  \/ \E t \in Threads :
       Send(t) \/ OtherDisconnect(t) \/ Dispatch(t) \/ Step(t)
  \/ Complete
  \/ Quiescent

\* Threads keep running, the kernel finishes what it accepted, and some
\* worker returns to GetQueuedCompletionStatus.
Fairness ==
  /\ \A t \in Threads : WF_vars(Step(t))
  /\ WF_vars(Complete)
  /\ WF_vars(\E t \in Threads : Dispatch(t))

Spec == Init /\ [][Next]_vars

FairSpec == Spec /\ Fairness

-----------------------------------------------------------------------------
Buffers == 1..pushed

(* The types; and buffers are only in an event that is in use: whoever     *)
(* gives up the owner gives up the buffers, too (Session.cpp:153-194,      *)
(* 258-259).                                                               *)
TypeOK ==
  /\ connected \in BOOLEAN
  /\ lock \in Threads \cup {NoThread}
  /\ sendQueue \in Seq(Nat)
  /\ sendRegistered \in BOOLEAN
  /\ sendEvent \in [owner : BOOLEAN, sendBuffers : Seq(Nat)]
  /\ sendEvent.sendBuffers # <<>> => sendEvent.owner
  /\ disconnectEvent \in BOOLEAN
  /\ io \in [state : {"none", "pending", "posted"}, bufs : Seq(Nat),
             bytes : {0, 1}]
  /\ io.bufs # <<>> => io.state = "pending"
  /\ pc \in [Threads -> Labels]
  /\ numOfBytes \in [Threads -> {0, 1}]
  /\ pushed \in 0..MaxSends
  /\ wire \in Seq(Nat)
  /\ dropped \subseteq Nat

\* The one who may touch _sendEvent: a thread in RegisterSend or in the
\* unlocked part of ProcessSend, or the kernel.
InSend == {t \in Threads : pc[t] \in Registering \cup Processing}

(* One overlapped structure serves every send of the session, and          *)
(* ProcessSend writes it without the lock.  _sendRegistered must therefore *)
(* act as a token: no two threads are in RegisterSend or ProcessSend, and  *)
(* none is while a WSASend is outstanding (Session.cpp:67, 193, 258, 273). *)
ExclusiveSendEvent ==
  /\ \A t, u \in InSend : t = u
  /\ io.state # "none" => InSend = {}

(* The WSABUFs the kernel reads point into the SendBuffers, which only     *)
(* _sendEvent.sendBuffers keeps alive, and the completion reaches the      *)
(* Session only through _sendEvent.owner: neither changes before the       *)
(* completion is served (Session.cpp:153-184, 258-259).                    *)
BuffersPinned ==
  /\ io.state = "pending" => sendEvent.sendBuffers = io.bufs
  /\ io.state # "none" => sendEvent.owner

(* No lost wakeup: while the session is connected, a queued buffer always  *)
(* has someone who will call RegisterSend for it.  ProcessSend's emptiness *)
(* test and Send's exchange race for this (Session.cpp:63-71, 270-275).    *)
NoStrandedBuffer ==
  connected /\ sendQueue # <<>> => InSend # {} \/ io.state # "none"

(* First in, first out: a buffer is transmitted at most once and after     *)
(* every buffer pushed before it, except those that a failed WSASend has   *)
(* dropped (Session.cpp:63, 161-170, 185-194).                             *)
NothingOvertaken ==
  \A i \in 1..Len(wire) :
    /\ wire[i] \in Buffers
    /\ \A b \in 1..(wire[i] - 1) :
         b \in dropped \/ \E j \in 1..(i - 1) : wire[j] = b
    /\ \A j \in 1..(i - 1) : wire[j] < wire[i]

(* Every buffer accepted by Send is transmitted, or dropped by a failed    *)
(* WSASend, unless the session is disconnected first.                      *)
EventuallySent ==
  \A b \in 1..MaxSends :
    b <= pushed ~> (b \in Range(wire) \cup dropped \/ ~connected)

-----------------------------------------------------------------------------
\* Buffers that have left _sendQueue and are not yet transmitted or dropped.
Unsent ==
  IF io.state = "pending" THEN io.bufs
  ELSE IF \E t \in Threads : pc[t] \in Registering \ {"RegisterSend"}
    THEN sendEvent.sendBuffers
    ELSE <<>>

Channel == INSTANCE SendChannel WITH
  accepted <- pushed, queue <- Unsent \o sendQueue, sent <- wire

(* The locks, the flag, the event and the kernel together implement the    *)
(* FIFO channel: each Send is one atomic append to it.                     *)
ImplementsChannel == Channel!Spec
=============================================================================
