---------------------------- MODULE ChatDelivery ----------------------------
(***************************************************************************)
(* GameRoom and SessionSend together: worker threads take packets of the   *)
(* clients and completions of WSASend from one port, and hold the room's   *)
(* lock (GameServer/Room.cpp) while they take the lock of one session      *)
(* after the other to send to it (ServerCore/Session.cpp).  A chat is      *)
(* followed from its handler to the wire of every member.                  *)
(*                                                                         *)
(* A member is the id of a player, and stands for its session too, which   *)
(* has one player in the room.  What happens between two changes of a lock *)
(* is one step; SessionSend has the steps in between.                      *)
(***************************************************************************)
EXTENDS Naturals, Sequences, FiniteSets

CONSTANTS
  Threads,    \* worker threads
  Members,    \* ids of the players, which are numbers from 1
  NoThread,   \* nobody holds the lock
  MaxChats,   \* bound: chats that the clients say
  MaxFaults   \* bound: sends that fail and peers that go

ASSUME DeliveryAssumption ==
  /\ NoThread \notin Threads
  /\ Members \subseteq Nat \ {0} /\ IsFiniteSet(Members)
  /\ MaxChats \in Nat /\ MaxFaults \in Nat

RoomLock == 0
Locks == Members \cup {RoomLock}

VARIABLES
  room,      \* Room::_players
  holder,    \* who holds the room's lock and the sessions'
  session,   \* per session, the state of its send path
  worker,    \* per thread, what it does: see Idle
  said,      \* number of chats that handlers have begun with
  log,       \* history: the chats in the order of their broadcasts
  since,     \* history: length of the log when a member entered
  wire,      \* history: what the peer of each session has been sent
  lost,      \* history: what was given up when a WSASend failed
  faults     \* bound: failures so far

histVars == <<log, since, wire, lost>>
vars == <<room, holder, session, worker, said, histVars, faults>>

\* S_ENTER_GAME of s is <<s, 0>>; a chat of s is <<s, k>>, the k-th of all.
Packets == Members \X (0..MaxChats)

(* A thread's locals: the session whose packet it handles, the packet it   *)
(* sends, the members it has still to send to, and the session in whose    *)
(* send path it is.                                                        *)
Idle == [pc |-> "idle", by |-> 0, packet |-> <<>>, todo |-> {}, to |-> 0]

Init ==
  /\ room = {}
  /\ holder = [l \in Locks |-> NoThread]
  /\ session = [s \in Members |->
       [connected |-> TRUE, sendRegistered |-> FALSE, sendQueue |-> <<>>,
        sendEvent |-> <<>>, io |-> FALSE]]
  /\ worker = [t \in Threads |-> Idle]
  /\ log = <<>> /\ since = [s \in Members |-> 0]
  /\ wire = [s \in Members |-> <<>>] /\ lost = [s \in Members |-> <<>>]
  /\ said = 0 /\ faults = 0

\* A send fails or a peer goes.
Fault == faults < MaxFaults /\ faults' = faults + 1

-----------------------------------------------------------------------------
(* A worker dequeues a receive of s; a session has one at a time.          *)
HandlePacket(t, s, label, k) ==
  /\ worker[t] = Idle /\ \A u \in Threads : worker[u].by # s
  /\ worker' = [worker EXCEPT ![t] =
                  [Idle EXCEPT !.pc = label, !.by = s, !.packet = <<s, k>>]]

(* Handle_C_ENTER_GAME. *)
HandleEnterGame(t, s) ==
  /\ s \notin room
  /\ HandlePacket(t, s, "Enter", 0)
  /\ UNCHANGED <<room, holder, session, histVars, faults, said>>

(* Handle_C_CHAT: the handler does not ask whether s is in the room.       *)
HandleChat(t, s) ==
  /\ said < MaxChats /\ said' = said + 1
  /\ HandlePacket(t, s, "Broadcast", said + 1)
  /\ UNCHANGED <<room, holder, session, histVars, faults>>

(* The peer has gone: Disconnect("Recv 0"). *)
Recv0(t, s) ==
  /\ worker[t] = Idle /\ \A u \in Threads : worker[u].by # s
  /\ session[s].connected
  /\ session' = [session EXCEPT ![s].connected = FALSE]
  /\ Fault
  /\ UNCHANGED <<room, holder, worker, histVars, said>>

\* Thread t goes on to send its packet to the members of todo.
SendTo(t, todo) ==
  worker' = [worker EXCEPT ![t] = [@ EXCEPT !.pc = "Send", !.todo = todo]]

(* Room::Enter, and on to the Send of S_ENTER_GAME. *)
Enter(t) ==
  /\ worker[t].pc = "Enter" /\ holder[RoomLock] = NoThread
  /\ room' = room \cup {worker[t].by}
  /\ since' = [since EXCEPT ![worker[t].by] = Len(log)]
  /\ SendTo(t, {worker[t].by})
  /\ UNCHANGED <<holder, session, log, wire, lost, faults, said>>

\* Mutant of Broadcast: the room is not locked.
BroadcastNoLock(t) ==
  /\ worker[t].pc = "Broadcast"
  /\ log' = Append(log, worker[t].packet)
  /\ SendTo(t, room)
  /\ UNCHANGED <<room, holder, session, since, wire, lost, faults, said>>

(* Room::Broadcast has the lock and begins its loop. *)
Broadcast(t) ==
  /\ worker[t].pc = "Broadcast" /\ holder[RoomLock] = NoThread
  /\ holder' = [holder EXCEPT ![RoomLock] = t]
  /\ log' = Append(log, worker[t].packet)
  /\ SendTo(t, room)
  /\ UNCHANGED <<room, session, since, wire, lost, faults, said>>

\* The loop goes through the map in the order of the ids.
NextMember(t) ==
  CHOOSE s \in worker[t].todo : \A r \in worker[t].todo : s <= r

\* Mutant of Send: _sendRegistered is not asked.
SendAlwaysRegisters(t) ==
  LET s == NextMember(t) IN
  /\ worker[t].pc = "Send" /\ worker[t].todo # {} /\ holder[s] = NoThread
  /\ session' = [session EXCEPT ![s].sendQueue = Append(@, worker[t].packet),
                                ![s].sendRegistered = TRUE]
  /\ holder' = [holder EXCEPT ![s] = t]
  /\ worker' = [worker EXCEPT ![t] = [@ EXCEPT !.todo = @ \ {s},
                                        !.pc = "RegisterSend", !.to = s]]
  /\ UNCHANGED <<room, histVars, faults, said>>

(* Session::Send of the next member: push and exchange, under its lock,    *)
(* which is kept for RegisterSend.                                         *)
Send(t) ==
  LET s == NextMember(t) IN
  /\ worker[t].pc = "Send" /\ worker[t].todo # {} /\ holder[s] = NoThread
  /\ session' = [session EXCEPT ![s].sendQueue = Append(@, worker[t].packet),
                                ![s].sendRegistered = TRUE]
  /\ IF session[s].sendRegistered
       THEN SendTo(t, worker[t].todo \ {s}) /\ UNCHANGED holder
       ELSE /\ holder' = [holder EXCEPT ![s] = t]
            /\ worker' = [worker EXCEPT ![t].todo = @ \ {s},
                                        ![t].pc = "RegisterSend", ![t].to = s]
  /\ UNCHANGED <<room, histVars, faults, said>>

\* Mutant of EndSend: the room's lock is not given back.
EndSendKeepsLock(t) ==
  /\ worker[t].pc = "Send" /\ worker[t].todo = {}
  /\ worker' = [worker EXCEPT ![t] = Idle]
  /\ UNCHANGED <<room, holder, session, histVars, faults, said>>

(* The handler returns, and a broadcast gives the room's lock back. *)
EndSend(t) ==
  /\ worker[t].pc = "Send" /\ worker[t].todo = {}
  /\ holder' = [l \in Locks |-> IF holder[l] = t THEN NoThread ELSE holder[l]]
  /\ worker' = [worker EXCEPT ![t] = Idle]
  /\ UNCHANGED <<room, session, histVars, faults, said>>

-----------------------------------------------------------------------------
\* RegisterSend returns, and its caller gives the session's lock back.
ReturnFrom(t, s) ==
  /\ holder' = [holder EXCEPT ![s] = NoThread]
  /\ SendTo(t, worker[t].todo)

\* Mutant of SendRefused: _sendRegistered stays set.
SendRefusedKeepsRight(t) ==
  LET s == worker[t].to IN
  /\ worker[t].pc = "RegisterSend" /\ session[s].connected
  /\ \E connected \in BOOLEAN :
       session' = [session EXCEPT ![s].sendQueue = <<>>,
                                  ![s].connected = connected]
  /\ lost' = [lost EXCEPT ![s] = @ \o session[s].sendQueue]
  /\ ReturnFrom(t, s)
  /\ Fault
  /\ UNCHANGED <<room, log, since, wire, said>>

(* WSASend is refused: HandleError disconnects for a reset and only logs   *)
(* another error; the buffers are dropped and the send right given back.   *)
SendRefused(t) ==
  LET s == worker[t].to IN
  /\ worker[t].pc = "RegisterSend" /\ session[s].connected
  /\ \E connected \in BOOLEAN :
       session' = [session EXCEPT ![s].sendQueue = <<>>,
                                  ![s].connected = connected,
                                  ![s].sendRegistered = FALSE]
  /\ lost' = [lost EXCEPT ![s] = @ \o session[s].sendQueue]
  /\ ReturnFrom(t, s)
  /\ Fault
  /\ UNCHANGED <<room, log, since, wire, said>>

(* Session::RegisterSend: WSASend takes the whole queue, unless the        *)
(* session is not connected any more.                                      *)
RegisterSend(t) ==
  LET s == worker[t].to IN
  /\ worker[t].pc = "RegisterSend"
  /\ IF session[s].connected
       THEN session' = [session EXCEPT ![s].sendEvent = session[s].sendQueue,
                                       ![s].sendQueue = <<>>, ![s].io = TRUE]
       ELSE UNCHANGED session
  /\ ReturnFrom(t, s)
  /\ UNCHANGED <<room, histVars, faults, said>>

(* A WSASend has completed: ProcessSend up to its lock. *)
DispatchSend(t, s) ==
  /\ worker[t] = Idle /\ session[s].io
  /\ wire' = [wire EXCEPT ![s] = @ \o session[s].sendEvent]
  /\ session' = [session EXCEPT ![s].sendEvent = <<>>, ![s].io = FALSE]
  /\ worker' = [worker EXCEPT ![t] =
                  [Idle EXCEPT !.pc = "ProcessSend", !.to = s]]
  /\ UNCHANGED <<room, holder, log, since, lost, faults, said>>

(* A WSASend has failed and transmitted only the first k packets:          *)
(* Disconnect("Send 0"), and the send right is not given back.             *)
Send0(t, s) ==
  /\ worker[t] = Idle /\ session[s].io
  /\ \E k \in 0..Len(session[s].sendEvent) :
       LET event == session[s].sendEvent IN
       /\ wire' = [wire EXCEPT ![s] = @ \o SubSeq(event, 1, k)]
       /\ lost' = [lost EXCEPT ![s] = @ \o SubSeq(event, k + 1, Len(event))]
  /\ session' = [session EXCEPT ![s].sendEvent = <<>>, ![s].io = FALSE,
                                ![s].connected = FALSE]
  /\ Fault
  /\ UNCHANGED <<room, holder, worker, log, since, said>>

\* Mutant of ProcessSend: WSASend is called with an empty queue as well.
ProcessSendNoTest(t) ==
  LET s == worker[t].to IN
  /\ worker[t].pc = "ProcessSend" /\ holder[s] = NoThread
  /\ holder' = [holder EXCEPT ![s] = t]
  /\ worker' = [worker EXCEPT ![t].pc = "RegisterSend"]
  /\ UNCHANGED <<room, session, histVars, faults, said>>

(* The rest of ProcessSend, under the lock: the next WSASend, or the send  *)
(* right is given back.                                                    *)
ProcessSend(t) ==
  LET s == worker[t].to IN
  /\ worker[t].pc = "ProcessSend" /\ holder[s] = NoThread
  /\ IF session[s].sendQueue = <<>>
       THEN /\ session' = [session EXCEPT ![s].sendRegistered = FALSE]
            /\ worker' = [worker EXCEPT ![t] = Idle]
            /\ UNCHANGED holder
       ELSE /\ holder' = [holder EXCEPT ![s] = t]
            /\ worker' = [worker EXCEPT ![t].pc = "RegisterSend"]
            /\ UNCHANGED session
  /\ UNCHANGED <<room, histVars, faults, said>>

-----------------------------------------------------------------------------
\* The way of a busy thread back to the port.
Step(t) ==
  \/ Enter(t) \/ Broadcast(t) \/ Send(t) \/ EndSend(t)
  \/ RegisterSend(t) \/ SendRefused(t) \/ ProcessSend(t)

\* Everybody has entered and said everything, and nothing is outstanding.
Quiescent ==
  /\ worker = [t \in Threads |-> Idle] /\ room = Members
  /\ said = MaxChats /\ \A s \in Members : ~session[s].io
  /\ UNCHANGED vars

Next ==
  \/ \E t \in Threads :
       \/ Step(t)
       \/ \E s \in Members :
            \/ HandleEnterGame(t, s) \/ HandleChat(t, s) \/ Recv0(t, s)
            \/ DispatchSend(t, s) \/ Send0(t, s)
  \/ Quiescent

Spec == Init /\ [][Next]_vars

(* A worker that can go on does, and a WSASend completes some time.  With  *)
(* a bounded number of packets a lock is wanted only so often, so that     *)
(* nothing need be assumed of the order in which threads get it.           *)
FairSpec ==
  /\ Spec
  /\ \A t \in Threads : WF_vars(Step(t))
  /\ \A s \in Members :
       WF_vars(\E t \in Threads : DispatchSend(t, s) \/ Send0(t, s))

-----------------------------------------------------------------------------
TypeOK ==
  /\ room \subseteq Members
  /\ holder \in [Locks -> Threads \cup {NoThread}]
  /\ \A s \in Members :
       LET p == session[s] IN
       /\ {p.connected, p.sendRegistered, p.io} \subseteq BOOLEAN
       /\ {p.sendQueue, p.sendEvent, wire[s], lost[s]} \subseteq Seq(Packets)
       /\ p.io <=> p.sendEvent # <<>>
       /\ since[s] \in 0..Len(log)
  /\ \A t \in Threads :
       /\ worker[t].pc \in {"idle", "Enter", "Broadcast", "Send",
                            "RegisterSend", "ProcessSend"}
       /\ worker[t].packet \in Packets \cup {<<>>}
       /\ {worker[t].by, worker[t].to} \subseteq Members \cup {0}
       /\ worker[t].todo \subseteq room
  /\ said \in 0..MaxChats /\ log \in Seq(Packets)

\* The packet p comes before q in the sequence w.
Before(w, p, q) ==
  \E i, j \in 1..Len(w) : i < j /\ w[i] = p /\ w[j] = q

(* Clients see one conversation: no two of them hear two chats in          *)
(* different orders, and what one client says, S_ENTER_GAME included,      *)
(* comes in the order it was said - whatever sends fail                    *)
(* (Room.cpp:20-27, ServerPacketHandler.cpp:66-95, Session.cpp:60-72).     *)
OneConversation ==
  \A p, q \in Packets : \A s \in Members : Before(wire[s], p, q) =>
    /\ \A r \in Members : ~Before(wire[r], q, p)
    /\ p[1] = q[1] => p[2] < q[2]

\* What is in the hands of the send path of s, from its wire to its queue.
Path(s) == (wire[s] \o session[s].sendEvent) \o session[s].sendQueue

\* A handler has still to send a chat to s, or S_ENTER_GAME.
OwesChat(s) ==
  \E t \in Threads : s \in worker[t].todo /\ worker[t].packet[2] > 0
OwesReply(s) ==
  \E t \in Threads : s \in worker[t].todo /\ worker[t].packet[2] = 0

\* The packet p is put after the first k of the sequence w.
Inserted(w, k, p) == (SubSeq(w, 1, k) \o <<p>>) \o SubSeq(w, k + 1, Len(w))

(* A member for which no send has failed gets what the room has said since *)
(* it entered, each chat once and in the order of the broadcasts, and one  *)
(* S_ENTER_GAME somewhere between them: all that is on the wire, with the  *)
(* kernel or in the queue but for the one chat that Broadcast, and the     *)
(* reply that Handle_C_ENTER_GAME, has still to send to it                 *)
(* (Room.cpp:8-27, Session.cpp:60-72, 148-196, 256-276).                   *)
NoChatMissed ==
  \A s \in room : lost[s] = <<>> =>
    LET owed == IF OwesChat(s) THEN 1 ELSE 0
        due == SubSeq(log, since[s] + 1, Len(log) - owed)
    IN IF OwesReply(s)
         THEN Path(s) = due
         ELSE \E k \in 0..Len(due) :
                Path(s) = Inserted(due, k, <<s, 0>>)

\* Thread t is about to take the lock l, and can go on only when it is free.
Wants(t, l) ==
  \/ worker[t].pc \in {"Enter", "Broadcast"} /\ l = RoomLock
  \/ worker[t].pc = "Send" /\ worker[t].todo # {} /\ l = NextMember(t)
  \/ worker[t].pc = "ProcessSend" /\ l = worker[t].to

\* Thread t waits for a lock that thread u has.
WaitsFor(t, u) == \E l \in Locks : holder[l] = u /\ Wants(t, l)

(* Workers never wait for each other in a circle, nor one for itself: who  *)
(* waits for the room waits for a broadcast, which waits for a session at  *)
(* most, and who has a session waits for nothing                           *)
(* (Room.cpp:10, 22, Session.cpp:62, 270).                                 *)
NoCircularWait ==
  \A t, u, v, w \in Threads :
    ~(WaitsFor(t, u) /\ WaitsFor(u, v) /\ WaitsFor(v, w))

\* A packet with the number k is in the sequence w.
Contains(w, k) == \E i \in 1..Len(w) : w[i][2] = k

(* A packet for a member reaches its peer, although workers wait for each  *)
(* other's locks, unless a failed send gave it up or the session is        *)
(* disconnected (Room.cpp:20-27, Session.cpp:60-72, 148-196, 256-276).     *)
EveryPacketDelivered ==
  \A s \in Members : \A k \in 0..MaxChats :
    (/\ s \in room
     /\ \E t \in Threads, r \in Members :
          worker[t].packet = <<r, k>> /\ (k > 0 \/ r = s))
      ~> \/ Contains(wire[s], k) \/ Contains(lost[s], k)
         \/ ~session[s].connected
=============================================================================
