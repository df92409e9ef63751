-------------------------- MODULE SessionLifecycle --------------------------
(***************************************************************************)
(* The life of the server's sessions: the Listener's accept events         *)
(* (ServerCore/Listener.cpp), Session::ProcessConnect, the receive loop,   *)
(* Disconnect and ProcessDisconnect (Session.cpp), and the two registries  *)
(* a session is entered into and taken out of: Service::_sessions          *)
(* (Service.cpp) and GSessionManager (GameServer).                         *)
(*                                                                         *)
(* The worker threads take completions from one IOCP port, so the handlers *)
(* of one session run on different threads and overlap.  An outstanding    *)
(* operation and its undelivered completion are one state: an operation    *)
(* completes when a worker dequeues it.  What a Send does is modelled in   *)
(* SessionSend; here it is at most one outstanding operation per session,  *)
(* which may break the connection.                                         *)
(***************************************************************************)
EXTENDS Naturals, FiniteSets

CONSTANTS
  Threads,    \* worker threads
  Slots,      \* accept events: _maxSessionCount of them
  Sessions,   \* bound: Session objects that can be created
  NoSession,  \* no session
  NoSlot      \* no accept event

ASSUME LifecycleAssumption ==
  /\ IsFiniteSet(Sessions)
  /\ NoSession \notin Sessions /\ NoSlot \notin Slots

VARIABLES
  accept,        \* per accept event: AcceptEx outstanding, and its session
  created,       \* Session objects constructed so far
  connected,     \* _connected
  recvIo,        \* a WSARecv is outstanding (_recvEvent.owner is set)
  sendIo,        \* a WSASend is outstanding (_sendEvent.owner is set)
  discIo,        \* a DisconnectEx is outstanding (_disconnectEvent.owner)
  refused,       \* history: DisconnectEx was refused
  dead,          \* history: DisconnectEx has completed
  deaf,          \* history: WSARecv was refused with an error that is ignored
  sessions,      \* Service::_sessions
  sessionCount,  \* Service::_sessionCount
  gsessions,     \* GSessionManager._sessions
  loggedIn,      \* sessions whose _players refer back to them
  room,          \* owners of the players in GRoom
  pc, cur, slot  \* per thread: what it does, for which session and event

acceptVars == <<accept, created>>
connVars   == <<connected, discIo, refused>>
ioVars     == <<recvIo, sendIo, dead, deaf>>
regVars    == <<sessions, sessionCount, gsessions>>
gameVars   == <<loggedIn, room>>
threadVars == <<pc, cur, slot>>
vars == <<acceptVars, connVars, ioVars, regVars, gameVars, threadVars>>

Labels == {"idle", "ProcessAccept", "ProcessConnect", "AddSession",
           "OnConnected", "RegisterRecv", "RegisterAccept", "ProcessRecv",
           "OnRecv", "OnDisconnected", "RemoveSession", "crashed"}

\* Thread t goes on at label with its session; an idle thread has none.
Goto(t, label) ==
  /\ pc' = [pc EXCEPT ![t] = label]
  /\ IF label = "idle"
       THEN /\ cur' = [cur EXCEPT ![t] = NoSession]
            /\ slot' = [slot EXCEPT ![t] = NoSlot]
       ELSE UNCHANGED <<cur, slot>>

\* An idle thread dequeues a completion of session s.
Enter(t, label, s) ==
  /\ pc[t] = "idle"
  /\ pc' = [pc EXCEPT ![t] = label]
  /\ cur' = [cur EXCEPT ![t] = s]

(* The server after StartAccept: every event waits with a session of its   *)
(* own.                                                                    *)
Init ==
  /\ \E f \in [Slots -> Sessions] :
       /\ \A d, e \in Slots : d # e => f[d] # f[e]
       /\ accept = [e \in Slots |-> [pending |-> TRUE, session |-> f[e]]]
       /\ created = {f[e] : e \in Slots}
  /\ connected = [s \in Sessions |-> FALSE]
  /\ recvIo = {} /\ sendIo = {} /\ discIo = {}
  /\ refused = {} /\ dead = {} /\ deaf = {}
  /\ sessions = {} /\ sessionCount = 0 /\ gsessions = {}
  /\ loggedIn = {} /\ room = {}
  /\ pc = [t \in Threads |-> "idle"]
  /\ cur = [t \in Threads |-> NoSession]
  /\ slot = [t \in Threads |-> NoSlot]

-----------------------------------------------------------------------------
\* Mutant of Disconnect: what _connected.exchange returned is not tested.
DisconnectAgain(S) ==
  /\ connected' = [s \in Sessions |-> connected[s] /\ s \notin S]
  /\ \E no \in SUBSET S :
       /\ discIo' = discIo \cup (S \ no)
       /\ refused' = refused \cup no

(* Session::Disconnect for every session of S: the first caller registers  *)
(* a DisconnectEx, which the kernel accepts or refuses; a refusal is not   *)
(* retried.                                                                *)
Disconnect(S) ==
  LET first == {s \in S : connected[s]} IN
  /\ connected' = [s \in Sessions |-> connected[s] /\ s \notin S]
  /\ \E no \in SUBSET first :
       /\ discIo' = discIo \cup (first \ no)
       /\ refused' = refused \cup no

(* Session::Send to every session of S, as far as it matters here: some    *)
(* start a WSASend, some find the connection broken, and on the others     *)
(* nothing happens (queued, failed softly, or not connected).  One Send    *)
(* touches one session, so a broadcast, which holds the room's lock        *)
(* throughout, is taken as one step.                                       *)
Send(S) ==
  LET able == {s \in S : connected[s] /\ s \notin sendIo} IN
  \E posted \in SUBSET able : \E broken \in SUBSET (able \ posted) :
    /\ sendIo' = sendIo \cup posted
    /\ Disconnect(broken)

-----------------------------------------------------------------------------
(* IocpCore::Dispatch and Listener::Dispatch: an AcceptEx has completed.   *)
DispatchAccept(t, e) ==
  /\ accept[e].pending /\ accept[e].session # NoSession
  /\ accept' = [accept EXCEPT ![e].pending = FALSE]
  /\ Enter(t, "ProcessAccept", accept[e].session)
  /\ slot' = [slot EXCEPT ![t] = e]
  /\ UNCHANGED <<created, connVars, ioVars, regVars, gameVars>>

\* Mutant of ProcessAccept: the early returns do not register the event again.
ProcessAcceptForgetsEvent(t) ==
  /\ pc[t] = "ProcessAccept"
  /\ \E label \in {"ProcessConnect", "idle"} : Goto(t, label)
  /\ UNCHANGED <<acceptVars, connVars, ioVars, regVars, gameVars>>

(* Listener::ProcessAccept: SetUpdateAcceptSocket or getpeername may fail. *)
ProcessAccept(t) ==
  /\ pc[t] = "ProcessAccept"
  /\ \E label \in {"ProcessConnect", "RegisterAccept"} : Goto(t, label)
  /\ UNCHANGED <<acceptVars, connVars, ioVars, regVars, gameVars>>

(* Session::ProcessConnect, statement by statement. *)
ProcessConnect(t) ==
  /\ pc[t] = "ProcessConnect"
  /\ connected' = [connected EXCEPT ![cur[t]] = TRUE]
  /\ Goto(t, "AddSession")
  /\ UNCHANGED <<acceptVars, discIo, refused, ioVars, regVars, gameVars>>

\* Mutant of AddSession: the receive is registered before OnConnected.
AddSessionThenReceive(t) ==
  /\ pc[t] = "AddSession"
  /\ sessionCount' = sessionCount + 1
  /\ sessions' = sessions \cup {cur[t]}
  /\ recvIo' = recvIo \cup {cur[t]}
  /\ Goto(t, "OnConnected")
  /\ UNCHANGED <<acceptVars, connVars, sendIo, dead, deaf, gsessions,
                 gameVars>>

\* Mutant of AddSession: the count is not kept.
AddSessionNoCount(t) ==
  /\ pc[t] = "AddSession"
  /\ sessions' = sessions \cup {cur[t]}
  /\ Goto(t, "OnConnected")
  /\ UNCHANGED <<acceptVars, connVars, ioVars, sessionCount, gsessions,
                 gameVars>>

(* Service::AddSession, under the service's lock. *)
AddSession(t) ==
  /\ pc[t] = "AddSession"
  /\ sessionCount' = sessionCount + 1
  /\ sessions' = sessions \cup {cur[t]}
  /\ Goto(t, "OnConnected")
  /\ UNCHANGED <<acceptVars, connVars, ioVars, gsessions, gameVars>>

(* GameSession::OnConnected: GameSessionManager::Add. *)
OnConnected(t) ==
  /\ pc[t] = "OnConnected"
  /\ gsessions' = gsessions \cup {cur[t]}
  /\ Goto(t, "RegisterRecv")
  /\ UNCHANGED <<acceptVars, connVars, ioVars, sessions, sessionCount,
                 gameVars>>

\* Where RegisterRecv returns to: ProcessAccept goes on, ProcessRecv is done.
AfterRegisterRecv(t) == IF slot[t] # NoSlot THEN "RegisterAccept" ELSE "idle"

(* Session::RegisterRecv: WSARecv is posted, or refused; HandleError       *)
(* disconnects for a lost connection and only logs any other error.        *)
RegisterRecv(t) ==
  /\ pc[t] = "RegisterRecv"
  /\ \/ /\ cur[t] \notin dead
        /\ recvIo' = recvIo \cup {cur[t]}
        /\ UNCHANGED <<connVars, deaf>>
     \/ Disconnect({cur[t]}) /\ UNCHANGED <<recvIo, deaf>>
     \/ deaf' = deaf \cup {cur[t]} /\ UNCHANGED <<connVars, recvIo>>
  /\ Goto(t, AfterRegisterRecv(t))
  /\ UNCHANGED <<acceptVars, sendIo, dead, regVars, gameVars>>

\* Mutant of RegisterAccept: the event keeps its session.
RegisterAcceptReuses(t) ==
  /\ pc[t] = "RegisterAccept"
  /\ accept' = [accept EXCEPT ![slot[t]].pending = TRUE]
  /\ Goto(t, "idle")
  /\ UNCHANGED <<created, connVars, ioVars, regVars, gameVars>>

(* Listener::RegisterAccept: a new session for the event and an AcceptEx.  *)
(* A refused AcceptEx starts over with another session.  When the model's  *)
(* sessions are used up the event waits for a client that never comes.     *)
RegisterAccept(t) ==
  /\ pc[t] = "RegisterAccept"
  /\ \/ /\ created = Sessions
        /\ accept' = [accept EXCEPT ![slot[t]] =
                        [pending |-> TRUE, session |-> NoSession]]
        /\ Goto(t, "idle")
        /\ UNCHANGED created
     \/ \E s \in Sessions \ created :
          /\ created' = created \cup {s}
          /\ \E ok \in BOOLEAN :
               /\ accept' = [accept EXCEPT ![slot[t]] =
                               [pending |-> ok, session |-> s]]
               /\ Goto(t, IF ok THEN "idle" ELSE "RegisterAccept")
  /\ UNCHANGED <<connVars, ioVars, regVars, gameVars>>

-----------------------------------------------------------------------------
(* A WSARecv has completed: Session::Dispatch enters ProcessRecv. *)
DispatchRecv(t, s) ==
  /\ s \in recvIo
  /\ recvIo' = recvIo \ {s}
  /\ Enter(t, "ProcessRecv", s)
  /\ UNCHANGED <<acceptVars, connVars, sendIo, dead, deaf, regVars,
                 gameVars, slot>>

\* Mutant of ProcessRecv: the next receive is posted before this one's data
\* has been handled.
ProcessRecvReceivesFirst(t) ==
  /\ pc[t] = "ProcessRecv"
  /\ recvIo' = recvIo \cup {cur[t]}
  /\ Goto(t, "OnRecv")
  /\ UNCHANGED <<acceptVars, connVars, sendIo, dead, deaf, regVars, gameVars>>

\* Mutant of ProcessRecv: it returns on no bytes and does not disconnect.
ProcessRecvJustReturns(t) ==
  /\ pc[t] = "ProcessRecv"
  /\ \E label \in {"idle", "OnRecv"} : Goto(t, label)
  /\ UNCHANGED <<acceptVars, connVars, ioVars, regVars, gameVars>>

(* Session::ProcessRecv up to OnRecv: no bytes mean Disconnect("Recv 0").  *)
ProcessRecv(t) ==
  /\ pc[t] = "ProcessRecv"
  /\ \/ Disconnect({cur[t]}) /\ Goto(t, "idle")
     \/ UNCHANGED connVars /\ Goto(t, "OnRecv")
  /\ UNCHANGED <<acceptVars, ioVars, regVars, gameVars>>

(* Handle_C_LOGIN: the session gets players that own it, and a reply.      *)
HandleLogin(t) ==
  /\ pc[t] = "OnRecv"
  /\ loggedIn' = loggedIn \cup {cur[t]}
  /\ Send({cur[t]})
  /\ UNCHANGED <<acceptVars, recvIo, dead, deaf, regVars, room, threadVars>>

(* Handle_C_ENTER_GAME: Room::Enter and a reply.                           *)
HandleEnterGame(t) ==
  /\ pc[t] = "OnRecv"
  /\ cur[t] \in loggedIn
  /\ room' = room \cup {cur[t]}
  /\ Send({cur[t]})
  /\ UNCHANGED <<acceptVars, recvIo, dead, deaf, regVars, loggedIn,
                 threadVars>>

(* Handle_C_CHAT: Room::Broadcast, to dead members too.                    *)
HandleChat(t) ==
  /\ pc[t] = "OnRecv"
  /\ Send(room)
  /\ UNCHANGED <<acceptVars, recvIo, dead, deaf, regVars, gameVars,
                 threadVars>>

(* OnRecv has no more packets and ProcessRecv goes on to RegisterRecv.     *)
(* (PacketRecv shows that the cursors are in order.)                       *)
EndOnRecv(t) ==
  /\ pc[t] = "OnRecv"
  /\ Goto(t, "RegisterRecv")
  /\ UNCHANGED <<acceptVars, connVars, ioVars, regVars, gameVars>>

(* A WSASend has completed; with no bytes, ProcessSend disconnects.        *)
DispatchSend(t, s) ==
  /\ pc[t] = "idle"
  /\ s \in sendIo
  /\ sendIo' = sendIo \ {s}
  /\ \/ Disconnect({s})
     \/ UNCHANGED connVars
  /\ UNCHANGED <<acceptVars, recvIo, dead, deaf, regVars, gameVars,
                 threadVars>>

-----------------------------------------------------------------------------
\* Mutant of DispatchDisconnect: ProcessDisconnect releases its event, but
\* does not take the session out of the registries.
DispatchDisconnectNoCallback(t, s) ==
  /\ pc[t] = "idle"
  /\ s \in discIo
  /\ discIo' = discIo \ {s}
  /\ dead' = dead \cup {s}
  /\ UNCHANGED <<acceptVars, connected, refused, recvIo, sendIo, deaf,
                 regVars, gameVars, threadVars>>

(* The DisconnectEx has completed: Session::ProcessDisconnect. *)
DispatchDisconnect(t, s) ==
  /\ s \in discIo
  /\ discIo' = discIo \ {s}
  /\ dead' = dead \cup {s}
  /\ Enter(t, "OnDisconnected", s)
  /\ UNCHANGED <<acceptVars, connected, refused, recvIo, sendIo, deaf,
                 regVars, gameVars, slot>>

(* GameSession::OnDisconnected: GameSessionManager::Remove. *)
OnDisconnected(t) ==
  /\ pc[t] = "OnDisconnected"
  /\ gsessions' = gsessions \ {cur[t]}
  /\ Goto(t, "RemoveSession")
  /\ UNCHANGED <<acceptVars, connVars, ioVars, sessions, sessionCount,
                 gameVars>>

(* Service::RemoveSession: ASSERT_CRASH when the session is not there.     *)
RemoveSession(t) ==
  /\ pc[t] = "RemoveSession"
  /\ IF cur[t] \in sessions
       THEN /\ sessions' = sessions \ {cur[t]}
            /\ sessionCount' = sessionCount - 1
            /\ Goto(t, "idle")
       ELSE Goto(t, "crashed") /\ UNCHANGED <<sessions, sessionCount>>
  /\ UNCHANGED <<acceptVars, connVars, ioVars, gsessions, gameVars>>

-----------------------------------------------------------------------------
\* A completion is handed to a worker.
Dispatch(t) ==
  \/ \E e \in Slots : DispatchAccept(t, e)
  \/ \E s \in Sessions :
       DispatchRecv(t, s) \/ DispatchSend(t, s) \/ DispatchDisconnect(t, s)

\* A packet is handled.  The peer decides whether there is another one.
Handle(t) == HandleLogin(t) \/ HandleEnterGame(t) \/ HandleChat(t)

\* The way of a busy thread back to the port.
Step(t) ==
  \/ ProcessAccept(t) \/ ProcessConnect(t) \/ AddSession(t) \/ OnConnected(t)
  \/ RegisterRecv(t) \/ RegisterAccept(t)
  \/ ProcessRecv(t) \/ EndOnRecv(t)
  \/ OnDisconnected(t) \/ RemoveSession(t)

\* Nothing is outstanding and no client comes any more.
Quiescent ==
  /\ \A t \in Threads : pc[t] = "idle"
  /\ recvIo = {} /\ sendIo = {} /\ discIo = {}
  /\ \A e \in Slots : accept[e].session = NoSession
  /\ UNCHANGED vars

Next ==
  \/ \E t \in Threads : Dispatch(t) \/ Handle(t) \/ Step(t)
  \/ Quiescent

(* A worker that has left the port comes back.  The port's queue is first  *)
(* in, first out, so a completion is not passed over forever: strong       *)
(* fairness per completion.  A receive completes for sure only once its    *)
(* socket is disconnected.                                                 *)
Fairness ==
  /\ \A t \in Threads : WF_vars(Step(t))
  /\ \A s \in Sessions :
       /\ SF_vars(\E t \in Threads : DispatchDisconnect(t, s))
       /\ SF_vars(\E t \in Threads : DispatchSend(t, s))
       /\ SF_vars(s \in dead /\ \E t \in Threads : DispatchRecv(t, s))

Spec == Init /\ [][Next]_vars

FairSpec == Spec /\ Fairness

-----------------------------------------------------------------------------
TypeOK ==
  /\ accept \in [Slots -> [pending : BOOLEAN,
                           session : Sessions \cup {NoSession}]]
  /\ connected \in [Sessions -> BOOLEAN]
  /\ created \subseteq Sessions
  /\ recvIo \cup sendIo \cup discIo \cup refused \cup dead \cup deaf
       \subseteq created
  /\ sessions \cup gsessions \cup loggedIn \cup room \subseteq created
  /\ sessionCount \in 0..Cardinality(Sessions)
  /\ pc \in [Threads -> Labels]
  /\ cur \in [Threads -> Sessions \cup {NoSession}]
  /\ slot \in [Threads -> Slots \cup {NoSlot}]

(* RemoveSession finds the session it removes, so its ASSERT_CRASH never   *)
(* fires: every ProcessDisconnect comes after AddSession and only once,    *)
(* whichever of the handlers disconnects first (Service.cpp:52-57).        *)
RemoveNeverCrashes ==
  \A t \in Threads :
    /\ pc[t] # "crashed"
    /\ pc[t] \in {"OnDisconnected", "RemoveSession"} => cur[t] \in sessions

\* The threads that are in the receive path of s.
Receiving(s) ==
  {t \in Threads :
     cur[t] = s /\ pc[t] \in {"ProcessRecv", "OnRecv", "RegisterRecv"}}

(* RecvBuffer and the packet handlers of a session need no lock: one       *)
(* thread at most is in its receive path, and none while a WSARecv is      *)
(* outstanding (Session.cpp:124-145, 198-212, 222-254).                    *)
OneReceiver ==
  \A s \in Sessions :
    /\ \A t, u \in Receiving(s) : t = u
    /\ s \in recvIo => Receiving(s) = {}

(* Whoever can be reached through GSessionManager is registered with the   *)
(* Service, which counts them, and a connected session that receives is in *)
(* both.  One that is registered and no longer connected is being taken    *)
(* out: its DisconnectEx is outstanding or was refused, or a worker is at  *)
(* it (Session.cpp:49-58, 106-122, 202-220, GameSession.cpp:6-14,          *)
(* Service.cpp:45-57).                                                     *)
RegistriesAgree ==
  /\ gsessions \subseteq sessions
  /\ sessionCount = Cardinality(sessions)
  /\ \A s \in Sessions :
       connected[s] /\ (s \in recvIo \/ Receiving(s) # {}) => s \in gsessions
  /\ \A s \in sessions :
       \/ connected[s] \/ s \in discIo \cup refused
       \/ \E t \in Threads :
            cur[t] = s /\ pc[t] \in {"OnDisconnected", "RemoveSession"}

(* The server listens to every connected session: a WSARecv is outstanding *)
(* or a thread will post one - unless WSARecv was refused with an error    *)
(* that is ignored, after which the session stays connected and deaf       *)
(* (Session.cpp:124-145, 222-254, 278-291).                                *)
NoDeafSession ==
  \A s \in Sessions \ deaf :
    connected[s] =>
      \/ s \in recvIo \/ Receiving(s) # {}
      \/ \E t \in Threads :
           cur[t] = s /\ pc[t] \in {"AddSession", "OnConnected"}

\* The registries with the rest of the server hidden.
Registry ==
  INSTANCE SessionRegistry WITH online <- {s \in Sessions : connected[s]}

(* Each session goes through connecting, registration, use, closing and    *)
(* removal once and in this order, as seen by whoever looks into the two   *)
(* registries, whichever workers do it (Session.cpp:49-58, 198-220,        *)
(* GameSession.cpp:6-14, Service.cpp:45-57).                               *)
ImplementsRegistry == Registry!Spec

(* No accept event is lost: each waits for a client or is in the hands of  *)
(* exactly one thread that will register it again (Listener.cpp:81-125).   *)
NoSlotLost ==
  \A e \in Slots :
    LET holders == {t \in Threads : slot[t] = e} IN
    IF accept[e].pending THEN holders = {}
    ELSE holders # {} /\ \A t, u \in holders : t = u

\* Somebody still holds a SessionRef.
Referenced(s) ==
  \/ s \in sessions \cup gsessions \cup loggedIn \cup room
  \/ s \in recvIo \cup sendIo \cup discIo
  \/ \E t \in Threads : cur[t] = s
  \/ \E e \in Slots : accept[e].session = s

(* A session that is disconnected is eventually in no registry, event or   *)
(* stack, so its destructor runs - unless DisconnectEx was refused, or it  *)
(* has logged in, after which its players keep it (Session.cpp:49-58,      *)
(* 106-122, 214-220; Player.h:10).                                         *)
DisconnectedIsReleased ==
  \A s \in Sessions :
    (s \in sessions /\ ~connected[s])
      ~> (~Referenced(s) \/ s \in refused \cup loggedIn)
=============================================================================
