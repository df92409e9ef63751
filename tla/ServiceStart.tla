---------------------------- MODULE ServiceStart ----------------------------
(***************************************************************************)
(* How the two services come up and clients get in: the server's main      *)
(* (GameServer.cpp) with ServerService::Start, Listener::StartListen and   *)
(* StartAccept, its workers with ProcessAccept, and a client's main        *)
(* (DummyClient.cpp) with ClientService::Start and RegisterConnect.        *)
(* Nothing waits for anything: clients connect before the server listens,  *)
(* while it is still posting its accepts, and before its workers run.  A   *)
(* connection goes from the backlog of the listening socket to an AcceptEx *)
(* that is posted, and its completion to the port, if the socket is        *)
(* registered there.  Every call of the system may be refused.             *)
(***************************************************************************)
EXTENDS Naturals, Sequences

CONSTANTS
  AcceptCount,  \* _maxSessionCount of the server
  ConnectCount, \* _maxSessionCount of the client
  Workers,      \* the server's worker threads
  NoClient

ASSUME StartAssumption ==
  /\ AcceptCount \in Nat \ {0} /\ ConnectCount \in Nat \ {0}
  /\ NoClient \notin 1..ConnectCount

Slots == 1..AcceptCount      \* accept events, in the order StartAccept has
Clients == 1..ConnectCount   \* sessions of the client, in the order of Start

VARIABLES
  main,         \* what the server's main is doing
  done,         \* calls of StartListen that have succeeded
  accept,       \* per accept event: what it is waiting for, and its client
  nodelay,      \* clients whose session at the server has TCP_NODELAY
  running,      \* workers that were launched
  serving,      \* per worker: the accept event in its hands
  served,       \* clients whose session has run ProcessConnect
  dropped,      \* clients whose session ProcessAccept gave up
  closed,       \* and those of them whose socket has been closed
  clientMain,   \* what the client's main is doing
  connect,      \* per client session: how far its ConnectEx is
  backlog,      \* connections that no AcceptEx has taken
  connected     \* client sessions with _connected

serverVars == <<main, done, accept, nodelay, running, serving, served,
                dropped, closed>>
clientVars == <<clientMain, connect, connected>>
vars == <<serverVars, clientVars, backlog>>

NoSlot == 0

Init ==
  /\ main = "StartListen" /\ done = {}
  /\ accept = [e \in Slots |-> [state |-> "none", client |-> NoClient]]
  /\ nodelay = {} /\ running = {}
  /\ serving = [w \in Workers |-> NoSlot]
  /\ served = {} /\ dropped = {} /\ closed = {}
  /\ clientMain = "Start"
  /\ connect = [c \in Clients |-> "new"]
  /\ backlog = {} /\ connected = {}

Crashed == main \in {"asserted", "crashed"}

-----------------------------------------------------------------------------
\* Mutant of StartListen: the listening socket is not registered with the port.
StartListenNoRegister ==
  <<"CreateSocket", "SetReuseAddress", "SetLinger", "SetTcpNoDelay", "Bind",
    "Listen">>

(* The calls of StartListen, in order.  SetTcpNoDelay is called with false. *)
StartListen ==
  <<"CreateSocket", "SetReuseAddress", "SetLinger", "SetTcpNoDelay",
    "RegisterSocket", "Bind", "Listen">>

TcpNoDelay == FALSE

(* Start makes the next call of StartListen; the first that is refused     *)
(* ends it with false, and main's ASSERT_CRASH with it.                    *)
Start ==
  /\ main = "StartListen"
  /\ \E i \in 1..Len(StartListen) :
       /\ StartListen[i] \notin done
       /\ \A j \in 1..(i - 1) : StartListen[j] \in done
       /\ \/ /\ done' = done \cup {StartListen[i]}
             /\ main' = IF i = Len(StartListen) THEN "StartAccept" ELSE main
          \/ main' = "asserted" /\ UNCHANGED done
  /\ UNCHANGED <<accept, nodelay, running, serving, served, dropped, closed,
                 clientVars, backlog>>

\* Mutant of RegisterAccept: the event keeps the session it had.
RegisterAcceptKeepsSession(e) ==
  /\ accept' = [accept EXCEPT ![e] = [state |-> "posted", client |-> NoClient]]
  /\ UNCHANGED closed

\* Mutant of RegisterAccept: the session that is replaced was the last
\* reference to a session that is served, too.
RegisterAcceptClosesServed(e) ==
  /\ accept' = [accept EXCEPT ![e] = [state |-> "posted", client |-> NoClient]]
  /\ closed' = closed \cup ({accept[e].client} \cap Clients)

(* RegisterAccept(e), when it succeeds: a new session takes the place of   *)
(* the one the event had, which is destroyed, socket and all, when nobody  *)
(* else holds it.  A refused AcceptEx is a new attempt.                    *)
RegisterAccept(e) ==
  /\ accept' = [accept EXCEPT ![e] = [state |-> "posted", client |-> NoClient]]
  /\ closed' = closed \cup ({accept[e].client} \cap dropped)

\* CreateSession returns nullptr, and RegisterAccept uses it.
NullSession == main' = "crashed"

(* StartAccept posts one AcceptEx after the other; then Start returns true. *)
StartAccept ==
  /\ main = "StartAccept"
  /\ \/ \E e \in Slots :
          /\ accept[e].state = "none"
          /\ \A d \in 1..(e - 1) : accept[d].state # "none"
          /\ RegisterAccept(e)
          /\ main' = IF e + 1 \in Slots THEN main ELSE "Launch"
     \/ NullSession /\ UNCHANGED <<accept, closed>>
  /\ UNCHANGED <<done, nodelay, running, serving, served, dropped, clientVars,
                 backlog>>

(* main launches its workers, which run at once, and then joins them.      *)
Launch(w) ==
  /\ main = "Launch" /\ w \notin running
  /\ running' = running \cup {w}
  /\ main' = IF running' = Workers THEN "Join" ELSE main
  /\ UNCHANGED <<done, accept, nodelay, serving, served, dropped, closed,
                 clientVars, backlog>>

-----------------------------------------------------------------------------
(* The kernel connects a client once the server's socket listens ...       *)
Establish(c) ==
  /\ connect[c] = "pending" /\ "Listen" \in done /\ ~Crashed
  /\ connect' = [connect EXCEPT ![c] = "succeeded"]
  /\ backlog' = backlog \cup {c}
  /\ UNCHANGED <<serverVars, clientMain, connected>>

(* ... or refuses it, at any time.                                         *)
Refuse(c) ==
  /\ connect[c] = "pending"
  /\ connect' = [connect EXCEPT ![c] = "failed"]
  /\ UNCHANGED <<serverVars, clientMain, connected, backlog>>

(* An AcceptEx takes a connection.  Its completion gets to the port only   *)
(* when the listening socket is registered with it.                        *)
Complete(e) ==
  /\ accept[e].state = "posted" /\ ~Crashed
  /\ \E c \in backlog :
       /\ accept' = [accept EXCEPT ![e] =
            [state |-> IF "RegisterSocket" \in done THEN "completed"
                                                    ELSE "lost",
             client |-> c]]
       /\ backlog' = backlog \ {c}
  /\ UNCHANGED <<main, done, nodelay, running, serving, served, dropped,
                 closed, clientVars>>

(* A worker dequeues the completion: Listener::Dispatch. *)
Dispatch(w, e) ==
  /\ w \in running /\ serving[w] = NoSlot /\ ~Crashed
  /\ accept[e].state = "completed"
  /\ serving' = [serving EXCEPT ![w] = e]
  /\ accept' = [accept EXCEPT ![e].state = "handled"]
  /\ UNCHANGED <<main, done, nodelay, running, served, dropped, closed,
                 clientVars, backlog>>

(* ProcessAccept up to its RegisterAccept.  SetUpdateAcceptSocket gives    *)
(* the session the listening socket's options and may fail, getpeername    *)
(* too, and the session is given up; otherwise ProcessConnect runs.        *)
ProcessAccept(w) ==
  /\ serving[w] # NoSlot /\ ~Crashed
  /\ accept[serving[w]].state = "handled"
  /\ LET c == accept[serving[w]].client IN
       \/ /\ served' = served \cup {c}
          /\ nodelay' = IF TcpNoDelay THEN nodelay \cup {c} ELSE nodelay
          /\ UNCHANGED dropped
       \/ dropped' = dropped \cup {c} /\ UNCHANGED <<served, nodelay>>
  /\ accept' = [accept EXCEPT ![serving[w]].state = "none"]
  /\ UNCHANGED <<main, done, running, serving, closed, clientVars, backlog>>

\* Mutant of RegisterAgain: a return is missing, so that the worker goes on
\* with an event that it has posted.
RegisterAgainNoReturn(w) ==
  /\ serving[w] # NoSlot /\ ~Crashed
  /\ accept[serving[w]].state = "none"
  /\ RegisterAccept(serving[w])
  /\ UNCHANGED <<main, done, nodelay, running, serving, served, dropped,
                 clientVars, backlog>>

(* The RegisterAccept at each end of ProcessAccept; the worker's own       *)
(* reference to the session goes as ProcessAccept returns.                 *)
RegisterAgain(w) ==
  /\ serving[w] # NoSlot /\ ~Crashed
  /\ accept[serving[w]].state = "none"
  /\ \/ /\ RegisterAccept(serving[w])
        /\ serving' = [serving EXCEPT ![w] = NoSlot]
        /\ UNCHANGED main
     \/ NullSession /\ UNCHANGED <<accept, closed, serving>>
  /\ UNCHANGED <<done, nodelay, running, served, dropped, clientVars, backlog>>

-----------------------------------------------------------------------------
(* ClientService::Start connects one session after the other.  The first   *)
(* that RegisterConnect refuses ends it with false, and main's             *)
(* ASSERT_CRASH with it; a CreateSession that returns nullptr crashes.     *)
Connect ==
  /\ clientMain = "Start"
  /\ \/ \E c \in Clients :
          /\ connect[c] = "new" /\ \A d \in 1..(c - 1) : connect[d] # "new"
          /\ connect' = [connect EXCEPT ![c] = "pending"]
          /\ clientMain' = IF c + 1 \in Clients THEN clientMain ELSE "Launch"
     \/ clientMain' \in {"asserted", "crashed"} /\ UNCHANGED connect
  /\ UNCHANGED <<serverVars, connected, backlog>>

(* The client's main launches its workers. *)
LaunchClient ==
  /\ clientMain = "Launch"
  /\ clientMain' = "Join"
  /\ UNCHANGED <<serverVars, connect, connected, backlog>>

(* A client's worker dequeues the ConnectEx: Session::ProcessConnect,      *)
(* whether it has succeeded or failed.  RegisterRecv's WSARecv is accepted *)
(* or refused: HandleError disconnects when the connection is lost, and    *)
(* only logs any other error, which leaves a session that never receives.  *)
(* That of a failed ConnectEx is always refused, and logged.               *)
ProcessConnect(c) ==
  /\ clientMain = "Join"
  /\ \/ /\ connect[c] = "succeeded"
        /\ \E state \in {"receiving", "deaf", "disconnected"} :
             /\ connect' = [connect EXCEPT ![c] = state]
             /\ connected' = IF state = "disconnected" THEN connected \ {c}
                                                       ELSE connected \cup {c}
     \/ /\ connect[c] = "failed"
        /\ connect' = [connect EXCEPT ![c] = "unconnected"]
        /\ connected' = connected \cup {c}
  /\ UNCHANGED <<serverVars, clientMain, backlog>>

(* The WSARecv of a closed connection completes with no bytes:             *)
(* Disconnect("Recv 0").                                                   *)
Recv0(c) ==
  /\ clientMain = "Join" /\ connect[c] = "receiving"
  /\ c \in closed \/ Crashed
  /\ connected' = connected \ {c}
  /\ connect' = [connect EXCEPT ![c] = "disconnected"]
  /\ UNCHANGED <<serverVars, clientMain, backlog>>

\* The clients have got in, and the workers wait for more.
Quiescent ==
  /\ main = "Join" \/ Crashed
  /\ clientMain # "Start" /\ clientMain # "Launch"
  /\ UNCHANGED vars

Serve(w) == (\E e \in Slots : Dispatch(w, e)) \/ ProcessAccept(w)
              \/ RegisterAgain(w)

Client(c) == ProcessConnect(c) \/ Recv0(c)

Next ==
  \/ Start \/ StartAccept \/ \E w \in Workers : Launch(w)
  \/ \E c \in Clients : Establish(c) \/ Refuse(c)
  \/ \E e \in Slots : Complete(e)
  \/ \E w \in Workers : Serve(w)
  \/ Connect \/ LaunchClient \/ \E c \in Clients : Client(c)
  \/ Quiescent

(* main and the workers run, and so does the client; the kernel matches    *)
(* connections with accepts and does not refuse an AcceptEx for ever.      *)
Fairness ==
  /\ WF_vars(Start) /\ WF_vars(StartAccept)
  /\ WF_vars(\E w \in Workers : Launch(w))
  /\ \A e \in Slots : WF_vars(Complete(e))
  /\ \A w \in Workers : WF_vars(Serve(w))
  /\ WF_vars(Connect) /\ WF_vars(LaunchClient)
  /\ \A c \in Clients : WF_vars(Client(c))

Spec == Init /\ [][Next]_vars

FairSpec == Spec /\ Fairness

-----------------------------------------------------------------------------
TypeOK ==
  /\ main \in {"StartListen", "StartAccept", "Launch", "Join", "asserted",
               "crashed"}
  /\ done \subseteq {StartListen[i] : i \in 1..Len(StartListen)}
  /\ accept \in [Slots -> [state : {"none", "posted", "completed", "lost",
                                    "handled"},
                           client : Clients \cup {NoClient}]]
  /\ running \subseteq Workers
  /\ serving \in [Workers -> Slots \cup {NoSlot}]
  /\ closed \subseteq dropped
  /\ nodelay \cup served \cup dropped \cup backlog \cup connected
       \subseteq Clients
  /\ clientMain \in {"Start", "Launch", "Join", "asserted", "crashed"}
  /\ connect \in [Clients -> {"new", "pending", "succeeded", "failed",
                              "receiving", "deaf", "disconnected",
                              "unconnected"}]

\* The accept events that have a connection and have not yet dealt with it.
Holding(c) ==
  {e \in Slots : accept[e].client = c
                   /\ accept[e].state \in {"completed", "lost", "handled"}}

\* The kernel has connected c, whatever has become of the connection.
Established(c) ==
  connect[c] \in {"succeeded", "receiving", "deaf", "disconnected"}

(* A connection is accepted once and is never lost: it is in the backlog,  *)
(* or with one accept event whose completion is in the port or in the      *)
(* hands of one worker, or served, or given up; and a worker that has      *)
(* given one up is about to close its socket (Listener.cpp:65-125).        *)
AcceptedOnce ==
  /\ \A v, w \in Workers : serving[v] = serving[w] /\ v # w
                             => serving[v] = NoSlot
  /\ \A c \in Clients :
       /\ \A d, e \in Holding(c) : d = e
       /\ Holding(c) # {} => c \notin backlog \cup served \cup dropped
       /\ c \in served => c \notin backlog \cup dropped
       /\ Established(c) <=> \/ c \in backlog \cup served \cup dropped
                            \/ Holding(c) # {}
       /\ \A e \in Holding(c) :
            \/ accept[e].state = "completed"
            \/ \E w \in Workers : serving[w] = e
       /\ c \in dropped \ closed =>
            \E w \in Workers :
              serving[w] \in Slots /\ accept[serving[w]].client = c

(* Every client that gets a connection is served or given up, those that   *)
(* came before AcceptEx was posted or a worker ran included, unless the    *)
(* server crashes (GameServer.cpp:27-37, Listener.cpp:29-125).             *)
EveryClientServed ==
  \A c \in Clients :
    c \in backlog ~> c \in served \cup dropped \/ Crashed

(* A client that the server gives up after the connection was made learns  *)
(* of it: the accept event's next session replaces the one it had, whose   *)
(* socket is closed, and the client's receive completes.  The exception is *)
(* a client whose WSARecv was refused with an error that is only logged:   *)
(* it stays connected and listens to nothing                               *)
(* (Listener.cpp:81-125, Session.cpp:12-15, 136-144, 222-228).             *)
DroppedClientLearns ==
  \A c \in Clients :
    c \in dropped /\ clientMain = "Join" ~>
      \/ c \notin connected /\ connect[c] = "disconnected"
      \/ connect[c] = "deaf"

(* Every session has the Nagle algorithm switched off, as the comment on   *)
(* SetTcpNoDelay says (Listener.cpp:44).                                   *)
NagleDisabled == served \subseteq nodelay
=============================================================================
