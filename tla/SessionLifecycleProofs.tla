----------------------- MODULE SessionLifecycleProofs -----------------------
(***************************************************************************)
(* Proofs about the life of sessions, for any number of workers, accept    *)
(* events and sessions.                                                    *)
(*                                                                         *)
(* No lock protects a session as a whole.  What does is that it is handed  *)
(* on: a session that waits in an accept event is known to nobody          *)
(* (WaitingIsUnknown), the worker that connects it has it for itself up to *)
(* its first receive (NewIsAlone), from then on one worker or the kernel   *)
(* has the right to its receive path (OneReceiver), and one has the right  *)
(* to take it out of the registries (RemoverIsAlone) and does so unless    *)
(* DisconnectEx was refused (LeavingIsPursued).  With these rights each    *)
(* step that changes a registry finds the session as SessionRegistry asks. *)
(***************************************************************************)
EXTENDS SessionLifecycle, FiniteSetTheorems, TLAPS

(* Everything but the service's registry through which a session can be    *)
(* reached.                                                                *)
Reached == recvIo \cup sendIo \cup discIo \cup refused \cup dead \cup deaf
             \cup gsessions \cup loggedIn \cup room

\* Where a worker connects a session, and where it takes one out.
NewLabels == {"ProcessAccept", "ProcessConnect", "AddSession", "OnConnected"}
RemoveLabels == {"OnDisconnected", "RemoveSession"}

Types ==
  /\ accept \in [Slots -> [pending : BOOLEAN,
                           session : created \cup {NoSession}]]
  /\ created \subseteq Sessions
  /\ connected \in [Sessions -> BOOLEAN]
  /\ Reached \cup sessions \subseteq created
  /\ sessionCount = Cardinality(sessions)
  /\ pc \in [Threads -> Labels \ {"crashed"}]
  /\ cur \in [Threads -> created \cup {NoSession}]
  /\ slot \in [Threads -> Slots \cup {NoSlot}]

\* A worker has an event exactly when it came from the Listener.
Locals ==
  \A t \in Threads :
    /\ pc[t] \in NewLabels \cup {"RegisterAccept"} => slot[t] \in Slots
    /\ pc[t] \in RemoveLabels \cup {"idle", "ProcessRecv", "OnRecv"}
         => slot[t] = NoSlot
    /\ pc[t] # "idle" => cur[t] \in created

\* The session of an event that waits has no other reference.
WaitingIsUnknown ==
  \A e \in Slots : accept[e].pending =>
    LET s == accept[e].session IN
    /\ s \notin Reached \cup sessions
    /\ s # NoSession => ~connected[s]
    /\ s # NoSession => \A t \in Threads : cur[t] # s
    /\ s # NoSession => \A d \in Slots \ {e} :
                          accept[d].pending => accept[d].session # s

\* A worker that connects a session is the only one that knows it.
NewIsAlone ==
  \A t \in Threads : pc[t] \in NewLabels =>
    /\ cur[t] \notin Reached
    /\ cur[t] \in sessions <=> pc[t] = "OnConnected"
    /\ \A u \in Threads \ {t} : cur[u] # cur[t]

(* A connected session is in GSessionManager or on its way there, and its  *)
(* disconnection has not begun.                                            *)
ConnectedIsKnown ==
  \A s \in Sessions : connected[s] =>
    /\ s \notin discIo \cup dead \cup refused
    /\ \/ s \in gsessions
       \/ \E t \in Threads :
            cur[t] = s /\ pc[t] \in {"AddSession", "OnConnected"}

\* A session is disconnected once, by one worker, and is then in the service.
RemoverIsAlone ==
  /\ gsessions \subseteq sessions
  /\ discIo \subseteq gsessions \ dead
  /\ \A t \in Threads : pc[t] \in RemoveLabels =>
       /\ cur[t] \in sessions \cap dead
       /\ cur[t] \in gsessions <=> pc[t] = "OnDisconnected"
       /\ \A u \in Threads \ {t} :
            pc[u] \in RemoveLabels => cur[u] # cur[t]

(* A worker that registers a session finds it connected all the while, and *)
(* a registered session that is not connected is on its way out.           *)
LeavingIsPursued ==
  /\ \A t \in Threads :
       pc[t] \in {"AddSession", "OnConnected"} => connected[cur[t]]
  /\ \A s \in sessions :
       \/ connected[s] \/ s \in discIo \cup refused
       \/ \E t \in Threads : cur[t] = s /\ pc[t] \in RemoveLabels

IInv ==
  /\ Types /\ Locals /\ NoSlotLost
  /\ WaitingIsUnknown /\ NewIsAlone
  /\ OneReceiver /\ NoDeafSession
  /\ ConnectedIsKnown /\ RemoverIsAlone
  /\ LeavingIsPursued

USE LifecycleAssumption
USE DEF acceptVars, connVars, ioVars, regVars, gameVars, threadVars,
        Labels, NewLabels, RemoveLabels, Reached, Receiving

-----------------------------------------------------------------------------
\* What Disconnect and Send may do to the sessions of S, at most.
Broken(S) ==
  /\ connected' \in [Sessions -> BOOLEAN]
  /\ \A s \in Sessions : connected'[s] => connected[s]
  /\ discIo \subseteq discIo' /\ refused \subseteq refused'
  /\ \A s \in (discIo' \ discIo) \cup (refused' \ refused) :
       s \in S /\ connected[s] /\ ~connected'[s]
  /\ \A s \in Sessions : connected[s] /\ ~connected'[s]
       => s \in S /\ s \in discIo' \cup refused'

LEMMA DisconnectBreaks ==
  ASSUME connected \in [Sessions -> BOOLEAN], NEW S \in SUBSET Sessions,
         Disconnect(S)
  PROVE  Broken(S) /\ \A s \in S : ~connected'[s]
BY DEF Disconnect, Broken

LEMMA SendBreaks ==
  ASSUME connected \in [Sessions -> BOOLEAN], NEW S \in SUBSET Sessions,
         Send(S)
  PROVE  /\ Broken(S)
         /\ sendIo \subseteq sendIo' /\ sendIo' \subseteq sendIo \cup S
<1> DEFINE able == {s \in S : connected[s] /\ s \notin sendIo}
<1>1. PICK posted \in SUBSET able : \E broken \in SUBSET (able \ posted) :
        sendIo' = sendIo \cup posted /\ Disconnect(broken)
  BY DEF Send
<1>2. PICK broken \in SUBSET (able \ posted) : Disconnect(broken)
  BY <1>1
<1>3. Broken(broken)
  BY <1>2, DisconnectBreaks
<1> QED  BY <1>1, <1>3 DEF Broken

-----------------------------------------------------------------------------
(* Each action keeps the invariant. *)

LEMMA DispatchAcceptKeeps ==
  ASSUME IInv, NEW t \in Threads, NEW e \in Slots, DispatchAccept(t, e)
  PROVE  IInv'
<1> USE DEF DispatchAccept, Enter
<1>1. Types'
  <2>1. accept[e] \in [pending : BOOLEAN, session : created \cup {NoSession}]
    BY DEF IInv, Types
  <2>2. accept[e].session \in created
    BY <2>1
  <2>3. [accept[e] EXCEPT !.pending = FALSE]
          \in [pending : BOOLEAN, session : created \cup {NoSession}]
    BY <2>1
  <2> QED  BY <2>2, <2>3 DEF IInv, Types
<1>2. Locals'
  BY DEF IInv, Types, Locals
<1>3. NoSlotLost'
  BY DEF IInv, Types, Locals, NoSlotLost
<1>4. WaitingIsUnknown'
  BY DEF IInv, Types, WaitingIsUnknown
<1>5. NewIsAlone'
  BY DEF IInv, Types, WaitingIsUnknown, NewIsAlone
<1>6. OneReceiver'
  BY DEF IInv, OneReceiver
<1>7. NoDeafSession'
  BY DEF IInv, NoDeafSession
<1>8. ConnectedIsKnown'
  BY DEF IInv, ConnectedIsKnown
<1>9. RemoverIsAlone'
  BY DEF IInv, RemoverIsAlone
<1>10. LeavingIsPursued'
  BY DEF IInv, LeavingIsPursued
<1> QED  BY <1>1, <1>2, <1>3, <1>4, <1>5, <1>6, <1>7, <1>8, <1>9, <1>10
         DEF IInv

LEMMA ProcessAcceptKeeps ==
  ASSUME IInv, NEW t \in Threads, ProcessAccept(t)
  PROVE  IInv'
<1> USE DEF ProcessAccept, Goto
<1>1. Types'
  BY DEF IInv, Types
<1>2. Locals'
  BY DEF IInv, Locals
<1>3. NoSlotLost'
  BY DEF IInv, NoSlotLost
<1>4. WaitingIsUnknown'
  BY DEF IInv, WaitingIsUnknown
<1>5. NewIsAlone'
  BY DEF IInv, NewIsAlone
<1>6. OneReceiver'
  BY DEF IInv, OneReceiver
<1>7. NoDeafSession'
  BY DEF IInv, NoDeafSession
<1>8. ConnectedIsKnown'
  BY DEF IInv, ConnectedIsKnown
<1>9. RemoverIsAlone'
  BY DEF IInv, RemoverIsAlone
<1>10. LeavingIsPursued'
  BY DEF IInv, LeavingIsPursued
<1> QED  BY <1>1, <1>2, <1>3, <1>4, <1>5, <1>6, <1>7, <1>8, <1>9, <1>10
         DEF IInv

LEMMA ProcessConnectKeeps ==
  ASSUME IInv, NEW t \in Threads, ProcessConnect(t)
  PROVE  IInv'
<1> USE DEF ProcessConnect, Goto
<1>1. Types'
  BY DEF IInv, Types
<1>2. Locals'
  BY DEF IInv, Locals
<1>3. NoSlotLost'
  BY DEF IInv, NoSlotLost
<1>4. WaitingIsUnknown'
  BY DEF IInv, WaitingIsUnknown
<1>5. NewIsAlone'
  BY DEF IInv, NewIsAlone
<1>6. OneReceiver'
  BY DEF IInv, OneReceiver
<1>7. NoDeafSession'
  BY DEF IInv, Types, NoDeafSession
<1>8. ConnectedIsKnown'
  BY DEF IInv, Types, NewIsAlone, ConnectedIsKnown
<1>9. RemoverIsAlone'
  BY DEF IInv, RemoverIsAlone
<1>10. LeavingIsPursued'
  BY DEF IInv, Types, Locals, LeavingIsPursued
<1> QED  BY <1>1, <1>2, <1>3, <1>4, <1>5, <1>6, <1>7, <1>8, <1>9, <1>10
         DEF IInv

LEMMA AddSessionKeeps ==
  ASSUME IInv, NEW t \in Threads, AddSession(t)
  PROVE  IInv'
<1> USE DEF AddSession, Goto
<1>1. Types'
  <2>1. IsFiniteSet(sessions) /\ cur[t] \notin sessions
    BY FS_Subset DEF IInv, Types, NewIsAlone
  <2>2. sessionCount' = Cardinality(sessions')
    BY <2>1, FS_AddElement DEF IInv, Types
  <2> QED  BY <2>2 DEF IInv, Types, Locals
<1>2. Locals'
  BY DEF IInv, Locals
<1>3. NoSlotLost'
  BY DEF IInv, NoSlotLost
<1>4. WaitingIsUnknown'
  BY DEF IInv, Types, Locals, WaitingIsUnknown
<1>5. NewIsAlone'
  BY DEF IInv, Types, NewIsAlone
<1>6. OneReceiver'
  BY DEF IInv, OneReceiver
<1>7. NoDeafSession'
  BY DEF IInv, NoDeafSession
<1>8. ConnectedIsKnown'
  BY DEF IInv, ConnectedIsKnown
<1>9. RemoverIsAlone'
  BY DEF IInv, RemoverIsAlone
<1>10. LeavingIsPursued'
  BY DEF IInv, LeavingIsPursued
<1> QED  BY <1>1, <1>2, <1>3, <1>4, <1>5, <1>6, <1>7, <1>8, <1>9, <1>10
         DEF IInv

LEMMA OnConnectedKeeps ==
  ASSUME IInv, NEW t \in Threads, OnConnected(t)
  PROVE  IInv'
<1> USE DEF OnConnected, Goto
<1>1. Types'
  BY DEF IInv, Types, Locals
<1>2. Locals'
  BY DEF IInv, Locals
<1>3. NoSlotLost'
  BY DEF IInv, NoSlotLost
<1>4. WaitingIsUnknown'
  BY DEF IInv, Types, Locals, WaitingIsUnknown
<1>5. NewIsAlone'
  BY DEF IInv, Types, NewIsAlone
<1>6. OneReceiver'
  BY DEF IInv, NewIsAlone, OneReceiver
<1>7. NoDeafSession'
  BY DEF IInv, NoDeafSession
<1>8. ConnectedIsKnown'
  BY DEF IInv, ConnectedIsKnown
<1>9. RemoverIsAlone'
  BY DEF IInv, NewIsAlone, RemoverIsAlone
<1>10. LeavingIsPursued'
  BY DEF IInv, LeavingIsPursued
<1> QED  BY <1>1, <1>2, <1>3, <1>4, <1>5, <1>6, <1>7, <1>8, <1>9, <1>10
         DEF IInv

LEMMA RegisterRecvKeeps ==
  ASSUME IInv, NEW t \in Threads, RegisterRecv(t)
  PROVE  IInv'
<1> USE DEF RegisterRecv, Goto, AfterRegisterRecv
<1>0. ASSUME Disconnect({cur[t]})
      PROVE  Broken({cur[t]}) /\ ~connected'[cur[t]]
  BY <1>0, DisconnectBreaks DEF IInv, Types, Locals
<1> USE DEF Broken
<1>1. Types'
  BY <1>0 DEF IInv, Types, Locals
<1>2. Locals'
  BY <1>0 DEF IInv, Types, Locals
<1>3. NoSlotLost'
  BY <1>0 DEF IInv, Types, NoSlotLost
<1>4. WaitingIsUnknown'
  BY <1>0 DEF IInv, Types, Locals, WaitingIsUnknown
<1>5. NewIsAlone'
  BY <1>0 DEF IInv, Types, Locals, NewIsAlone
<1>6. OneReceiver'
  BY <1>0 DEF IInv, Types, OneReceiver
<1>7. NoDeafSession'
  BY <1>0 DEF IInv, Types, NoDeafSession
<1>8. ConnectedIsKnown'
  BY <1>0 DEF IInv, Types, ConnectedIsKnown
<1>9. RemoverIsAlone'
  BY <1>0 DEF IInv, Types, Locals, NewIsAlone, ConnectedIsKnown,
         RemoverIsAlone
<1>10. LeavingIsPursued'
  BY <1>0 DEF IInv, Types, Locals, NewIsAlone, LeavingIsPursued
<1> QED  BY <1>1, <1>2, <1>3, <1>4, <1>5, <1>6, <1>7, <1>8, <1>9, <1>10
         DEF IInv

LEMMA RegisterAcceptKeeps ==
  ASSUME IInv, NEW t \in Threads, RegisterAccept(t)
  PROVE  IInv'
<1> USE DEF RegisterAccept, Goto
<1>0. PICK s \in (Sessions \ created) \cup {NoSession}, ok \in BOOLEAN :
        /\ pc[t] = "RegisterAccept"
        /\ accept' = [accept EXCEPT ![slot[t]] =
                        [pending |-> ok, session |-> s]]
        /\ created' = created \cup ({s} \ {NoSession})
        /\ Goto(t, IF ok THEN "idle" ELSE "RegisterAccept")
        /\ UNCHANGED <<connVars, ioVars, regVars, gameVars>>
  <2>1. CASE created = Sessions
    <3>1. /\ accept' = [accept EXCEPT ![slot[t]] =
                          [pending |-> TRUE, session |-> NoSession]]
          /\ created' = created \cup ({NoSession} \ {NoSession})
          /\ Goto(t, IF TRUE THEN "idle" ELSE "RegisterAccept")
      BY <2>1
    <3> QED  BY <3>1
  <2>2. CASE created # Sessions
    BY <2>2 DEF IInv, Types
  <2> QED  BY <2>1, <2>2
<1> HIDE DEF RegisterAccept
<1>1. Types'
  BY <1>0 DEF IInv, Types, Locals
<1>2. Locals'
  BY <1>0 DEF IInv, Types, Locals
<1>3. NoSlotLost'
  BY <1>0 DEF IInv, Types, NoSlotLost
<1>4. WaitingIsUnknown'
  <2>1. /\ s \notin Reached \cup sessions
        /\ s # NoSession => /\ ~connected[s] /\ \A u \in Threads : cur[u] # s
                            /\ \A d \in Slots : accept[d].session # s
    BY DEF IInv, Types, ConnectedIsKnown
  <2>2. \A u \in Threads : cur'[u] \in {cur[u], NoSession}
    BY <1>0 DEF IInv, Types
  <2>3. /\ accept'[slot[t]].session = s
        /\ \A d \in Slots \ {slot[t]} : accept'[d] = accept[d]
    BY <1>0 DEF IInv, Types, Locals
  <2>4. UNCHANGED <<Reached, sessions, connected>>
    BY <1>0
  <2> QED  BY <2>1, <2>2, <2>3, <2>4 DEF IInv, WaitingIsUnknown
<1>5. NewIsAlone'
  BY <1>0 DEF IInv, Types, Locals, NewIsAlone
<1>6. OneReceiver'
  BY <1>0 DEF IInv, Types, OneReceiver
<1>7. NoDeafSession'
  BY <1>0 DEF IInv, Types, NoSlotLost, NewIsAlone, OneReceiver,
         NoDeafSession, RemoverIsAlone
<1>8. ConnectedIsKnown'
  BY <1>0 DEF IInv, Types, ConnectedIsKnown
<1>9. RemoverIsAlone'
  BY <1>0 DEF IInv, Types, RemoverIsAlone
<1>10. LeavingIsPursued'
  BY <1>0 DEF IInv, Types, LeavingIsPursued
<1> QED  BY <1>1, <1>2, <1>3, <1>4, <1>5, <1>6, <1>7, <1>8, <1>9, <1>10
         DEF IInv

LEMMA DispatchRecvKeeps ==
  ASSUME IInv, NEW t \in Threads, NEW s \in Sessions, DispatchRecv(t, s)
  PROVE  IInv'
<1> USE DEF DispatchRecv, Enter
<1>1. Types'
  BY DEF IInv, Types
<1>2. Locals'
  BY DEF IInv, Types, Locals
<1>3. NoSlotLost'
  BY DEF IInv, NoSlotLost
<1>4. WaitingIsUnknown'
  BY DEF IInv, WaitingIsUnknown
<1>5. NewIsAlone'
  BY DEF IInv, NewIsAlone
<1>6. OneReceiver'
  BY DEF IInv, Types, OneReceiver
<1>7. NoDeafSession'
  BY DEF IInv, Types, NoDeafSession
<1>8. ConnectedIsKnown'
  BY DEF IInv, ConnectedIsKnown
<1>9. RemoverIsAlone'
  BY DEF IInv, RemoverIsAlone
<1>10. LeavingIsPursued'
  BY DEF IInv, LeavingIsPursued
<1> QED  BY <1>1, <1>2, <1>3, <1>4, <1>5, <1>6, <1>7, <1>8, <1>9, <1>10
         DEF IInv

LEMMA ProcessRecvKeeps ==
  ASSUME IInv, NEW t \in Threads, ProcessRecv(t)
  PROVE  IInv'
<1> USE DEF ProcessRecv, Goto
<1>0. ASSUME Disconnect({cur[t]})
      PROVE  Broken({cur[t]}) /\ ~connected'[cur[t]]
  BY <1>0, DisconnectBreaks DEF IInv, Types, Locals
<1> USE DEF Broken
<1>1. Types'
  BY <1>0 DEF IInv, Types, Locals
<1>2. Locals'
  BY <1>0 DEF IInv, Types, Locals
<1>3. NoSlotLost'
  BY <1>0 DEF IInv, Types, Locals, NoSlotLost
<1>4. WaitingIsUnknown'
  BY <1>0 DEF IInv, Types, Locals, WaitingIsUnknown
<1>5. NewIsAlone'
  BY <1>0 DEF IInv, Types, Locals, NewIsAlone
<1>6. OneReceiver'
  BY <1>0 DEF IInv, Types, OneReceiver
<1>7. NoDeafSession'
  BY <1>0 DEF IInv, Types, NoDeafSession
<1>8. ConnectedIsKnown'
  BY <1>0 DEF IInv, Types, ConnectedIsKnown
<1>9. RemoverIsAlone'
  BY <1>0 DEF IInv, Types, Locals, NewIsAlone, ConnectedIsKnown,
         RemoverIsAlone
<1>10. LeavingIsPursued'
  BY <1>0 DEF IInv, Types, Locals, NewIsAlone, LeavingIsPursued
<1> QED  BY <1>1, <1>2, <1>3, <1>4, <1>5, <1>6, <1>7, <1>8, <1>9, <1>10
         DEF IInv

LEMMA HandleLoginKeeps ==
  ASSUME IInv, NEW t \in Threads, HandleLogin(t)
  PROVE  IInv'
<1> USE DEF HandleLogin
<1>0. /\ Broken({cur[t]}) /\ sendIo \subseteq sendIo'
      /\ sendIo' \subseteq sendIo \cup {cur[t]}
  BY SendBreaks DEF IInv, Types, Locals
<1> USE DEF Broken
<1>1. Types'
  BY <1>0 DEF IInv, Types, Locals
<1>2. Locals'
  BY <1>0 DEF IInv, Locals
<1>3. NoSlotLost'
  BY <1>0 DEF IInv, NoSlotLost
<1>4. WaitingIsUnknown'
  BY <1>0 DEF IInv, Types, Locals, WaitingIsUnknown
<1>5. NewIsAlone'
  BY <1>0 DEF IInv, NewIsAlone
<1>6. OneReceiver'
  BY <1>0 DEF IInv, OneReceiver
<1>7. NoDeafSession'
  BY <1>0 DEF IInv, NoDeafSession
<1>8. ConnectedIsKnown'
  BY <1>0 DEF IInv, ConnectedIsKnown
<1>9. RemoverIsAlone'
  BY <1>0 DEF IInv, Types, Locals, NewIsAlone, ConnectedIsKnown,
         RemoverIsAlone
<1>10. LeavingIsPursued'
  BY <1>0 DEF IInv, Types, Locals, NewIsAlone, LeavingIsPursued
<1> QED  BY <1>1, <1>2, <1>3, <1>4, <1>5, <1>6, <1>7, <1>8, <1>9, <1>10
         DEF IInv

LEMMA HandleEnterGameKeeps ==
  ASSUME IInv, NEW t \in Threads, HandleEnterGame(t)
  PROVE  IInv'
<1> USE DEF HandleEnterGame
<1>0. /\ Broken({cur[t]}) /\ sendIo \subseteq sendIo'
      /\ sendIo' \subseteq sendIo \cup {cur[t]}
  BY SendBreaks DEF IInv, Types, Locals
<1> USE DEF Broken
<1>1. Types'
  BY <1>0 DEF IInv, Types
<1>2. Locals'
  BY <1>0 DEF IInv, Locals
<1>3. NoSlotLost'
  BY <1>0 DEF IInv, NoSlotLost
<1>4. WaitingIsUnknown'
  BY <1>0 DEF IInv, Types, WaitingIsUnknown
<1>5. NewIsAlone'
  BY <1>0 DEF IInv, NewIsAlone
<1>6. OneReceiver'
  BY <1>0 DEF IInv, OneReceiver
<1>7. NoDeafSession'
  BY <1>0 DEF IInv, NoDeafSession
<1>8. ConnectedIsKnown'
  BY <1>0 DEF IInv, ConnectedIsKnown
<1>9. RemoverIsAlone'
  BY <1>0 DEF IInv, Types, NewIsAlone, ConnectedIsKnown, RemoverIsAlone
<1>10. LeavingIsPursued'
  BY <1>0 DEF IInv, Types, Locals, NewIsAlone, LeavingIsPursued
<1> QED  BY <1>1, <1>2, <1>3, <1>4, <1>5, <1>6, <1>7, <1>8, <1>9, <1>10
         DEF IInv

LEMMA HandleChatKeeps ==
  ASSUME IInv, NEW t \in Threads, HandleChat(t)
  PROVE  IInv'
<1> USE DEF HandleChat
<1>0. /\ Broken(room) /\ sendIo \subseteq sendIo'
      /\ sendIo' \subseteq sendIo \cup room
  BY SendBreaks DEF IInv, Types, Locals
<1> USE DEF Broken
<1>1. Types'
  BY <1>0 DEF IInv, Types
<1>2. Locals'
  BY <1>0 DEF IInv, Locals
<1>3. NoSlotLost'
  BY <1>0 DEF IInv, NoSlotLost
<1>4. WaitingIsUnknown'
  BY <1>0 DEF IInv, Types, WaitingIsUnknown
<1>5. NewIsAlone'
  BY <1>0 DEF IInv, NewIsAlone
<1>6. OneReceiver'
  BY <1>0 DEF IInv, OneReceiver
<1>7. NoDeafSession'
  BY <1>0 DEF IInv, NoDeafSession
<1>8. ConnectedIsKnown'
  BY <1>0 DEF IInv, ConnectedIsKnown
<1>9. RemoverIsAlone'
  BY <1>0 DEF IInv, Types, NewIsAlone, ConnectedIsKnown, RemoverIsAlone
<1>10. LeavingIsPursued'
  BY <1>0 DEF IInv, Types, Locals, NewIsAlone, LeavingIsPursued
<1> QED  BY <1>1, <1>2, <1>3, <1>4, <1>5, <1>6, <1>7, <1>8, <1>9, <1>10
         DEF IInv

LEMMA EndOnRecvKeeps ==
  ASSUME IInv, NEW t \in Threads, EndOnRecv(t)
  PROVE  IInv'
<1> USE DEF EndOnRecv, Goto
<1>1. Types'
  BY DEF IInv, Types
<1>2. Locals'
  BY DEF IInv, Locals
<1>3. NoSlotLost'
  BY DEF IInv, NoSlotLost
<1>4. WaitingIsUnknown'
  BY DEF IInv, WaitingIsUnknown
<1>5. NewIsAlone'
  BY DEF IInv, NewIsAlone
<1>6. OneReceiver'
  BY DEF IInv, OneReceiver
<1>7. NoDeafSession'
  BY DEF IInv, NoDeafSession
<1>8. ConnectedIsKnown'
  BY DEF IInv, ConnectedIsKnown
<1>9. RemoverIsAlone'
  BY DEF IInv, RemoverIsAlone
<1>10. LeavingIsPursued'
  BY DEF IInv, LeavingIsPursued
<1> QED  BY <1>1, <1>2, <1>3, <1>4, <1>5, <1>6, <1>7, <1>8, <1>9, <1>10
         DEF IInv

LEMMA DispatchSendKeeps ==
  ASSUME IInv, NEW t \in Threads, NEW s \in Sessions, DispatchSend(t, s)
  PROVE  IInv'
<1> USE DEF DispatchSend
<1>0. ASSUME Disconnect({s})
      PROVE  Broken({s}) /\ ~connected'[s]
  BY <1>0, DisconnectBreaks DEF IInv, Types, Locals
<1> USE DEF Broken
<1>1. Types'
  BY <1>0 DEF IInv, Types
<1>2. Locals'
  BY <1>0 DEF IInv, Locals
<1>3. NoSlotLost'
  BY <1>0 DEF IInv, NoSlotLost
<1>4. WaitingIsUnknown'
  BY <1>0 DEF IInv, Types, WaitingIsUnknown
<1>5. NewIsAlone'
  BY <1>0 DEF IInv, NewIsAlone
<1>6. OneReceiver'
  BY <1>0 DEF IInv, OneReceiver
<1>7. NoDeafSession'
  BY <1>0 DEF IInv, NoDeafSession
<1>8. ConnectedIsKnown'
  BY <1>0 DEF IInv, ConnectedIsKnown
<1>9. RemoverIsAlone'
  BY <1>0 DEF IInv, NewIsAlone, ConnectedIsKnown, RemoverIsAlone
<1>10. LeavingIsPursued'
  BY <1>0 DEF IInv, Types, Locals, NewIsAlone, LeavingIsPursued
<1> QED  BY <1>1, <1>2, <1>3, <1>4, <1>5, <1>6, <1>7, <1>8, <1>9, <1>10
         DEF IInv

LEMMA DispatchDisconnectKeeps ==
  ASSUME IInv, NEW t \in Threads, NEW s \in Sessions, DispatchDisconnect(t, s)
  PROVE  IInv'
<1> USE DEF DispatchDisconnect, Enter
<1>1. Types'
  BY DEF IInv, Types
<1>2. Locals'
  BY DEF IInv, Types, Locals
<1>3. NoSlotLost'
  BY DEF IInv, NoSlotLost
<1>4. WaitingIsUnknown'
  BY DEF IInv, WaitingIsUnknown
<1>5. NewIsAlone'
  BY DEF IInv, NewIsAlone
<1>6. OneReceiver'
  BY DEF IInv, OneReceiver
<1>7. NoDeafSession'
  BY DEF IInv, NoDeafSession
<1>8. ConnectedIsKnown'
  BY DEF IInv, ConnectedIsKnown
<1>9. RemoverIsAlone'
  BY DEF IInv, Types, RemoverIsAlone
<1>10. LeavingIsPursued'
  BY DEF IInv, Types, LeavingIsPursued
<1> QED  BY <1>1, <1>2, <1>3, <1>4, <1>5, <1>6, <1>7, <1>8, <1>9, <1>10
         DEF IInv

LEMMA OnDisconnectedKeeps ==
  ASSUME IInv, NEW t \in Threads, OnDisconnected(t)
  PROVE  IInv'
<1> USE DEF OnDisconnected, Goto
<1>1. Types'
  BY DEF IInv, Types
<1>2. Locals'
  BY DEF IInv, Locals
<1>3. NoSlotLost'
  BY DEF IInv, NoSlotLost
<1>4. WaitingIsUnknown'
  BY DEF IInv, WaitingIsUnknown
<1>5. NewIsAlone'
  BY DEF IInv, NewIsAlone
<1>6. OneReceiver'
  BY DEF IInv, OneReceiver
<1>7. NoDeafSession'
  BY DEF IInv, NoDeafSession
<1>8. ConnectedIsKnown'
  BY DEF IInv, ConnectedIsKnown, RemoverIsAlone
<1>9. RemoverIsAlone'
  BY DEF IInv, Types, RemoverIsAlone
<1>10. LeavingIsPursued'
  BY DEF IInv, LeavingIsPursued
<1> QED  BY <1>1, <1>2, <1>3, <1>4, <1>5, <1>6, <1>7, <1>8, <1>9, <1>10
         DEF IInv

LEMMA RemoveSessionKeeps ==
  ASSUME IInv, NEW t \in Threads, RemoveSession(t)
  PROVE  IInv'
<1> USE DEF RemoveSession, Goto
<1>1. Types'
  <2>1. IsFiniteSet(sessions) /\ cur[t] \in sessions
    BY FS_Subset DEF IInv, Types, RemoverIsAlone
  <2>2. sessionCount' = Cardinality(sessions')
    BY <2>1, FS_RemoveElement DEF IInv, Types
  <2> QED  BY <2>1, <2>2 DEF IInv, Types, Locals
<1>2. Locals'
  BY DEF IInv, Types, Locals
<1>3. NoSlotLost'
  BY DEF IInv, Types, Locals, NoSlotLost
<1>4. WaitingIsUnknown'
  BY DEF IInv, Types, WaitingIsUnknown
<1>5. NewIsAlone'
  BY DEF IInv, Types, Locals, NewIsAlone
<1>6. OneReceiver'
  BY DEF IInv, Types, OneReceiver
<1>7. NoDeafSession'
  BY DEF IInv, Types, NoDeafSession
<1>8. ConnectedIsKnown'
  BY DEF IInv, Types, ConnectedIsKnown
<1>9. RemoverIsAlone'
  BY DEF IInv, Types, RemoverIsAlone
<1>10. LeavingIsPursued'
  BY DEF IInv, Types, LeavingIsPursued
<1> QED  BY <1>1, <1>2, <1>3, <1>4, <1>5, <1>6, <1>7, <1>8, <1>9, <1>10
         DEF IInv

LEMMA InitIInv == Init => IInv
<1> SUFFICES ASSUME Init PROVE IInv
  OBVIOUS
<1>1. PICK f \in [Slots -> Sessions] :
        /\ \A d, e \in Slots : d # e => f[d] # f[e]
        /\ accept = [e \in Slots |-> [pending |-> TRUE, session |-> f[e]]]
        /\ created = {f[e] : e \in Slots}
  BY DEF Init
<1>2. Types
  BY <1>1, FS_EmptySet DEF Init, Types
<1>3. Locals /\ NoSlotLost
  BY <1>1 DEF Init, Locals, NoSlotLost
<1>4. WaitingIsUnknown
  BY <1>1 DEF Init, WaitingIsUnknown
<1>5. /\ NewIsAlone /\ OneReceiver /\ NoDeafSession
      /\ ConnectedIsKnown /\ RemoverIsAlone /\ LeavingIsPursued
  BY DEF Init, NewIsAlone, OneReceiver, NoDeafSession, ConnectedIsKnown,
         RemoverIsAlone, LeavingIsPursued
<1> QED  BY <1>2, <1>3, <1>4, <1>5 DEF IInv

LEMMA NextKeeps == IInv /\ [Next]_vars => IInv'
<1> SUFFICES ASSUME IInv, [Next]_vars PROVE IInv'
  OBVIOUS
<1>1. ASSUME NEW t \in Threads, Dispatch(t) PROVE IInv'
  BY <1>1, DispatchAcceptKeeps, DispatchRecvKeeps, DispatchSendKeeps,
     DispatchDisconnectKeeps DEF Dispatch
<1>2. ASSUME NEW t \in Threads, Handle(t) PROVE IInv'
  BY <1>2, HandleLoginKeeps, HandleEnterGameKeeps, HandleChatKeeps DEF Handle
<1>3. ASSUME NEW t \in Threads, Step(t) PROVE IInv'
  BY <1>3, ProcessAcceptKeeps, ProcessConnectKeeps, AddSessionKeeps,
     OnConnectedKeeps, RegisterRecvKeeps, RegisterAcceptKeeps,
     ProcessRecvKeeps, EndOnRecvKeeps, OnDisconnectedKeeps,
     RemoveSessionKeeps DEF Step
<1>4. CASE UNCHANGED vars
  BY <1>4 DEF vars, IInv, Types, Locals, NoSlotLost, WaitingIsUnknown,
     NewIsAlone, OneReceiver, NoDeafSession, ConnectedIsKnown, RemoverIsAlone,
     LeavingIsPursued
<1> QED  BY <1>1, <1>2, <1>3, <1>4 DEF Next, Quiescent

(* The inductive invariant holds in every state.                           *)
THEOREM Invariance == Spec => []IInv
<1> QED  BY InitIInv, NextKeeps, PTL DEF Spec

-----------------------------------------------------------------------------
(* Every variable has its type; no registry holds more sessions than were  *)
(* created (Service.cpp:45-57, Listener.cpp:81-125).                       *)
THEOREM TypeCorrect == Spec => []TypeOK
<1>1. IInv => TypeOK
  <2> SUFFICES ASSUME IInv PROVE TypeOK
    OBVIOUS
  <2>1. sessionCount \in 0..Cardinality(Sessions)
    <3>1. sessions \subseteq Sessions /\ sessionCount = Cardinality(sessions)
      BY DEF IInv, Types
    <3> QED  BY <3>1, FS_Subset, FS_CardinalityType
  <2>2. accept \in [Slots -> [pending : BOOLEAN,
                              session : Sessions \cup {NoSession}]]
    BY DEF IInv, Types
  <2> QED  BY <2>1, <2>2 DEF IInv, Types, TypeOK
<1> QED  BY <1>1, Invariance, PTL

(* RemoveSession always finds its session: the ASSERT_CRASH never fires,   *)
(* whichever handlers disconnect (Service.cpp:52-57).                      *)
THEOREM RemoveFindsSession == Spec => []RemoveNeverCrashes
<1>1. IInv => RemoveNeverCrashes
  BY DEF IInv, Types, RemoverIsAlone, RemoveNeverCrashes
<1> QED  BY <1>1, Invariance, PTL

(* The receive path needs no lock: it has one thread at a time, and none   *)
(* while a WSARecv is outstanding (Session.cpp:124-145, 222-254).          *)
THEOREM ReceiverIsAlone == Spec => []OneReceiver
<1>1. IInv => OneReceiver
  BY DEF IInv
<1> QED  BY <1>1, Invariance, PTL

(* Both registries agree about every session that receives, and the        *)
(* service counts right (Session.cpp:202-220, Service.cpp:45-57).          *)
THEOREM RegistriesStayTogether == Spec => []RegistriesAgree
<1>1. IInv => RegistriesAgree
  <2> SUFFICES ASSUME IInv PROVE RegistriesAgree
    OBVIOUS
  <2>1. ASSUME NEW s \in Sessions, connected[s],
               s \in recvIo \/ Receiving(s) # {}
        PROVE  s \in gsessions
    BY <2>1 DEF IInv, ConnectedIsKnown, NewIsAlone
  <2>2. \A s \in sessions :
          \/ connected[s] \/ s \in discIo \cup refused
          \/ \E t \in Threads :
               cur[t] = s /\ pc[t] \in {"OnDisconnected", "RemoveSession"}
    BY DEF IInv, LeavingIsPursued
  <2> QED  BY <2>1, <2>2 DEF IInv, Types, RemoverIsAlone, RegistriesAgree
<1> QED  BY <1>1, Invariance, PTL

(* A connected session is listened to, unless WSARecv was refused with an  *)
(* error that is ignored (Session.cpp:124-145, 222-254).                   *)
THEOREM NobodyIsDeaf == Spec => []NoDeafSession
<1>1. IInv => NoDeafSession
  BY DEF IInv
<1> QED  BY <1>1, Invariance, PTL

(* The server takes as many clients as it has accept events: each waits or *)
(* is in the hands of one thread (Listener.cpp:81-125).                    *)
THEOREM SlotsAreKept == Spec => []NoSlotLost
<1>1. IInv => NoSlotLost
  BY DEF IInv
<1> QED  BY <1>1, Invariance, PTL

(* A session that has been taken out of the service is not registered,     *)
(* handed out or connected again (Session.cpp:198-220).                    *)
GoneForGood ==
  [][\A s \in dead \ sessions :
       s \notin sessions' \cup gsessions' /\ ~connected'[s]]_vars

(* A session that has been taken out of the service comes back in neither  *)
(* registry (Session.cpp:198-220).                                         *)
THEOREM NobodyComesBack == Spec => GoneForGood
<1>1. IInv /\ IInv' /\ [Next]_vars =>
        [\A s \in dead \ sessions :
           s \notin sessions' \cup gsessions' /\ ~connected'[s]]_vars
  <2> SUFFICES ASSUME IInv, IInv', Next, NEW s \in dead \ sessions
               PROVE  s \notin sessions' \cup gsessions' /\ ~connected'[s]
    OBVIOUS
  <2>1. s \in Sessions /\ s \in dead'
    BY DEF IInv, Types, Next, Quiescent, vars, Dispatch, Handle, Step,
           DispatchAccept, DispatchRecv, DispatchSend, DispatchDisconnect,
           HandleLogin, HandleEnterGame, HandleChat, ProcessAccept,
           ProcessConnect, AddSession, OnConnected, RegisterRecv,
           RegisterAccept, ProcessRecv, EndOnRecv, OnDisconnected,
           RemoveSession
  <2>2. ~connected'[s] /\ s \in created'
    BY <2>1 DEF IInv, Types, ConnectedIsKnown
  <2>3. s \notin sessions'
    <3>1. sessions' \subseteq sessions
            \/ \E t \in Threads : AddSession(t)
      BY DEF Next, Quiescent, vars, Dispatch, Handle, Step,
           DispatchAccept, DispatchRecv, DispatchSend, DispatchDisconnect,
           HandleLogin, HandleEnterGame, HandleChat, ProcessAccept,
           ProcessConnect, OnConnected, RegisterRecv,
           RegisterAccept, ProcessRecv, EndOnRecv, OnDisconnected,
           RemoveSession
    <3>2. ASSUME NEW t \in Threads, AddSession(t) PROVE s \notin sessions'
      BY <3>2 DEF AddSession, IInv, NewIsAlone
    <3> QED  BY <3>1, <3>2
  <2>4. s \notin gsessions'
    BY <2>3 DEF IInv, RemoverIsAlone
  <2> QED  BY <2>2, <2>3, <2>4
<1> QED  BY <1>1, Invariance, PTL DEF Spec, GoneForGood

-----------------------------------------------------------------------------
(* The refinement of SessionRegistry: the session with which a worker      *)
(* changes a registry is in the state that the registry's step asks for.   *)

\* Whoever can break a connection knows the session, which is published.
LEMMA KnownIsPublished ==
  ASSUME IInv, NEW s \in Sessions, connected[s],
         s \in Reached \/ \E t \in Threads :
                            cur[t] = s /\ pc[t] \notin NewLabels
  PROVE  s \in gsessions
BY DEF IInv, Types, Locals, NewIsAlone, ConnectedIsKnown

\* Where nothing but connections breaks, the registry's step is a Drop.
LEMMA BreakingIsDrop ==
  ASSUME IInv, NEW S \in SUBSET Sessions, Broken(S),
         \A s \in S : connected[s] => s \in gsessions,
         UNCHANGED <<sessions, gsessions, dead>>
  PROVE  Registry!Next
<1>1. PICK D \in SUBSET Sessions :
        \A s \in Sessions : s \in D <=> connected[s] /\ ~connected'[s]
  <2> DEFINE D == {s \in Sessions : connected[s] /\ ~connected'[s]}
  <2>1. D \in SUBSET Sessions
    OBVIOUS
  <2>2. \A s \in Sessions : s \in D <=> connected[s] /\ ~connected'[s]
    OBVIOUS
  <2> QED  BY <2>1, <2>2
<1>2. Registry!Drop(D)
  BY <1>1 DEF Broken, Registry!Drop
<1> QED  BY <1>2 DEF Registry!Next

\* The receive path, the handlers and the sends can only break connections.
LEMMA HandlersOnlyDrop ==
  ASSUME IInv, NEW t \in Threads,
         \/ RegisterRecv(t) \/ ProcessRecv(t)
         \/ HandleLogin(t) \/ HandleEnterGame(t) \/ HandleChat(t)
  PROVE  Registry!Next \/ UNCHANGED Registry!regVars
<1>1. /\ UNCHANGED <<sessions, gsessions, dead>>
      /\ pc[t] \in {"RegisterRecv", "ProcessRecv", "OnRecv"}
  BY DEF RegisterRecv, ProcessRecv, HandleLogin, HandleEnterGame, HandleChat
<1>2. cur[t] \in Sessions /\ room \subseteq Sessions
  BY <1>1 DEF IInv, Types, Locals
<1>3. connected[cur[t]] => cur[t] \in gsessions
  BY <1>1, <1>2, KnownIsPublished
<1>4. \A s \in room : connected[s] => s \in gsessions
  BY <1>2, KnownIsPublished
<1>5. CASE Disconnect({cur[t]})
  <2>1. Broken({cur[t]})
    BY <1>2, <1>5, DisconnectBreaks DEF IInv, Types
  <2> QED  BY <2>1, <1>1, <1>2, <1>3, BreakingIsDrop
<1>6. CASE Send({cur[t]})
  <2>1. Broken({cur[t]})
    BY <1>2, <1>6, SendBreaks DEF IInv, Types
  <2> QED  BY <2>1, <1>1, <1>2, <1>3, BreakingIsDrop
<1>7. CASE Send(room)
  <2>1. Broken(room)
    BY <1>2, <1>7, SendBreaks DEF IInv, Types
  <2> QED  BY <2>1, <1>1, <1>2, <1>4, BreakingIsDrop
<1>8. CASE UNCHANGED connected
  BY <1>1, <1>8 DEF Registry!regVars
<1> QED
  BY <1>5, <1>6, <1>7, <1>8
     DEF RegisterRecv, ProcessRecv, HandleLogin, HandleEnterGame, HandleChat

LEMMA SendCompletionsOnlyDrop ==
  ASSUME IInv, NEW t \in Threads, NEW s \in Sessions, DispatchSend(t, s)
  PROVE  Registry!Next \/ UNCHANGED Registry!regVars
<1>1. s \in sendIo /\ UNCHANGED <<sessions, gsessions, dead>>
  BY DEF DispatchSend
<1>2. connected[s] => s \in gsessions
  BY <1>1, KnownIsPublished
<1>3. CASE Disconnect({s})
  <2>1. Broken({s})
    BY <1>3, DisconnectBreaks DEF IInv, Types
  <2> QED  BY <2>1, <1>1, <1>2, BreakingIsDrop
<1>4. CASE UNCHANGED connected
  BY <1>1, <1>4 DEF Registry!regVars
<1> QED  BY <1>3, <1>4 DEF DispatchSend

\* A worker alone with a session connects, registers and publishes it.
LEMMA ConnectingIsInOrder ==
  ASSUME IInv, NEW t \in Threads,
         ProcessConnect(t) \/ AddSession(t) \/ OnConnected(t)
  PROVE  Registry!Next
<1>0. PICK s : s = cur[t]
  OBVIOUS
<1>1. s \in Sessions /\ s \notin Reached
  BY <1>0 DEF IInv, Types, Locals, NewIsAlone, ProcessConnect, AddSession,
         OnConnected
<1>2. CASE ProcessConnect(t)
  <2>1. ~connected[s] /\ s \notin sessions
    BY <1>0, <1>1, <1>2 DEF IInv, NewIsAlone, ConnectedIsKnown, ProcessConnect
  <2>2. Registry!Connect(s)
    BY <1>0, <1>1, <1>2, <2>1 DEF IInv, Types, Registry!Connect, ProcessConnect
  <2> QED  BY <1>1, <2>2 DEF Registry!Next
<1>3. CASE AddSession(t)
  <2>1. connected[s] /\ s \notin sessions
    BY <1>0, <1>3 DEF IInv, NewIsAlone, LeavingIsPursued, AddSession
  <2>2. Registry!Register(s)
    BY <1>0, <1>1, <1>3, <2>1 DEF Registry!Register, AddSession
  <2> QED  BY <1>1, <2>2 DEF Registry!Next
<1>4. CASE OnConnected(t)
  <2>1. connected[s] /\ s \in sessions
    BY <1>0, <1>4 DEF IInv, NewIsAlone, LeavingIsPursued, OnConnected
  <2>2. Registry!Publish(s)
    BY <1>0, <1>1, <1>4, <2>1 DEF Registry!Publish, OnConnected
  <2> QED  BY <1>1, <2>2 DEF Registry!Next
<1> QED  BY <1>2, <1>3, <1>4

\* The worker that has the right to remove a session withdraws it first.
LEMMA RemovingIsInOrder ==
  ASSUME IInv, NEW t \in Threads, OnDisconnected(t) \/ RemoveSession(t)
  PROVE  Registry!Next
<1>0. PICK s : s = cur[t]
  OBVIOUS
<1>1. s \in Sessions /\ s \in sessions \cap dead
  BY <1>0
     DEF IInv, Types, Locals, RemoverIsAlone, OnDisconnected, RemoveSession
<1>2. CASE OnDisconnected(t)
  <2>1. Registry!Withdraw(s)
    BY <1>0, <1>1, <1>2
       DEF IInv, RemoverIsAlone, Registry!Withdraw, OnDisconnected
  <2> QED  BY <1>1, <2>1 DEF Registry!Next
<1>3. CASE RemoveSession(t)
  <2>1. Registry!Deregister(s)
    BY <1>0, <1>1, <1>3
       DEF IInv, RemoverIsAlone, Registry!Deregister, RemoveSession
  <2> QED  BY <1>1, <2>1 DEF Registry!Next
<1> QED  BY <1>2, <1>3

LEMMA ClosingIsInOrder ==
  ASSUME IInv, NEW t \in Threads, NEW s \in Sessions,
         DispatchDisconnect(t, s)
  PROVE  Registry!Next
<1>1. s \in gsessions \ dead /\ ~connected[s]
  BY DEF IInv, ConnectedIsKnown, RemoverIsAlone, DispatchDisconnect
<1>2. Registry!Close(s)
  BY <1>1 DEF Registry!Close, DispatchDisconnect
<1> QED  BY <1>2 DEF Registry!Next

LEMMA OthersStutter ==
  ASSUME NEW t \in Threads,
         \/ \E e \in Slots : DispatchAccept(t, e)
         \/ \E s \in Sessions : DispatchRecv(t, s)
         \/ ProcessAccept(t) \/ RegisterAccept(t) \/ EndOnRecv(t)
  PROVE  UNCHANGED Registry!regVars
BY DEF DispatchAccept, DispatchRecv, ProcessAccept, RegisterAccept, EndOnRecv,
       Registry!regVars

(* The life cycle implements SessionRegistry: every session goes through   *)
(* its life once and in order, for any number of workers and sessions      *)
(* (Session.cpp:49-58, 198-220, Service.cpp:45-57).                        *)
THEOREM Refinement == Spec => ImplementsRegistry
<1>1. Init => Registry!Init
  BY DEF Init, Registry!Init
<1>2. IInv /\ [Next]_vars => [Registry!Next]_(Registry!regVars)
  <2> SUFFICES ASSUME IInv, [Next]_vars
               PROVE  Registry!Next \/ UNCHANGED Registry!regVars
    OBVIOUS
  <2>1. ASSUME NEW t \in Threads, Dispatch(t)
        PROVE  Registry!Next \/ UNCHANGED Registry!regVars
    BY <2>1, OthersStutter, SendCompletionsOnlyDrop, ClosingIsInOrder
       DEF Dispatch
  <2>2. ASSUME NEW t \in Threads, Handle(t)
        PROVE  Registry!Next \/ UNCHANGED Registry!regVars
    BY <2>2, HandlersOnlyDrop DEF Handle
  <2>3. ASSUME NEW t \in Threads, Step(t)
        PROVE  Registry!Next \/ UNCHANGED Registry!regVars
    BY <2>3, OthersStutter, HandlersOnlyDrop, ConnectingIsInOrder,
       RemovingIsInOrder DEF Step
  <2>4. CASE UNCHANGED vars
    BY <2>4 DEF vars, Registry!regVars
  <2> QED  BY <2>1, <2>2, <2>3, <2>4 DEF Next, Quiescent
<1> QED  BY <1>1, <1>2, Invariance, PTL
            DEF Spec, ImplementsRegistry, Registry!Spec

-----------------------------------------------------------------------------
(* Who keeps a session that is closed: the safety half of                  *)
(* DisconnectedIsReleased.                                                 *)

\* A session that nobody but its accept event knows.
Unknown(s) ==
  /\ s \notin Reached \cup sessions /\ ~connected[s]
  /\ \A t \in Threads : cur[t] # s
  /\ \A e \in Slots : accept[e].pending => accept[e].session # s

(* The event in a worker's hands has the session that the worker connects, *)
(* or one that it got in vain, as its AcceptEx was refused; a worker at    *)
(* the port has none; and only who has logged in enters the room.          *)
HoldersInv ==
  /\ room \subseteq loggedIn
  /\ \A t \in Threads : pc[t] = "idle" => cur[t] = NoSession
  /\ \A t \in Threads : slot[t] \in Slots =>
       \E s \in created :
         accept[slot[t]].session = s /\ (s = cur[t] \/ Unknown(s))

(* A session that has not logged in and was taken out of the service is    *)
(* kept by completions that the kernel owes it and by workers on their way *)
(* back to the port, and by nothing else: no registry, no room, and no     *)
(* accept event, but through such a worker (Session.cpp:106-145, 214-254,  *)
(* Listener.cpp:81-125).                                                   *)
OnlyWorkersKeepTheDead ==
  \A s \in dead \ (sessions \cup loggedIn) :
    /\ s \notin gsessions \cup room \cup discIo
    /\ \A t \in Threads : cur[t] = s =>
         pc[t] \in {"ProcessRecv", "OnRecv", "RegisterRecv", "RegisterAccept"}
    /\ \A e \in Slots : accept[e].session = s =>
         \E t \in Threads : slot[t] = e /\ cur[t] = s

\* What is unknown stays so: whoever does a step knows the session it is for.
LEMMA UnknownStays ==
  ASSUME IInv, NEW s \in created, Unknown(s), [Next]_vars
  PROVE  Unknown(s)'
<1>t. /\ Types /\ Locals /\ s \in Sessions
      /\ \A t \in Threads : cur[t] # s
  BY DEF IInv, Types, Unknown
<1>1. ASSUME NEW t \in Threads, NEW e \in Slots, DispatchAccept(t, e)
      PROVE  Unknown(s)'
  BY <1>t, <1>1 DEF Types, DispatchAccept, Enter, Unknown
<1>2. ASSUME NEW t \in Threads, NEW r \in Sessions,
             DispatchRecv(t, r) \/ DispatchDisconnect(t, r)
      PROVE  Unknown(s)'
  BY <1>t, <1>2 DEF Types, DispatchRecv, DispatchDisconnect, Enter, Unknown
<1>3. ASSUME NEW t \in Threads, NEW r \in Sessions, DispatchSend(t, r)
      PROVE  Unknown(s)'
  BY <1>t, <1>3, DisconnectBreaks DEF Types, DispatchSend, Unknown, Broken
<1>4. ASSUME NEW t \in Threads,
             HandleLogin(t) \/ HandleEnterGame(t) \/ HandleChat(t)
      PROVE  Unknown(s)'
  <2>1. cur[t] \in Sessions /\ room \subseteq Sessions
    BY <1>t, <1>4 DEF Types, Locals, HandleLogin, HandleEnterGame, HandleChat
  <2>2. PICK S \in SUBSET Sessions : Send(S) /\ S \subseteq {cur[t]} \cup room
    BY <1>4, <2>1 DEF HandleLogin, HandleEnterGame, HandleChat
  <2>3. /\ Broken(S)
        /\ sendIo \subseteq sendIo' /\ sendIo' \subseteq sendIo \cup S
    BY <1>t, <2>2, SendBreaks DEF Types
  <2> QED
    BY <1>t, <1>4, <2>2, <2>3
       DEF HandleLogin, HandleEnterGame, HandleChat, Unknown, Broken
<1>5. ASSUME NEW t \in Threads, RegisterRecv(t) \/ ProcessRecv(t)
      PROVE  Unknown(s)'
  <2>1. cur[t] \in Sessions
    BY <1>t, <1>5 DEF Types, Locals, RegisterRecv, ProcessRecv
  <2>2. Disconnect({cur[t]}) => Broken({cur[t]})
    BY <1>t, <2>1, DisconnectBreaks DEF Types
  <2> QED
    BY <1>t, <1>5, <2>2 DEF Types, RegisterRecv, ProcessRecv, Goto, Unknown,
       Broken
<1>6. ASSUME NEW t \in Threads, RegisterAccept(t) PROVE Unknown(s)'
  BY <1>t, <1>6 DEF Types, Locals, RegisterAccept, Goto, Unknown
<1>7. ASSUME NEW t \in Threads,
             \/ ProcessAccept(t) \/ ProcessConnect(t) \/ AddSession(t)
             \/ OnConnected(t) \/ EndOnRecv(t) \/ OnDisconnected(t)
             \/ RemoveSession(t)
      PROVE  Unknown(s)'
  BY <1>t, <1>7 DEF Types, ProcessAccept, ProcessConnect, AddSession,
     OnConnected, EndOnRecv, OnDisconnected, RemoveSession, Goto, Unknown
<1>8. CASE UNCHANGED vars
  BY <1>8 DEF vars, Unknown
<1> QED
  BY <1>1, <1>2, <1>3, <1>4, <1>5, <1>6, <1>7, <1>8
     DEF Next, Quiescent, Dispatch, Handle, Step

\* Where an event and its worker go on as they are, so does what they hold.
LEMMA HoldersStay ==
  ASSUME IInv, HoldersInv, [Next]_vars, NEW t \in Threads,
         slot[t] \in Slots, slot'[t] = slot[t], cur'[t] = cur[t],
         accept'[slot[t]].session = accept[slot[t]].session,
         created \subseteq created'
  PROVE  \E s \in created' : /\ accept'[slot'[t]].session = s
                             /\ s = cur'[t] \/ Unknown(s)'
<1>1. PICK s \in created :
        accept[slot[t]].session = s /\ (s = cur[t] \/ Unknown(s))
  BY DEF HoldersInv
<1>2. Unknown(s) => Unknown(s)'
  BY UnknownStays
<1> QED  BY <1>1, <1>2

LEMMA HoldersInit == Init => HoldersInv
BY DEF Init, HoldersInv

\* A worker gives up its session as it returns to the port.
LEMMA IdleHasNone ==
  ASSUME IInv, HoldersInv, [Next]_vars, NEW t \in Threads, pc'[t] = "idle"
  PROVE  cur'[t] = NoSession
<1>t. /\ pc \in [Threads -> Labels]
      /\ cur \in [Threads -> Sessions \cup {NoSession}]
      /\ pc[t] = "idle" => cur[t] = NoSession
  BY DEF IInv, Types, HoldersInv
<1>1. ASSUME NEW u \in Threads, NEW label \in Labels, Goto(u, label)
      PROVE  cur'[t] = NoSession
  BY <1>t, <1>1 DEF Goto
<1>2. ASSUME NEW u \in Threads, Step(u) PROVE cur'[t] = NoSession
  <2>1. \E label \in Labels : Goto(u, label)
    BY <1>2 DEF Step, ProcessAccept, ProcessConnect, AddSession, OnConnected,
       RegisterRecv, AfterRegisterRecv, RegisterAccept, ProcessRecv,
       EndOnRecv, OnDisconnected, RemoveSession
  <2> QED  BY <1>1, <2>1
<1>3. ASSUME NEW u \in Threads, Handle(u) PROVE cur'[t] = NoSession
  BY <1>t, <1>3 DEF Handle, HandleLogin, HandleEnterGame, HandleChat
<1>4. ASSUME NEW u \in Threads, Dispatch(u) PROVE cur'[t] = NoSession
  BY <1>t, <1>4 DEF Dispatch, DispatchAccept, DispatchRecv, DispatchSend,
     DispatchDisconnect, Enter
<1>5. CASE UNCHANGED vars
  BY <1>t, <1>5 DEF vars
<1> QED  BY <1>2, <1>3, <1>4, <1>5 DEF Next, Quiescent

\* The worker that posts an event again has it for itself.
LEMMA RegisterAcceptKeepsHolders ==
  ASSUME IInv, HoldersInv, NEW t \in Threads, RegisterAccept(t)
  PROVE  HoldersInv'
<1>t. /\ Types /\ slot[t] \in Slots
      /\ \A u \in Threads \ {t} : slot[u] # slot[t]
  BY DEF IInv, Locals, NoSlotLost, RegisterAccept
<1>s. [Next]_vars
  BY DEF Next, Step
<1>i. \A u \in Threads : pc'[u] = "idle" => cur'[u] = NoSession
  BY <1>s, IdleHasNone
<1>1. room' = room /\ loggedIn' = loggedIn /\ created \subseteq created'
  BY DEF RegisterAccept
<1>2. ASSUME NEW u \in Threads \ {t}, slot'[u] \in Slots
      PROVE  \E s \in created' : /\ accept'[slot'[u]].session = s
                                 /\ s = cur'[u] \/ Unknown(s)'
  <2>1. slot'[u] = slot[u] /\ cur'[u] = cur[u]
    BY <1>t DEF Types, RegisterAccept, Goto
  <2>2. accept'[slot[u]] = accept[slot[u]]
    BY <1>t, <1>2, <2>1 DEF Types, RegisterAccept
  <2> QED  BY <1>1, <1>2, <1>s, <2>1, <2>2, HoldersStay
<1>3. ASSUME slot'[t] \in Slots
      PROVE  \E s \in created' : accept'[slot'[t]].session = s /\ Unknown(s)'
  <2>1. PICK s \in Sessions \ created :
          /\ created' = created \cup {s}
          /\ accept' = [accept EXCEPT ![slot[t]] =
                          [pending |-> FALSE, session |-> s]]
          /\ UNCHANGED <<connVars, ioVars, regVars, gameVars, threadVars>>
    BY <1>3, <1>t DEF LifecycleAssumption, Types, RegisterAccept, Goto
  <2>2. Unknown(s)'
    BY <1>t, <2>1 DEF IInv, Types, ConnectedIsKnown, Unknown
  <2>3. accept'[slot'[t]].session = s
    BY <1>t, <2>1 DEF Types
  <2> QED  BY <2>1, <2>2, <2>3
<1> QED  BY <1>1, <1>2, <1>3, <1>i DEF HoldersInv

\* Whoever enters the room has logged in.
LEMMA RoomIsLoggedIn == IInv /\ HoldersInv /\ [Next]_vars
                          => room' \subseteq loggedIn'
<1> SUFFICES ASSUME IInv, HoldersInv, [Next]_vars
             PROVE  room' \subseteq loggedIn'
  OBVIOUS
<1>1. \/ UNCHANGED <<room, loggedIn>>
      \/ \E t \in Threads : HandleLogin(t) \/ HandleEnterGame(t)
  BY DEF Next, Quiescent, vars, Dispatch, Handle, Step, DispatchAccept,
     DispatchRecv, DispatchSend, DispatchDisconnect, HandleChat, ProcessAccept,
     ProcessConnect, AddSession, OnConnected, RegisterRecv, RegisterAccept,
     ProcessRecv, EndOnRecv, OnDisconnected, RemoveSession
<1> QED  BY <1>1 DEF HoldersInv, HandleLogin, HandleEnterGame

\* Only Dispatch and RegisterAccept change who has which event.
LEMMA NextHolders == IInv /\ HoldersInv /\ [Next]_vars => HoldersInv'
<1> SUFFICES ASSUME IInv, HoldersInv, [Next]_vars PROVE HoldersInv'
  OBVIOUS
<1>t. Types
  BY DEF IInv
<1>r. room' \subseteq loggedIn'
  BY RoomIsLoggedIn
<1>i. \A t \in Threads : pc'[t] = "idle" => cur'[t] = NoSession
  BY IdleHasNone
<1>1. ASSUME NEW t \in Threads, NEW e \in Slots, DispatchAccept(t, e)
      PROVE  HoldersInv'
  <2>1. /\ created' = created /\ slot[t] = NoSlot /\ pc[t] = "idle"
        /\ accept[e].session \in created
        /\ \A d \in Slots : accept'[d].session = accept[d].session
        /\ slot'[t] = e /\ cur'[t] = accept[e].session
        /\ \A u \in Threads \ {t} : slot'[u] = slot[u] /\ cur'[u] = cur[u]
    BY <1>t, <1>1 DEF IInv, Types, Locals, DispatchAccept, Enter
  <2>2. ASSUME NEW u \in Threads, slot'[u] \in Slots
        PROVE  \E s \in created' : /\ accept'[slot'[u]].session = s
                                   /\ s = cur'[u] \/ Unknown(s)'
    <3>1. CASE u = t
      BY <2>1, <3>1
    <3>2. CASE u # t
      BY <2>1, <2>2, <3>2, HoldersStay
    <3> QED  BY <3>1, <3>2
  <2> QED  BY <1>r, <1>i, <2>2 DEF HoldersInv
<1>2. ASSUME NEW t \in Threads, RegisterAccept(t) PROVE HoldersInv'
  BY <1>2, RegisterAcceptKeepsHolders
<1>3. CASE /\ UNCHANGED acceptVars
           /\ \A t \in Threads : slot'[t] \in Slots =>
                slot'[t] = slot[t] /\ cur'[t] = cur[t]
  <2>1. ASSUME NEW t \in Threads, slot'[t] \in Slots
        PROVE  \E s \in created' : /\ accept'[slot'[t]].session = s
                                   /\ s = cur'[t] \/ Unknown(s)'
    BY <1>3, <2>1, HoldersStay
  <2> QED  BY <1>r, <1>i, <2>1 DEF HoldersInv
<1>4. ASSUME NEW t \in Threads, NEW s \in Sessions,
             DispatchRecv(t, s) \/ DispatchDisconnect(t, s)
      PROVE  HoldersInv'
  <2>1. slot[t] = NoSlot
    BY <1>4 DEF IInv, Locals, DispatchRecv, DispatchDisconnect, Enter
  <2>2. \A u \in Threads : slot'[u] \in Slots =>
          slot'[u] = slot[u] /\ cur'[u] = cur[u]
    BY <1>t, <1>4, <2>1 DEF Types, DispatchRecv, DispatchDisconnect, Enter
  <2> QED  BY <1>3, <1>4, <2>2 DEF DispatchRecv, DispatchDisconnect
<1>5. ASSUME NEW t \in Threads, Handle(t) PROVE HoldersInv'
  BY <1>3, <1>5 DEF Handle, HandleLogin, HandleEnterGame, HandleChat
<1>6. ASSUME NEW t \in Threads, NEW s \in Sessions, DispatchSend(t, s)
      PROVE  HoldersInv'
  BY <1>3, <1>6 DEF DispatchSend
<1>7. ASSUME NEW t \in Threads, Step(t), ~RegisterAccept(t)
      PROVE  HoldersInv'
  <2>1. UNCHANGED acceptVars /\ \E label \in Labels : Goto(t, label)
    BY <1>7 DEF Step, ProcessAccept, ProcessConnect, AddSession, OnConnected,
       RegisterRecv, AfterRegisterRecv, ProcessRecv, EndOnRecv,
       OnDisconnected, RemoveSession
  <2>2. \A u \in Threads : slot'[u] \in Slots =>
          slot'[u] = slot[u] /\ cur'[u] = cur[u]
    BY <1>t, <2>1 DEF LifecycleAssumption, Types, Goto
  <2> QED  BY <1>3, <2>1, <2>2
<1>8. CASE UNCHANGED vars
  BY <1>3, <1>8 DEF vars
<1> QED
  BY <1>1, <1>2, <1>4, <1>5, <1>6, <1>7, <1>8 DEF Next, Quiescent, Dispatch

(* A closed session that never logged in has no lasting reference left     *)
(* once it is out of the service (Session.cpp:106-145, 214-254).           *)
THEOREM DeadAreOnlyInTransit == Spec => []OnlyWorkersKeepTheDead
<1>1. Spec => []HoldersInv
  BY HoldersInit, NextHolders, Invariance, PTL DEF Spec
<1>2. IInv /\ HoldersInv => OnlyWorkersKeepTheDead
  <2> SUFFICES ASSUME IInv, HoldersInv, NEW s \in dead,
                      s \notin sessions, s \notin loggedIn
               PROVE  /\ s \notin gsessions \cup room \cup discIo
                      /\ \A t \in Threads : cur[t] = s =>
                           pc[t] \in {"ProcessRecv", "OnRecv", "RegisterRecv",
                                     "RegisterAccept"}
                      /\ \A e \in Slots : accept[e].session = s =>
                           \E t \in Threads : slot[t] = e /\ cur[t] = s
    BY DEF OnlyWorkersKeepTheDead
  <2>1. s \notin gsessions \cup room \cup discIo
    BY DEF IInv, RemoverIsAlone, HoldersInv
  <2>2. ASSUME NEW t \in Threads, cur[t] = s
        PROVE  pc[t] \in {"ProcessRecv", "OnRecv", "RegisterRecv",
                         "RegisterAccept"}
    BY <2>2 DEF IInv, Types, NewIsAlone, RemoverIsAlone, HoldersInv
  <2>3. ASSUME NEW e \in Slots, accept[e].session = s
        PROVE  \E t \in Threads : slot[t] = e /\ cur[t] = s
    <3>1. ~accept[e].pending
      BY <2>3 DEF IInv, WaitingIsUnknown
    <3>2. PICK t \in Threads : slot[t] = e
      BY <3>1 DEF IInv, NoSlotLost
    <3>3. s = cur[t] \/ Unknown(s)
      BY <2>3, <3>2 DEF HoldersInv
    <3>4. ~Unknown(s)
      BY DEF Unknown
    <3> QED  BY <3>2, <3>3, <3>4
  <2> QED  BY <2>1, <2>2, <2>3
<1> QED  BY <1>1, <1>2, Invariance, PTL
=============================================================================
