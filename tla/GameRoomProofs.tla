--------------------------- MODULE GameRoomProofs ---------------------------
(***************************************************************************)
(* Proofs about GameRoom, for any number of sessions, workers and packets. *)
(* That ids identify players needs that none has been issued that the      *)
(* generator has still to issue; that the room is atomic needs that a      *)
(* broadcast, and only a broadcast, holds the lock between two steps, and  *)
(* that its loop starts before the first player.                           *)
(***************************************************************************)
EXTENDS GameRoom, TLAPS, FiniteSetTheorems

\* The ids of the players of s.
Owned(s) == {players[s][i] : i \in 1..Len(players[s])}

\* Every player's id has been issued by the generator.
IssuedInv ==
  \A s \in Sessions : \A i \in 1..Len(players[s]) :
    players[s][i] < idGenerator

\* The lock is held exactly inside the loop of Broadcast, which has a chat
\* to send and starts before the first player.
LockInv ==
  \A s \in Sessions :
    /\ pc[s] = "Broadcast" <=> lock = s
    /\ pc[s] # "Broadcast" => iter[s] = 0
    /\ pc[s] = "Broadcast" => msg[s] \in Ids

\* Handle_C_ENTER_GAME works on a player of its own session, which is in the
\* room when the reply is sent.
EnterInv ==
  \A s \in Sessions :
    /\ pc[s] \in {"Enter", "EnterReply"} => player[s] \in Owned(s)
    /\ pc[s] = "EnterReply" => player[s] \in DOMAIN room

IInv ==
  /\ TypeOK
  /\ IssuedInv
  /\ IdsIdentify
  /\ LockInv
  /\ EnterInv
  /\ EnterReplyMeansMember

-----------------------------------------------------------------------------
\* Init establishes the inductive invariant.
LEMMA InitIInv == Init => IInv
<1> SUFFICES ASSUME Init PROVE IInv
  OBVIOUS
<1> USE RoomAssumption DEF Init
<1>1. TypeOK
  BY DEF TypeOK, Ids, Labels
<1>2. IssuedInv /\ IdsIdentify
  BY DEF IssuedInv, IdsIdentify
<1>3. LockInv /\ EnterInv /\ EnterReplyMeansMember
  BY DEF LockInv, EnterInv, EnterReplyMeansMember
<1> QED BY <1>1, <1>2, <1>3 DEF IInv

-----------------------------------------------------------------------------
\* The ids of a session's players are ids.
LEMMA OwnedAreIds ==
  ASSUME IInv, NEW s \in Sessions, NEW id \in Owned(s) PROVE id \in Ids
<1>1. PICK i \in 1..Len(players[s]) : id = players[s][i]
  BY DEF Owned
<1>2. players[s] \in Seq(Ids)
  BY DEF IInv, TypeOK
<1> QED BY <1>1, <1>2

\* A packet is taken up without leaving the types.
LEMMA HandlePacketTypes ==
  ASSUME TypeOK, NEW s \in Sessions, NEW l \in Labels, HandlePacket(s, l)
  PROVE  /\ pc' \in [Sessions -> Labels]
         /\ served' \in [Sessions -> 0..MaxPackets]
<1>1. served[s] \in 0..MaxPackets /\ served[s] < MaxPackets
  BY DEF TypeOK, HandlePacket
<1>2. served[s] + 1 \in 0..MaxPackets
  BY <1>1, RoomAssumption
<1>3. served' = [served EXCEPT ![s] = served[s] + 1]
  BY DEF HandlePacket
<1>4. pc' = [pc EXCEPT ![s] = l]
  BY DEF HandlePacket, Goto
<1> QED BY <1>2, <1>3, <1>4 DEF TypeOK

\* A new player keeps the types of the players and the generator.
LEMMA AddPlayerTypes ==
  ASSUME TypeOK, NEW s \in Sessions, AddPlayer(s)
  PROVE  /\ players' \in [Sessions -> Seq(Ids)]
         /\ idGenerator' \in Ids
<1>1. Append(players[s], idGenerator) \in Seq(Ids)
  BY DEF TypeOK, Ids
<1>2. idGenerator' \in Ids
  <2>1. idGenerator' = idGenerator + 1
    BY DEF AddPlayer
  <2>2. idGenerator \in Ids
    BY DEF TypeOK
  <2> QED BY <2>1, <2>2 DEF Ids
<1>3. players' = [players EXCEPT ![s] = Append(players[s], idGenerator)]
  BY DEF AddPlayer
<1> QED BY <1>1, <1>2, <1>3 DEF TypeOK

\* Every step keeps TypeOK.
LEMMA NextTypeOK == IInv /\ [Next]_vars => TypeOK'
<1> SUFFICES ASSUME IInv, [Next]_vars PROVE TypeOK'
  OBVIOUS
<1>t. TypeOK
  BY DEF IInv
<1>g. \A s \in Sessions : \A l \in Labels :
        pc' = [pc EXCEPT ![s] = l] => pc' \in [Sessions -> Labels]
  BY <1>t DEF TypeOK
<1>1. ASSUME NEW s \in Sessions, HandleLogin(s) PROVE TypeOK'
  <2>1. HandlePacket(s, "Login2") /\ AddPlayer(s)
    BY <1>1 DEF HandleLogin
  <2>2. "Login2" \in Labels
    BY DEF Labels
  <2> QED BY <1>t, <1>1, <2>1, <2>2, HandlePacketTypes, AddPlayerTypes
          DEF HandleLogin, TypeOK, locals
<1>2. ASSUME NEW s \in Sessions, HandleLogin2(s) PROVE TypeOK'
  <2>1. AddPlayer(s) /\ pc' \in [Sessions -> Labels]
    BY <1>2, <1>g DEF HandleLogin2, Goto, Labels
  <2> QED BY <1>t, <1>2, <2>1, AddPlayerTypes DEF HandleLogin2, TypeOK, locals
<1>3. ASSUME NEW s \in Sessions, HandleEnterGame(s) PROVE TypeOK'
  <2>1. PICK i \in 1..Len(players[s]) :
          player' = [player EXCEPT ![s] = players[s][i]]
    BY <1>3 DEF HandleEnterGame
  <2>2. players[s][i] \in Nat
    BY <1>t DEF TypeOK, Ids
  <2>3. HandlePacket(s, "Enter") /\ "Enter" \in Labels
    BY <1>3 DEF HandleEnterGame, Labels
  <2> QED BY <1>t, <1>3, <2>1, <2>2, <2>3, HandlePacketTypes
          DEF HandleEnterGame, TypeOK
<1>4. ASSUME NEW s \in Sessions, HandleChat(s) PROVE TypeOK'
  <2>1. HandlePacket(s, "Say") /\ "Say" \in Labels
    BY <1>4 DEF HandleChat, Labels
  <2> QED BY <1>t, <1>4, <2>1, HandlePacketTypes DEF HandleChat, TypeOK, locals
<1>5. ASSUME NEW s \in Sessions, Enter(s) PROVE TypeOK'
  <2>1. player[s] \in Ids
    BY <1>5, OwnedAreIds DEF Enter, IInv, EnterInv
  <2>2. pc' \in [Sessions -> Labels]
    BY <1>5, <1>g DEF Enter, Goto, Labels
  <2>3. /\ DOMAIN room' = DOMAIN room \cup {player[s]}
        /\ room' \in [DOMAIN room' -> Sessions]
    BY <1>t, <1>5 DEF Enter, TypeOK
  <2> QED BY <1>t, <1>5, <2>1, <2>2, <2>3 DEF Enter, TypeOK, locals
<1>6. ASSUME NEW s \in Sessions, EnterReply(s) PROVE TypeOK'
  <2>1. player[s] \in Ids
    BY <1>6, OwnedAreIds DEF EnterReply, IInv, EnterInv
  <2>2. pc' \in [Sessions -> Labels]
    BY <1>6, <1>g DEF EnterReply, Goto, Labels
  <2> QED BY <1>t, <1>6, <2>1, <2>2 DEF EnterReply, TypeOK
<1>7. ASSUME NEW s \in Sessions, LockRoom(s) PROVE TypeOK'
  <2>1. pc' \in [Sessions -> Labels]
    BY <1>7, <1>g DEF LockRoom, Goto, Labels
  <2>2. said' \in Nat /\ msg' \in [Sessions -> Nat]
    BY <1>t, <1>7 DEF LockRoom, TypeOK
  <2>3. lock' \in Sessions \cup {NoSession}
    BY <1>7 DEF LockRoom
  <2> QED BY <1>t, <1>7, <2>1, <2>2, <2>3 DEF LockRoom, TypeOK
<1>8. ASSUME NEW s \in Sessions, Broadcast(s) PROVE TypeOK'
  <2>1. PICK id \in Remaining(s) :
          /\ heard' = [heard EXCEPT ![room[id]] = Append(@, msg[s])]
          /\ iter' = [iter EXCEPT ![s] = id]
    BY <1>8 DEF Broadcast
  <2>2. room[id] \in Sessions /\ id \in Nat
    BY <1>t DEF TypeOK, Remaining, Ids
  <2>3. msg[s] \in Ids
    BY <1>8 DEF Broadcast, IInv, LockInv
  <2>4. Append(heard[room[id]], msg[s]) \in Seq(Ids)
    BY <1>t, <2>2, <2>3 DEF TypeOK
  <2>5. heard' \in [Sessions -> Seq(Ids)] /\ iter' \in [Sessions -> Nat]
    BY <1>t, <2>1, <2>2, <2>4 DEF TypeOK
  <2> QED BY <1>t, <1>8, <2>5 DEF Broadcast, TypeOK
<1>9. ASSUME NEW s \in Sessions, EndBroadcast(s) PROVE TypeOK'
  <2>1. pc' \in [Sessions -> Labels]
    BY <1>9, <1>g DEF EndBroadcast, Goto, Labels
  <2> QED BY <1>t, <1>9, <2>1 DEF EndBroadcast, TypeOK
<1>10. ASSUME UNCHANGED vars PROVE TypeOK'
  BY <1>t, <1>10 DEF vars, locals, TypeOK
<1> QED
  BY <1>1, <1>2, <1>3, <1>4, <1>5, <1>6, <1>7, <1>8, <1>9, <1>10
  DEF Next, Begin, Step, Quiescent

-----------------------------------------------------------------------------
\* What a new player does to the ids: it is at the end of its session's
\* players, with an id that no player has had.
LEMMA AddPlayerIds ==
  ASSUME IInv, NEW s \in Sessions, AddPlayer(s)
  PROVE  /\ IssuedInv'
         /\ \A q, r \in Sessions :
              \A i \in 1..Len(players'[q]), j \in 1..Len(players'[r]) :
                players'[q][i] = players'[r][j] => q = r /\ i = j
         /\ \A q \in Sessions : Owned(q) \subseteq Owned(q)'
<1>1. /\ players \in [Sessions -> Seq(Ids)]
      /\ idGenerator \in Ids
  BY DEF IInv, TypeOK
<1>2. /\ players'[s] = Append(players[s], idGenerator)
      /\ \A q \in Sessions : q # s => players'[q] = players[q]
      /\ idGenerator' = idGenerator + 1
  BY <1>1 DEF AddPlayer
<1>3. /\ Len(players'[s]) = Len(players[s]) + 1
      /\ players'[s][Len(players[s]) + 1] = idGenerator
      /\ \A i \in 1..Len(players[s]) : players'[s][i] = players[s][i]
      /\ Len(players[s]) \in Nat
  BY <1>1, <1>2
<1>4. \A q \in Sessions : \A i \in 1..Len(players'[q]) :
        \/ q = s /\ i = Len(players[s]) + 1 /\ players'[q][i] = idGenerator
        \/ /\ i \in 1..Len(players[q]) /\ players'[q][i] = players[q][i]
           /\ players[q][i] < idGenerator /\ players[q][i] \in Ids
  <2>1. TAKE q \in Sessions
  <2>2. TAKE i \in 1..Len(players'[q])
  <2>3. \A j \in 1..Len(players[q]) :
          players[q][j] < idGenerator /\ players[q][j] \in Ids
    BY <1>1 DEF IInv, IssuedInv
  <2>4. CASE q = s
    BY <1>3, <2>3, <2>4
  <2>5. CASE q # s
    BY <1>2, <2>3, <2>5
  <2> QED BY <2>4, <2>5
<1>5. IssuedInv'
  <2> SUFFICES ASSUME NEW q \in Sessions, NEW i \in 1..Len(players'[q])
               PROVE  players'[q][i] < idGenerator'
    BY DEF IssuedInv
  <2>1. idGenerator \in Nat
    BY <1>1 DEF Ids
  <2>2. \/ players'[q][i] = idGenerator
        \/ players'[q][i] < idGenerator /\ players'[q][i] \in Ids
    <3>1. \/ players'[q][i] = idGenerator
          \/ /\ players'[q][i] = players[q][i]
             /\ players[q][i] < idGenerator /\ players[q][i] \in Ids
      BY <1>4, Zenon
    <3> QED BY <3>1, Zenon
  <2> QED BY <1>2, <2>1, <2>2 DEF Ids
<1>6. ASSUME NEW q \in Sessions, NEW r \in Sessions,
             NEW i \in 1..Len(players'[q]), NEW j \in 1..Len(players'[r]),
             players'[q][i] = players'[r][j]
      PROVE  q = r /\ i = j
  <2>1. \/ i \in 1..Len(players[q]) /\ j \in 1..Len(players[r])
           /\ players[q][i] = players[r][j]
        \/ q = s /\ i = Len(players[s]) + 1 /\ r = s /\ j = Len(players[s]) + 1
    <3>1. idGenerator \in Nat /\ \A n \in Ids : n \in Nat
      BY <1>1 DEF Ids
    <3>2. \/ q = s /\ i = Len(players[s]) + 1 /\ players'[q][i] = idGenerator
          \/ /\ i \in 1..Len(players[q]) /\ players'[q][i] = players[q][i]
             /\ players[q][i] < idGenerator /\ players[q][i] \in Ids
      BY <1>4, Zenon
    <3>3. \/ r = s /\ j = Len(players[s]) + 1 /\ players'[r][j] = idGenerator
          \/ /\ j \in 1..Len(players[r]) /\ players'[r][j] = players[r][j]
             /\ players[r][j] < idGenerator /\ players[r][j] \in Ids
      BY <1>4, Zenon
    <3> QED BY <1>6, <3>1, <3>2, <3>3
  <2> QED BY <2>1 DEF IInv, IdsIdentify
<1>7. \A q \in Sessions : Owned(q) \subseteq Owned(q)'
  <2>1. TAKE q \in Sessions
  <2>2. \A i \in 1..Len(players[q]) :
          i \in 1..Len(players'[q]) /\ players'[q][i] = players[q][i]
    BY <1>2, <1>3
  <2> QED BY <2>2 DEF Owned
<1> QED BY <1>5, <1>6, <1>7

\* The room has for each id a session that owns it.
RoomOwned == \A id \in DOMAIN room : id \in Owned(room[id])

\* Every step keeps the invariants about ids.
LEMMA NextIds == IInv /\ [Next]_vars => IssuedInv' /\ IdsIdentify'
<1> SUFFICES ASSUME IInv, [Next]_vars PROVE IssuedInv' /\ IdsIdentify'
  OBVIOUS
<1> DEFINE Distinct ==
      \A s, r \in Sessions :
        \A i \in 1..Len(players[s]), j \in 1..Len(players[r]) :
          players[s][i] = players[r][j] => s = r /\ i = j
<1>i. IssuedInv /\ Distinct /\ RoomOwned
  <2>1. IssuedInv /\ Distinct
    BY DEF IInv, IdsIdentify
  <2>2. RoomOwned
    BY DEF IInv, IdsIdentify, RoomOwned, Owned
  <2> QED BY <2>1, <2>2
<1>q. ASSUME IssuedInv', Distinct', RoomOwned' PROVE IssuedInv' /\ IdsIdentify'
  <2>1. \A id \in DOMAIN room' :
          \E i \in 1..Len(players'[room'[id]]) : players'[room'[id]][i] = id
    BY <1>q DEF RoomOwned, Owned
  <2> QED BY <1>q, <2>1 DEF IdsIdentify
<1>a. ASSUME NEW s \in Sessions, AddPlayer(s), UNCHANGED room
      PROVE  IssuedInv' /\ Distinct' /\ RoomOwned'
  <2>1. \A id \in DOMAIN room : room[id] \in Sessions
    BY DEF IInv, TypeOK
  <2>2. RoomOwned'
    BY <1>a, <1>i, <2>1, AddPlayerIds DEF RoomOwned
  <2> QED BY <1>a, <2>2, AddPlayerIds
<1>u. ASSUME UNCHANGED <<idGenerator, players, room>>
      PROVE  IssuedInv' /\ Distinct' /\ RoomOwned'
  BY <1>u, <1>i DEF IssuedInv, RoomOwned, Owned
<1>e. ASSUME NEW s \in Sessions, Enter(s)
      PROVE  IssuedInv' /\ Distinct' /\ RoomOwned'
  <2>1. IssuedInv' /\ Distinct'
    BY <1>e, <1>i DEF Enter, IssuedInv
  <2>2. player[s] \in Owned(s)
    BY <1>e DEF Enter, IInv, EnterInv
  <2>3. players' = players
    BY <1>e DEF Enter
  <2>4. \A id \in DOMAIN room' :
          \/ id = player[s] /\ room'[id] = s
          \/ id \in DOMAIN room /\ room'[id] = room[id]
    BY <1>e DEF Enter
  <2>6. ASSUME NEW id \in DOMAIN room' PROVE id \in Owned(room'[id])
    <3>1. CASE id = player[s] /\ room'[id] = s
      BY <2>2, <3>1
    <3>2. CASE id \in DOMAIN room /\ room'[id] = room[id]
      BY <1>i, <3>2 DEF RoomOwned
    <3> QED BY <2>4, <3>1, <3>2
  <2>7. RoomOwned'
    BY <2>3, <2>6 DEF RoomOwned, Owned
  <2> QED BY <2>1, <2>7
<1> HIDE DEF Distinct
<1>n. IssuedInv' /\ Distinct' /\ RoomOwned'
  <2>1. ASSUME NEW s \in Sessions, HandleLogin(s) \/ HandleLogin2(s)
        PROVE  AddPlayer(s) /\ UNCHANGED room
    BY <2>1 DEF HandleLogin, HandleLogin2
  <2>2. ASSUME NEW s \in Sessions,
               \/ HandleEnterGame(s) \/ HandleChat(s) \/ EnterReply(s)
               \/ LockRoom(s) \/ Broadcast(s) \/ EndBroadcast(s)
        PROVE  UNCHANGED <<idGenerator, players, room>>
    BY <2>2 DEF HandleEnterGame, HandleChat, EnterReply, LockRoom, Broadcast,
                EndBroadcast
  <2>3. ASSUME UNCHANGED vars PROVE UNCHANGED <<idGenerator, players, room>>
    BY <2>3 DEF vars
  <2> QED
    BY <1>a, <1>u, <1>e, <2>1, <2>2, <2>3 DEF Next, Begin, Step, Quiescent
<1> QED BY <1>n, <1>q

-----------------------------------------------------------------------------
\* Every step keeps the lock with the one broadcast that runs.
LEMMA NextLock == IInv /\ [Next]_vars => LockInv'
<1> SUFFICES ASSUME IInv, [Next]_vars PROVE LockInv'
  OBVIOUS
<1>t. /\ pc \in [Sessions -> Labels] /\ NoSession \notin Sessions
      /\ iter \in [Sessions -> Nat] /\ msg \in [Sessions -> Nat]
      /\ said \in Nat /\ LockInv
  BY RoomAssumption DEF IInv, TypeOK
\* A step that neither enters nor leaves Broadcast disturbs nothing.
<1>o. ASSUME NEW s \in Sessions, NEW l \in Labels \ {"Broadcast"},
             pc[s] # "Broadcast", pc' = [pc EXCEPT ![s] = l],
             UNCHANGED <<lock, iter, msg>>
      PROVE  LockInv'
  BY <1>t, <1>o DEF LockInv
<1>1. ASSUME NEW s \in Sessions,
             \/ HandleLogin(s) \/ HandleEnterGame(s) \/ HandleChat(s)
             \/ HandleLogin2(s) \/ Enter(s) \/ EnterReply(s)
      PROVE  LockInv'
  <2>1. /\ pc[s] # "Broadcast" /\ UNCHANGED <<lock, iter, msg>>
        /\ \E l \in Labels \ {"Broadcast"} : pc' = [pc EXCEPT ![s] = l]
    BY <1>1 DEF HandleLogin, HandleEnterGame, HandleChat, HandleLogin2, Enter,
                EnterReply, HandlePacket, Goto, locals, Labels
  <2> QED BY <2>1, <1>o
<1>2. ASSUME NEW s \in Sessions, LockRoom(s) PROVE LockInv'
  <2>1. /\ pc[s] = "Say" /\ lock = NoSession /\ lock' = s
        /\ pc' = [pc EXCEPT ![s] = "Broadcast"] /\ UNCHANGED iter
        /\ msg' = [msg EXCEPT ![s] = said + 1]
    BY <1>2 DEF LockRoom, Goto
  <2>2. said + 1 \in Ids
    BY <1>t DEF Ids
  <2> QED BY <1>t, <2>1, <2>2 DEF LockInv
<1>3. ASSUME NEW s \in Sessions, Broadcast(s) PROVE LockInv'
  <2>1. PICK id \in Remaining(s) : iter' = [iter EXCEPT ![s] = id]
    BY <1>3 DEF Broadcast
  <2> QED BY <1>t, <1>3, <2>1 DEF Broadcast, LockInv
<1>4. ASSUME NEW s \in Sessions, EndBroadcast(s) PROVE LockInv'
  <2>1. /\ pc[s] = "Broadcast" /\ lock' = NoSession
        /\ pc' = [pc EXCEPT ![s] = "idle"]
        /\ iter' = [iter EXCEPT ![s] = 0] /\ msg' = [msg EXCEPT ![s] = 0]
    BY <1>4 DEF EndBroadcast, Goto
  <2> QED BY <1>t, <2>1 DEF LockInv
<1>5. ASSUME UNCHANGED vars PROVE LockInv'
  BY <1>t, <1>5 DEF vars, locals, LockInv
<1> QED
  BY <1>1, <1>2, <1>3, <1>4, <1>5 DEF Next, Begin, Step, Quiescent

\* Nobody leaves the room, and no session loses a player.
LEMMA NextGrows ==
  ASSUME IInv, [Next]_vars
  PROVE  /\ DOMAIN room \subseteq DOMAIN room'
         /\ \A s \in Sessions : Owned(s) \subseteq Owned(s)'
<1>1. ASSUME NEW s \in Sessions, HandleLogin(s) \/ HandleLogin2(s)
      PROVE  AddPlayer(s) /\ UNCHANGED room
  BY <1>1 DEF HandleLogin, HandleLogin2
<1>2. ASSUME NEW s \in Sessions, Enter(s)
      PROVE  DOMAIN room \subseteq DOMAIN room' /\ UNCHANGED players
  BY <1>2 DEF Enter
<1>3. ASSUME NEW s \in Sessions,
             \/ HandleEnterGame(s) \/ HandleChat(s) \/ EnterReply(s)
             \/ LockRoom(s) \/ Broadcast(s) \/ EndBroadcast(s)
      PROVE  UNCHANGED <<players, room>>
  BY <1>3 DEF HandleEnterGame, HandleChat, EnterReply, LockRoom, Broadcast,
              EndBroadcast
<1>4. ASSUME UNCHANGED vars PROVE UNCHANGED <<players, room>>
  BY <1>4 DEF vars
<1>5. ASSUME UNCHANGED players
      PROVE  \A s \in Sessions : Owned(s) \subseteq Owned(s)'
  BY <1>5 DEF Owned
<1>6. ASSUME NEW s \in Sessions, AddPlayer(s)
      PROVE  \A q \in Sessions : Owned(q) \subseteq Owned(q)'
  BY <1>6, AddPlayerIds
<1> QED
  BY <1>1, <1>2, <1>3, <1>4, <1>5, <1>6 DEF Next, Begin, Step, Quiescent

\* Every step keeps what Handle_C_ENTER_GAME relies on and what it replies.
LEMMA NextEnter == IInv /\ [Next]_vars => EnterInv' /\ EnterReplyMeansMember'
<1> SUFFICES ASSUME IInv, [Next]_vars
             PROVE  EnterInv' /\ EnterReplyMeansMember'
  OBVIOUS
<1>t. /\ pc \in [Sessions -> Labels] /\ player \in [Sessions -> Nat]
      /\ EnterInv /\ EnterReplyMeansMember
  BY DEF IInv, TypeOK
<1>g. /\ DOMAIN room \subseteq DOMAIN room'
      /\ \A s \in Sessions : Owned(s) \subseteq Owned(s)'
  BY NextGrows
\* It is enough to look at the session that takes the step.
<1>o. ASSUME NEW s \in Sessions,
             \A r \in Sessions \ {s} : pc'[r] = pc[r] /\ player'[r] = player[r],
             pc'[s] \in {"Enter", "EnterReply"} => player'[s] \in Owned(s),
             pc'[s] = "EnterReply" => player'[s] \in DOMAIN room',
             told' \subseteq DOMAIN room'
      PROVE  EnterInv' /\ EnterReplyMeansMember'
  <2>1. \A r \in Sessions :
          /\ pc'[r] \in {"Enter", "EnterReply"} => player'[r] \in Owned(r)
          /\ pc'[r] = "EnterReply" => player'[r] \in DOMAIN room'
    BY <1>t, <1>g, <1>o DEF EnterInv
  <2>2. EnterInv'
    BY <1>g, <2>1 DEF EnterInv
  <2> QED BY <1>o, <2>2 DEF EnterReplyMeansMember
<1>r. ASSUME told' = told PROVE told' \subseteq DOMAIN room'
  BY <1>t, <1>g, <1>r DEF EnterReplyMeansMember
<1>1. ASSUME NEW s \in Sessions,
             \/ HandleLogin(s) \/ HandleLogin2(s) \/ HandleChat(s)
             \/ LockRoom(s) \/ Broadcast(s) \/ EndBroadcast(s)
      PROVE  EnterInv' /\ EnterReplyMeansMember'
  <2>1. /\ told' = told /\ player' = player
        /\ pc'[s] \notin {"Enter", "EnterReply"}
        /\ \A r \in Sessions \ {s} : pc'[r] = pc[r]
    BY <1>t, <1>1 DEF HandleLogin, HandleLogin2, HandleChat, LockRoom,
       Broadcast, EndBroadcast, HandlePacket, Goto, locals
  <2> QED BY <2>1, <1>r, <1>o
<1>2. ASSUME NEW s \in Sessions, HandleEnterGame(s)
      PROVE  EnterInv' /\ EnterReplyMeansMember'
  <2>1. /\ told' = told /\ pc' = [pc EXCEPT ![s] = "Enter"]
        /\ \E i \in 1..Len(players[s]) :
             player' = [player EXCEPT ![s] = players[s][i]]
    BY <1>2 DEF HandleEnterGame, HandlePacket, Goto
  <2>2. player'[s] \in Owned(s)
    BY <1>t, <2>1 DEF Owned
  <2>3. /\ pc'[s] = "Enter"
        /\ \A r \in Sessions \ {s} : pc'[r] = pc[r] /\ player'[r] = player[r]
    BY <1>t, <2>1
  <2> QED BY <2>1, <2>2, <2>3, <1>r, <1>o
<1>3. ASSUME NEW s \in Sessions, Enter(s)
      PROVE  EnterInv' /\ EnterReplyMeansMember'
  <2>1. /\ told' = told /\ player' = player /\ pc[s] = "Enter"
        /\ player[s] \in DOMAIN room'
        /\ \A r \in Sessions \ {s} : pc'[r] = pc[r]
    BY <1>t, <1>3 DEF Enter, Goto, locals
  <2>2. player[s] \in Owned(s)
    BY <1>t, <2>1 DEF EnterInv
  <2> QED BY <2>1, <2>2, <1>r, <1>o
<1>4. ASSUME NEW s \in Sessions, EnterReply(s)
      PROVE  EnterInv' /\ EnterReplyMeansMember'
  <2>1. /\ told' = told \cup {player[s]} /\ pc[s] = "EnterReply"
        /\ pc'[s] = "idle" /\ room' = room
        /\ \A r \in Sessions \ {s} : pc'[r] = pc[r] /\ player'[r] = player[r]
    BY <1>t, <1>4 DEF EnterReply, Goto
  <2>2. told' \subseteq DOMAIN room'
    BY <1>t, <2>1 DEF EnterInv, EnterReplyMeansMember
  <2> QED BY <2>1, <2>2, <1>o
<1>5. ASSUME UNCHANGED vars PROVE EnterInv' /\ EnterReplyMeansMember'
  BY <1>t, <1>5 DEF vars, locals, EnterInv, EnterReplyMeansMember, Owned
<1> QED
  BY <1>1, <1>2, <1>3, <1>4, <1>5 DEF Next, Begin, Step, Quiescent

-----------------------------------------------------------------------------
(* The inductive invariant holds in every state. *)
THEOREM Invariance == Spec => []IInv
<1>1. IInv /\ [Next]_vars => IInv'
  BY NextTypeOK, NextIds, NextLock, NextEnter DEF IInv
<1> QED BY <1>1, InitIInv, PTL DEF Spec

(* The state has its types: in particular every player in the room has an  *)
(* id that was issued to it.                                               *)
THEOREM TypeCorrect == Spec => []TypeOK
<1>1. IInv => TypeOK
  BY DEF IInv
<1> QED BY <1>1, Invariance, PTL

(* An id belongs to one player on the whole server, and the room has it    *)
(* with the session of that player, however many log in at once.           *)
THEOREM PlayersAreDistinct == Spec => []IdsIdentify
<1>1. IInv => IdsIdentify
  BY DEF IInv
<1> QED BY <1>1, Invariance, PTL

(* A player that was told S_ENTER_GAME is in the room.                     *)
THEOREM ToldIsMember == Spec => []EnterReplyMeansMember
<1>1. IInv => EnterReplyMeansMember
  BY DEF IInv
<1> QED BY <1>1, Invariance, PTL

-----------------------------------------------------------------------------
\* The players that the broadcast of s still has to reach and that r owns.
Waiting(s, r) == {id \in Remaining(s) : room[id] = r}

\* The room, and so what is left of a loop over it, is finite.
LEMMA WaitingFinite ==
  ASSUME IInv, NEW s \in Sessions, NEW r
  PROVE  IsFiniteSet(Waiting(s, r)) /\ Cardinality(Waiting(s, r)) \in Nat
<1>1. DOMAIN room \subseteq 1..idGenerator
  <2>1. SUFFICES ASSUME NEW id \in DOMAIN room PROVE id \in 1..idGenerator
    OBVIOUS
  <2>2. room[id] \in Sessions /\ id \in Ids /\ idGenerator \in Nat
    BY DEF IInv, TypeOK, Ids
  <2>3. id < idGenerator
    BY <2>2 DEF IInv, IdsIdentify, IssuedInv
  <2> QED BY <2>2, <2>3 DEF Ids
<1>2. IsFiniteSet(1..idGenerator)
  <2>1. 1 \in Int /\ idGenerator \in Int
    BY DEF IInv, TypeOK, Ids
  <2> QED BY <2>1, FS_Interval
<1>3. Waiting(s, r) \in SUBSET (1..idGenerator)
  BY <1>1 DEF Waiting, Remaining
<1> QED BY <1>2, <1>3, FS_Subset, FS_CardinalityType

\* A chat sent now and n - 1 still owed are n owed.
LEMMA AppendCopies ==
  ASSUME NEW q \in Seq(Ids), NEW c \in Ids, NEW n \in Nat \ {0}
  PROVE  Append(q, c) \o Chat!Copies(c, n - 1) = q \o Chat!Copies(c, n)
<1> DEFINE a == Append(q, c) \o Chat!Copies(c, n - 1)
           b == q \o Chat!Copies(c, n)
<1>1. Chat!Copies(c, n - 1) \in Seq(Ids) /\ Chat!Copies(c, n) \in Seq(Ids)
  BY DEF Chat!Copies
<1>2. Len(Chat!Copies(c, n - 1)) = n - 1 /\ Len(Chat!Copies(c, n)) = n
  BY DEF Chat!Copies
<1>3. a \in Seq(Ids) /\ b \in Seq(Ids) /\ Len(a) = Len(b)
  BY <1>1, <1>2
<1>4. \A i \in 1..Len(a) : a[i] = b[i]
  BY <1>1, <1>2 DEF Chat!Copies
<1> HIDE DEF a, b
<1>5. a = b
  BY <1>3, <1>4
<1> QED BY <1>5 DEF a, b

\* Nothing is owed: an empty run of copies adds nothing.
LEMMA NoCopies ==
  ASSUME NEW q \in Seq(Ids), NEW c PROVE q \o Chat!Copies(c, 0) = q
<1>1. Chat!Copies(c, 0) = <<>>
  BY DEF Chat!Copies
<1> QED BY <1>1

\* What each session has heard, once the current broadcast is over.
Heard == [s \in Sessions |-> heard[s] \o Owed(s)]

\* Owed in the vocabulary of ChatRoom.
LEMMA OwedIs ==
  /\ lock = NoSession => \A r : Owed(r) = <<>>
  /\ lock # NoSession =>
       \A r : Owed(r) = Chat!Copies(msg[lock], Cardinality(Waiting(lock, r)))
  BY DEF Owed, Waiting, Chat!Copies

\* ChatRoom counts as GameRoom does.
LEMMA SameCardinality == \A S : Chat!Cardinality(S) = Cardinality(S)
  BY DEF Chat!Cardinality, Cardinality

\* Init is an initial state of the chat room.
LEMMA InitRefines == Init => Chat!Init
<1> SUFFICES ASSUME Init PROVE Chat!Init
  OBVIOUS
<1>1. \A s \in Sessions : heard[s] \o Owed(s) = <<>>
  BY DEF Init, Owed
<1> QED BY <1>1 DEF Init, Chat!Init

\* Every step is a step of the chat room or leaves it as it is.
LEMMA NextRefines == IInv /\ [Next]_vars => [Chat!Next]_(Chat!roomVars)
<1> SUFFICES ASSUME IInv, [Next]_vars PROVE [Chat!Next]_(Chat!roomVars)
  OBVIOUS
<1>t. /\ heard \in [Sessions -> Seq(Ids)] /\ lock \in Sessions \cup {NoSession}
      /\ DOMAIN room \subseteq Ids /\ room \in [DOMAIN room -> Sessions]
      /\ msg \in [Sessions -> Nat] /\ iter \in [Sessions -> Nat]
      /\ said \in Nat /\ pc \in [Sessions -> Labels]
      /\ NoSession \notin Sessions /\ LockInv
  BY RoomAssumption DEF IInv, TypeOK
<1> DEFINE Stutter == UNCHANGED <<room, said, Heard>>
<1>s. Stutter => [Chat!Next]_(Chat!roomVars)
  BY DEF Chat!roomVars, Heard
\* A step that changes neither the room, nor a queue, nor the broadcast.
<1>o. ASSUME UNCHANGED <<room, said, heard, lock, iter, msg>> PROVE Stutter
  BY <1>o DEF Heard, Owed, Remaining
<1> HIDE DEF Stutter
<1>1. ASSUME NEW s \in Sessions,
             \/ HandleLogin(s) \/ HandleLogin2(s) \/ HandleEnterGame(s)
             \/ HandleChat(s) \/ EnterReply(s)
      PROVE  Stutter
  <2>1. UNCHANGED <<room, said, heard, lock, iter, msg>>
    BY <1>1 DEF HandleLogin, HandleLogin2, HandleEnterGame, HandleChat,
                EnterReply, locals
  <2> QED BY <2>1, <1>o
<1>2. ASSUME NEW s \in Sessions, Enter(s)
      PROVE  Stutter \/ Chat!Next
  <2> DEFINE id == player[s]
  <2>1. /\ lock = NoSession /\ UNCHANGED <<said, heard, lock>>
        /\ room' = [i \in DOMAIN room \cup {id} |-> IF i = id THEN s ELSE room[i]]
        /\ pc[s] = "Enter"
    BY <1>2 DEF Enter
  <2>2. Heard' = Heard
    BY <2>1 DEF Heard, Owed
  <2>3. CASE id \in DOMAIN room
    <3>1. room[id] = s
      <4>1. id \in Owned(s)
        BY <2>1 DEF IInv, EnterInv
      <4>2. room[id] \in Sessions
        BY <1>t, <2>3
      <4>3. PICK i \in 1..Len(players[s]) : players[s][i] = id
        BY <4>1 DEF Owned
      <4>4. PICK j \in 1..Len(players[room[id]]) : players[room[id]][j] = id
        BY <2>3 DEF IInv, IdsIdentify
      <4> QED BY <4>2, <4>3, <4>4 DEF IInv, IdsIdentify
    <3>2. room' = room
      BY <1>t, <2>1, <2>3, <3>1
    <3> QED BY <2>1, <2>2, <3>2 DEF Stutter
  <2>4. CASE id \notin DOMAIN room
    <3>1. UNCHANGED <<said, Heard>> /\ id \in DOMAIN room'
      BY <2>1, <2>2
    <3>2. Chat!Join(id, s)
      BY <2>1, <2>4, <3>1 DEF Chat!Join, Heard
    <3> QED BY <3>1, <3>2 DEF Chat!Next
  <2> QED BY <2>3, <2>4
<1>3. ASSUME NEW s \in Sessions, LockRoom(s) PROVE Chat!Next
  <2>1. /\ lock = NoSession /\ lock' = s /\ said' = said + 1
        /\ msg'[s] = said + 1 /\ iter[s] = 0
        /\ UNCHANGED <<room, heard, iter>>
    BY <1>t, <1>3 DEF LockRoom, LockInv
  <2>2. Remaining(s)' = DOMAIN room
    <3>1. \A id \in DOMAIN room : id > 0
      BY <1>t DEF Ids
    <3>2. iter'[s] = 0 /\ room' = room
      BY <2>1
    <3> QED BY <3>1, <3>2 DEF Remaining
  <2>3. \A r \in Sessions :
          (heard[r] \o Owed(r))' =
             (heard[r] \o Owed(r))
               \o Chat!Copies(said + 1, Cardinality(Chat!PlayersOf(r)))
    <3>1. TAKE r \in Sessions
    <3>2. heard[r] \o Owed(r) = heard[r]
      BY <1>t, <2>1 DEF Owed
    <3>3. Waiting(s, r)' = Chat!PlayersOf(r)
      BY <2>1, <2>2 DEF Waiting, Chat!PlayersOf
    <3>4. Owed(r)' = Chat!Copies(said + 1, Cardinality(Chat!PlayersOf(r)))
      BY <1>t, <2>1, <2>2, <3>3 DEF Owed, Waiting, Chat!Copies
    <3> QED BY <2>1, <3>2, <3>4
  <2>4. Heard' = [r \in Sessions |-> Heard[r]
                   \o Chat!Copies(said + 1, Cardinality(Chat!PlayersOf(r)))]
    BY <2>3 DEF Heard
  <2>5. Chat!Say
    BY <2>1, <2>4, SameCardinality DEF Chat!Say, Heard
  <2> QED BY <2>5 DEF Chat!Next
<1>4. ASSUME NEW s \in Sessions, Broadcast(s) PROVE Stutter
  <2>1. PICK id \in Remaining(s) :
          /\ \A other \in Remaining(s) : id <= other
          /\ heard' = [heard EXCEPT ![room[id]] = Append(@, msg[s])]
          /\ iter' = [iter EXCEPT ![s] = id]
    BY <1>4 DEF Broadcast
  <2>2. /\ lock = s /\ msg[s] \in Ids
        /\ UNCHANGED <<room, said, lock, msg>>
    BY <1>t, <1>4 DEF Broadcast, LockInv
  <2>3. id \in DOMAIN room /\ room[id] \in Sessions /\ id \in Ids
    BY <1>t DEF Remaining
  <2>4. Remaining(s)' = Remaining(s) \ {id}
    BY <1>t, <2>1, <2>2, <2>3 DEF Remaining, Ids
  <2>5. ASSUME NEW r \in Sessions
        PROVE  (heard[r] \o Owed(r))' = heard[r] \o Owed(r)
    <3> DEFINE n == Cardinality(Waiting(s, r))
    <3>1. Owed(r) = Chat!Copies(msg[s], n)
      BY <1>t, <2>2, OwedIs
    <3>2. Waiting(s, r)' = {i \in Remaining(s) \ {id} : room[i] = r}
      BY <2>2, <2>4 DEF Waiting
    <3>3. Owed(r)' = Chat!Copies(msg[s], Cardinality(Waiting(s, r)'))
      BY <1>t, <2>2, <2>4, <3>2 DEF Owed, Chat!Copies
    <3>4. IsFiniteSet(Waiting(s, r)) /\ n \in Nat
      BY WaitingFinite
    <3>5. CASE room[id] = r
      <4>1. id \in Waiting(s, r) /\ Waiting(s, r)' = Waiting(s, r) \ {id}
        BY <3>2, <3>5 DEF Waiting
      <4>2. n # 0 /\ Cardinality(Waiting(s, r)') = n - 1
        BY <3>4, <4>1, FS_RemoveElement, FS_EmptySet
      <4>3. heard'[r] = Append(heard[r], msg[s]) /\ heard[r] \in Seq(Ids)
        BY <1>t, <2>1, <3>5
      <4>4. n \in Nat \ {0}
        BY <3>4, <4>2
      <4> HIDE DEF n
      <4>5. Append(heard[r], msg[s]) \o Chat!Copies(msg[s], n - 1)
              = heard[r] \o Chat!Copies(msg[s], n)
        BY <2>2, <4>3, <4>4, AppendCopies
      <4> QED BY <3>1, <3>3, <4>2, <4>3, <4>5
    <3>6. CASE room[id] # r
      <4>1. Waiting(s, r)' = Waiting(s, r)
        BY <3>2, <3>6 DEF Waiting
      <4>2. heard'[r] = heard[r]
        BY <1>t, <2>1, <2>3, <3>6
      <4> QED BY <3>1, <3>3, <4>1, <4>2
    <3> QED BY <3>5, <3>6
  <2>6. Heard' = Heard
    BY <2>5 DEF Heard
  <2> QED BY <2>2, <2>6 DEF Stutter
<1>5. ASSUME NEW s \in Sessions, EndBroadcast(s) PROVE Stutter
  <2>1. /\ lock = s /\ Remaining(s) = {} /\ lock' = NoSession
        /\ UNCHANGED <<room, said, heard>>
    BY <1>t, <1>5 DEF EndBroadcast, LockInv
  <2>2. ASSUME NEW r \in Sessions
        PROVE  (heard[r] \o Owed(r))' = heard[r] \o Owed(r)
    <3>1. Waiting(s, r) = {}
      BY <2>1 DEF Waiting
    <3>2. Owed(r) = Chat!Copies(msg[s], 0)
      BY <1>t, <2>1, <3>1, OwedIs, FS_EmptySet
    <3>3. Owed(r)' = <<>>
      BY <2>1 DEF Owed
    <3> QED BY <1>t, <2>1, <3>2, <3>3, NoCopies
  <2>3. Heard' = Heard
    BY <2>2 DEF Heard
  <2> QED BY <2>1, <2>3 DEF Stutter
<1>6. ASSUME UNCHANGED vars PROVE Stutter
  BY <1>6, <1>o DEF vars, locals
<1> QED
  BY <1>s, <1>1, <1>2, <1>3, <1>4, <1>5, <1>6
  DEF Next, Begin, Step, Quiescent

(* The room is an atomic chat room: every chat is heard once by every      *)
(* player that had entered, and by all of them in the same order.          *)
THEOREM Refinement == Spec => ImplementsChat
  BY Invariance, InitRefines, NextRefines, PTL DEF Spec, ImplementsChat, Chat!Spec
=============================================================================
