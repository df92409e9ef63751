------------------------------ MODULE GameRoom ------------------------------
(***************************************************************************)
(* The game: the packet handlers of GameServer/ServerPacketHandler.cpp and *)
(* GRoom (GameServer/Room.cpp), run by the worker threads for all sessions *)
(* at once.                                                                *)
(*                                                                         *)
(* A session has one handler at a time (OneReceiver of SessionLifecycle),  *)
(* so a running handler is named by its session; at most Workers of them   *)
(* run at the same time.  Session::Send puts a packet at the end of the    *)
(* session's send queue, whether or not it is still connected; what        *)
(* happens to it there is in SessionSend.  Of the replies only             *)
(* S_ENTER_GAME says something about the room.  Room::Leave and            *)
(* GSessionManager.Broadcast have no caller.                               *)
(***************************************************************************)
EXTENDS Naturals, Sequences, FiniteSets

CONSTANTS
  Sessions,    \* sessions that send packets
  NoSession,   \* the room's mutex is free
  Workers,     \* number of worker threads
  MaxPackets   \* bound: packets handled per session

ASSUME RoomAssumption ==
  /\ IsFiniteSet(Sessions) /\ NoSession \notin Sessions
  /\ Workers \in Nat \ {0} /\ MaxPackets \in Nat

VARIABLES
  idGenerator,  \* the static counter of Handle_C_LOGIN
  players,      \* per session: the ids of GameSession::_players
  room,         \* Room::_players: id -> owner session of the player
  lock,         \* whose handler holds the room's mutex
  pc,           \* where the handler of each session is
  player,       \* local of Handle_C_ENTER_GAME: the id of the player
  iter,         \* local of Room::Broadcast: the last id sent to
  msg,          \* local of Handle_C_CHAT: which chat it is
  said,         \* history: broadcasts begun; a chat is named by its number
  heard,        \* history: S_CHAT packets in each session's send queue
  told,         \* history: players whose S_ENTER_GAME has been sent
  served        \* bound: packets handled, per session

locals == <<player, iter, msg>>
vars == <<idGenerator, players, room, lock, pc, locals, said, heard, told,
          served>>

Labels == {"idle", "Login2", "Enter", "EnterReply", "Say", "Broadcast"}

Goto(s, label) == pc' = [pc EXCEPT ![s] = label]

Init ==
  /\ idGenerator = 1
  /\ players = [s \in Sessions |-> <<>>]
  /\ room = <<>>
  /\ lock = NoSession
  /\ pc = [s \in Sessions |-> "idle"]
  /\ player = [s \in Sessions |-> 0]
  /\ iter = [s \in Sessions |-> 0]
  /\ msg = [s \in Sessions |-> 0]
  /\ said = 0
  /\ heard = [s \in Sessions |-> <<>>]
  /\ told = {}
  /\ served = [s \in Sessions |-> 0]

-----------------------------------------------------------------------------
(* A free worker dequeues a receive with a packet of session s.            *)
HandlePacket(s, label) ==
  /\ pc[s] = "idle"
  /\ served[s] < MaxPackets
  /\ Cardinality({r \in Sessions : pc[r] # "idle"}) < Workers
  /\ served' = [served EXCEPT ![s] = @ + 1]
  /\ Goto(s, label)

\* Mutant of AddPlayer: playerId keeps its default.
AddPlayerNoId(s) ==
  /\ players' = [players EXCEPT ![s] = Append(@, 0)]
  /\ idGenerator' = idGenerator + 1

(* playerRef->playerId = idGenerator++ and push_back.                      *)
AddPlayer(s) ==
  /\ players' = [players EXCEPT ![s] = Append(@, idGenerator)]
  /\ idGenerator' = idGenerator + 1

(* Handle_C_LOGIN up to its first player. *)
HandleLogin(s) ==
  /\ HandlePacket(s, "Login2")
  /\ AddPlayer(s)
  /\ UNCHANGED <<room, lock, locals, said, heard, told>>

\* Mutant of HandleLogin2: the second player gets the id of the first.
HandleLogin2SameId(s) ==
  /\ pc[s] = "Login2"
  /\ players' = [players EXCEPT ![s] = Append(@, @[Len(@)])]
  /\ Goto(s, "idle")
  /\ UNCHANGED <<idGenerator, room, lock, locals, said, heard, told, served>>

(* The rest of Handle_C_LOGIN: its second player, and S_LOGIN.             *)
HandleLogin2(s) ==
  /\ pc[s] = "Login2"
  /\ AddPlayer(s)
  /\ Goto(s, "idle")
  /\ UNCHANGED <<room, lock, locals, said, heard, told, served>>

\* Mutant of HandleEnterGame: GRoom.Enter is not called.
HandleEnterGameNoEnter(s) ==
  /\ HandlePacket(s, "EnterReply")
  /\ \E i \in 1..Len(players[s]) :
       player' = [player EXCEPT ![s] = players[s][i]]
  /\ UNCHANGED <<idGenerator, players, room, lock, iter, msg, said, heard,
                 told>>

(* Handle_C_ENTER_GAME: a client picks one of the players that S_LOGIN has *)
(* listed; the handler does not check the index.                           *)
HandleEnterGame(s) ==
  /\ HandlePacket(s, "Enter")
  /\ \E i \in 1..Len(players[s]) :
       player' = [player EXCEPT ![s] = players[s][i]]
  /\ UNCHANGED <<idGenerator, players, room, lock, iter, msg, said, heard,
                 told>>

(* Room::Enter, which holds the lock for the one insertion. *)
Enter(s) ==
  /\ pc[s] = "Enter"
  /\ lock = NoSession
  /\ room' = [id \in DOMAIN room \cup {player[s]} |->
                IF id = player[s] THEN s ELSE room[id]]
  /\ Goto(s, "EnterReply")
  /\ UNCHANGED <<idGenerator, players, lock, locals, said, heard, told,
                 served>>

(* S_ENTER_GAME to the player's owner. *)
EnterReply(s) ==
  /\ pc[s] = "EnterReply"
  /\ told' = told \cup {player[s]}
  /\ player' = [player EXCEPT ![s] = 0]
  /\ Goto(s, "idle")
  /\ UNCHANGED <<idGenerator, players, room, lock, iter, msg, said, heard,
                 served>>

(* Handle_C_CHAT up to GRoom.Broadcast. *)
HandleChat(s) ==
  /\ HandlePacket(s, "Say")
  /\ UNCHANGED <<idGenerator, players, room, lock, locals, said, heard, told>>

\* Mutant of LockRoom: Broadcast does not take the lock.
LockRoomNoTest(s) ==
  /\ pc[s] = "Say"
  /\ lock' = s
  /\ said' = said + 1
  /\ msg' = [msg EXCEPT ![s] = said + 1]
  /\ Goto(s, "Broadcast")
  /\ UNCHANGED <<idGenerator, players, room, player, iter, heard, told, served>>

(* Room::Broadcast takes the lock and begins its loop. *)
LockRoom(s) ==
  /\ pc[s] = "Say"
  /\ lock = NoSession
  /\ lock' = s
  /\ said' = said + 1
  /\ msg' = [msg EXCEPT ![s] = said + 1]
  /\ Goto(s, "Broadcast")
  /\ UNCHANGED <<idGenerator, players, room, player, iter, heard, told, served>>

\* The players the loop has not reached yet; a map is iterated in id order.
Remaining(s) == {id \in DOMAIN room : id > iter[s]}

(* One round of the loop: Send to the owner of the next player. *)
Broadcast(s) ==
  /\ pc[s] = "Broadcast"
  /\ \E id \in Remaining(s) :
       /\ \A other \in Remaining(s) : id <= other
       /\ heard' = [heard EXCEPT ![room[id]] = Append(@, msg[s])]
       /\ iter' = [iter EXCEPT ![s] = id]
  /\ UNCHANGED <<idGenerator, players, room, lock, pc, player, msg, said, told,
                 served>>

(* The loop is over: the lock is released and the handler returns. *)
EndBroadcast(s) ==
  /\ pc[s] = "Broadcast"
  /\ Remaining(s) = {}
  /\ lock' = NoSession
  /\ iter' = [iter EXCEPT ![s] = 0]
  /\ msg' = [msg EXCEPT ![s] = 0]
  /\ Goto(s, "idle")
  /\ UNCHANGED <<idGenerator, players, room, player, said, heard, told, served>>

-----------------------------------------------------------------------------
Begin(s) == HandleLogin(s) \/ HandleEnterGame(s) \/ HandleChat(s)

Step(s) ==
  \/ HandleLogin2(s)
  \/ Enter(s) \/ EnterReply(s)
  \/ LockRoom(s) \/ Broadcast(s) \/ EndBroadcast(s)

\* No client sends any more.
Quiescent ==
  /\ \A s \in Sessions : pc[s] = "idle" /\ served[s] = MaxPackets
  /\ UNCHANGED vars

Next == (\E s \in Sessions : Begin(s) \/ Step(s)) \/ Quiescent

Spec == Init /\ [][Next]_vars

-----------------------------------------------------------------------------
Ids == Nat \ {0}

TypeOK ==
  /\ idGenerator \in Ids
  /\ players \in [Sessions -> Seq(Ids)]
  /\ DOMAIN room \subseteq Ids
  /\ room \in [DOMAIN room -> Sessions]
  /\ lock \in Sessions \cup {NoSession}
  /\ pc \in [Sessions -> Labels]
  /\ player \in [Sessions -> Nat]
  /\ iter \in [Sessions -> Nat] /\ msg \in [Sessions -> Nat]
  /\ said \in Nat
  /\ heard \in [Sessions -> Seq(Ids)]
  /\ told \subseteq Ids
  /\ served \in [Sessions -> 0..MaxPackets]

(* Player ids identify a player on the whole server, although logins of    *)
(* several sessions run at once; so the room has for each id the session   *)
(* that owns that player, and Room::Enter never displaces another player   *)
(* (ServerPacketHandler.cpp:28-58, Room.cpp:8-12).                         *)
IdsIdentify ==
  /\ \A s, r \in Sessions :
       \A i \in 1..Len(players[s]), j \in 1..Len(players[r]) :
         players[s][i] = players[r][j] => s = r /\ i = j
  /\ \A id \in DOMAIN room :
       \E i \in 1..Len(players[room[id]]) : players[room[id]][i] = id

(* Whoever is told S_ENTER_GAME is in the room and will be sent the chats  *)
(* (ServerPacketHandler.cpp:66-82).                                        *)
EnterReplyMeansMember == told \subseteq DOMAIN room

\* The copies of the chat being broadcast that s has still to be sent.
Owed(s) ==
  IF lock = NoSession THEN <<>>
  ELSE [k \in 1..Cardinality({id \in Remaining(lock) : room[id] = s}) |->
          msg[lock]]

Chat == INSTANCE ChatRoom WITH
  members <- room,
  heard <- [s \in Sessions |-> heard[s] \o Owed(s)]

(* Although Broadcast sends to one member after the other while logins,    *)
(* entries and other chats go on, the room is an atomic chat room: every   *)
(* member hears every chat once, all in one order (Room.cpp:8-27).         *)
ImplementsChat == Chat!Spec
=============================================================================
