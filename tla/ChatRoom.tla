------------------------------ MODULE ChatRoom ------------------------------
(***************************************************************************)
(* What Room promises to its players: a chat is said to everybody in the   *)
(* room at one instant.  Chats are numbered in the order in which they are *)
(* said.  A player that has joined hears every later chat once, and all    *)
(* players hear the chats in the same order.  A session hears what each of *)
(* its players hears.                                                      *)
(***************************************************************************)
EXTENDS Naturals, Sequences, FiniteSets

CONSTANT Sessions

VARIABLES
  members,  \* the players in the room, by id, and the session of each
  said,     \* number of chats said so far
  heard     \* per session, the chats queued for it, in order

roomVars == <<members, said, heard>>

\* n copies of the chat c.
Copies(c, n) == [k \in 1..n |-> c]

PlayersOf(s) == {id \in DOMAIN members : members[id] = s}

Init ==
  /\ members = <<>>
  /\ said = 0
  /\ heard = [s \in Sessions |-> <<>>]

(* A player joins; whoever is in the room stays there.                     *)
Join(id, s) ==
  /\ id \notin DOMAIN members
  /\ members' = [i \in DOMAIN members \cup {id} |->
                   IF i = id THEN s ELSE members[i]]
  /\ UNCHANGED <<said, heard>>

Say ==
  /\ said' = said + 1
  /\ heard' = [s \in Sessions |->
                 heard[s] \o Copies(said + 1, Cardinality(PlayersOf(s)))]
  /\ UNCHANGED members

Next == Say \/ \E id \in DOMAIN members', s \in Sessions : Join(id, s)

Spec == Init /\ [][Next]_roomVars
=============================================================================
