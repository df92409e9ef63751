-------------------------- MODULE PacketGenerator --------------------------
(***************************************************************************)
(* The generator of ServerPacketHandler.h and ClientPacketHandler.h:       *)
(* Tools/PacketGenerator/ProtoParser.py, PacketHandlerGenerator.py and     *)
(* Templates/PacketHandler.h.  Every build of an end runs it anew over the *)
(* .proto file, to which packets are added in the meantime; the ids are    *)
(* nowhere written down, each run counts them.  Ends that were built from  *)
(* different versions of the file talk to each other.                      *)
(*                                                                         *)
(* A line of the file is known by its number and by what the parser tells  *)
(* of it: the prefix of a packet's name, a message that is no packet, or   *)
(* anything else.  The file only grows at its end.                         *)
(***************************************************************************)
EXTENDS Naturals, Sequences, FiniteSets

CONSTANTS
  StartId,   \* id of the first packet
  MaxLines   \* bound: length of the file

ASSUME GeneratorAssumption == StartId \in Nat /\ MaxLines \in Nat

Ends == {"server", "client"}

\* The arguments --recv and --send that each end's build passes.
RecvPrefix == [end \in Ends |-> IF end = "server" THEN "C_" ELSE "S_"]
SendPrefix == [end \in Ends |-> IF end = "server" THEN "S_" ELSE "C_"]

Kinds == {"C_", "S_", "message", "text"}

VARIABLES
  file,     \* the lines of the .proto file
  parser,   \* per end, the ProtoParser of the run under way
  header    \* per end, the header that its last build has written

vars == <<file, parser, header>>

(* ProtoParser.__init__: a parser, which has read the lines; at is the     *)
(* number of the next one, 0 when no run is under way.                     *)
NewParser(lines, at) ==
  [lines |-> lines, at |-> at, id |-> StartId,
   recv_pkt |-> {}, send_pkt |-> {}, total_pkt |-> {}]

NoHeader == [recv_pkt |-> {}, send_pkt |-> {}, total_pkt |-> {}]

Init ==
  /\ file = <<>>
  /\ parser = [end \in Ends |-> NewParser(<<>>, 0)]
  /\ header = [end \in Ends |-> NoHeader]

(* Somebody adds a line to the .proto file. *)
AddLine ==
  /\ Len(file) < MaxLines
  /\ \E kind \in Kinds : file' = Append(file, kind)
  /\ UNCHANGED <<parser, header>>

(* main: a build of an end makes a parser, which reads all lines at once.  *)
Run(end) ==
  /\ parser[end].at = 0
  /\ parser' = [parser EXCEPT ![end] = NewParser(file, 1)]
  /\ UNCHANGED <<file, header>>

\* Mutant of ParsePacket: only received packets take an id.
ParsePacketCountsReceived(p, kind, end) ==
  LET pkt == [name |-> p.at, id |-> p.id]
      recv == kind = RecvPrefix[end]
  IN [p EXCEPT !.recv_pkt = IF recv THEN @ \cup {pkt} ELSE @,
               !.send_pkt = IF recv THEN @ ELSE @ \cup {pkt},
               !.total_pkt = @ \cup {pkt},
               !.id = IF recv THEN @ + 1 ELSE @]

(* The loop's body for a packet: it joins the list of its prefix and the   *)
(* list of all, and takes the next id.                                     *)
ParsePacket(p, kind, end) ==
  LET pkt == [name |-> p.at, id |-> p.id]
      recv == kind = RecvPrefix[end]
  IN [p EXCEPT !.recv_pkt = IF recv THEN @ \cup {pkt} ELSE @,
               !.send_pkt = IF recv THEN @ ELSE @ \cup {pkt},
               !.total_pkt = @ \cup {pkt},
               !.id = @ + 1]

\* Mutant of ParseLine: a message that is no packet takes an id.
ParseLineCountsMessages(end) ==
  LET p == parser[end]
      kind == p.lines[p.at]
      q == IF kind \in {RecvPrefix[end], SendPrefix[end]}
             THEN ParsePacket(p, kind, end)
           ELSE IF kind = "message" THEN [p EXCEPT !.id = @ + 1] ELSE p
  IN /\ p.at \in 1..Len(p.lines)
     /\ parser' = [parser EXCEPT ![end] = [q EXCEPT !.at = @ + 1]]
     /\ UNCHANGED <<file, header>>

(* ProtoParser.parse_proto: one round of its loop over the lines; what is  *)
(* no message, and a message with neither prefix, is passed over.          *)
ParseLine(end) ==
  LET p == parser[end]
      kind == p.lines[p.at]
      q == IF kind \in {RecvPrefix[end], SendPrefix[end]}
             THEN ParsePacket(p, kind, end) ELSE p
  IN /\ p.at \in 1..Len(p.lines)
     /\ parser' = [parser EXCEPT ![end] = [q EXCEPT !.at = @ + 1]]
     /\ UNCHANGED <<file, header>>

(* The template is rendered over the header of the last build. *)
Render(end) ==
  LET p == parser[end] IN
  /\ p.at = Len(p.lines) + 1
  /\ header' = [header EXCEPT ![end] =
       [recv_pkt |-> p.recv_pkt, send_pkt |-> p.send_pkt,
        total_pkt |-> p.total_pkt]]
  /\ parser' = [parser EXCEPT ![end] = NewParser(<<>>, 0)]
  /\ UNCHANGED file

Next == AddLine \/ \E end \in Ends : Run(end) \/ ParseLine(end) \/ Render(end)

Spec == Init /\ [][Next]_vars

-----------------------------------------------------------------------------
\* What the generated code does.

Names(pkts) == {pkt.name : pkt \in pkts}

(* The ids that PKT_name stands for in the header's enum: one, if all is   *)
(* well.  MakeSendBuffer puts it in the packet's header.                   *)
PKT(h, name) == {pkt.id : pkt \in {q \in h.total_pkt : q.name = name}}

(* GPacketHandler after Init: the names of the handlers that were put at   *)
(* the id, of which the last stays; Handle_INVALID if there is none.       *)
GPacketHandler(h, id) ==
  {name \in Names(h.recv_pkt) : id \in PKT(h, name)}

-----------------------------------------------------------------------------
TypeOK ==
  /\ file \in Seq(Kinds) /\ Len(file) <= MaxLines
  /\ \A end \in Ends :
       LET p == parser[end] IN
       /\ p.lines \in Seq(Kinds) /\ p.at \in 0..(Len(p.lines) + 1)
       /\ Cardinality(p.total_pkt) = p.id - StartId
       /\ p.recv_pkt \cup p.send_pkt = p.total_pkt
       /\ p.total_pkt \subseteq
            [name : 1..Len(file), id : StartId..(StartId + MaxLines)]
       /\ Names(header[end].total_pkt) \subseteq 1..Len(file)

(* Two ends, built at any time, understand each other: whatever one of     *)
(* them sends has one id, at which the other has the handler of that       *)
(* packet, or no handler when it was built before the packet was added -   *)
(* never that of another packet (ProtoParser.py:12-29,                     *)
(* Templates/PacketHandler.h:12-18, 28-49).                                *)
EndsUnderstandEachOther ==
  \A from, to \in Ends : from # to =>
    \A name \in Names(header[from].send_pkt) :
      \E id \in PKT(header[from], name) :
        /\ PKT(header[from], name) = {id}
        /\ GPacketHandler(header[to], id) =
             {name} \cap Names(header[to].recv_pkt)
        /\ name \in Names(header[to].total_pkt)
             => name \in Names(header[to].recv_pkt)
=============================================================================
