---------------------------- MODULE PacketCodec ----------------------------
(***************************************************************************)
(* Packets as the handlers make and read them: the template                *)
(* MakeSerializedPacket, the table GPacketHandler and HandlePacket, which  *)
(* ServerPacketHandler.h and ClientPacketHandler.h share, and the chat     *)
(* handlers at both ends.  A chat goes from a client through               *)
(* Handle_C_CHAT of the server to Handle_S_CHAT of a client.  Its sizes    *)
(* are cut to 16 bits and nothing asks whether they were; a message is     *)
(* named by the length of its text.                                        *)
(***************************************************************************)
EXTENDS Naturals

CONSTANTS
  Modulus,      \* 2^16: sizes and ids are uint16
  HeaderSize,   \* sizeof(PacketHeader)
  VarintBase,   \* a length below it takes one byte (7 bits of each byte)
  MaxText,      \* bound: the longest text that is said
  IdsSent       \* ids that packets carry

ASSUME CodecAssumption ==
  /\ HeaderSize \in Nat /\ VarintBase \in Nat \ {0} /\ MaxText \in Nat
  /\ Modulus \in Nat /\ HeaderSize < Modulus /\ 1006 < Modulus
  /\ IdsSent \subseteq 0..(Modulus - 1)

VARIABLES
  at,        \* where the packet is: nowhere, on its way to an end, handled,
             \* or lost at the end that made it
  said,      \* length of the text the client has said
  packet,    \* the packet: its header, the text it carries, and whether its
             \* payload was written or is as many zeros
  handler    \* the handler that was called last

vars == <<at, said, packet, handler>>

C_CHAT == 1004
S_CHAT == 1005

NoPacket == [size |-> 0, id |-> 0, text |-> 0, written |-> FALSE]

-----------------------------------------------------------------------------
\* The bytes of a message with one string field; an empty field is left out.
VarintSize(n) ==
  IF n < VarintBase THEN 1 ELSE IF n < VarintBase * VarintBase THEN 2 ELSE 3

ByteSizeLong(text) == IF text = 0 THEN 0 ELSE 1 + VarintSize(text) + text

(* SerializeToArray into payloadSize bytes writes all of the message or,   *)
(* when it is longer, nothing.                                             *)
SerializeToArray(text, payloadSize) == ByteSizeLong(text) <= payloadSize

(* MakeSerializedPacket: both sizes are cut to 16 bits, and what           *)
(* SerializeToArray returns is ignored.                                    *)
MakeSerializedPacket(text, id) ==
  LET payloadSize == ByteSizeLong(text) % Modulus
      written     == SerializeToArray(text, payloadSize)
  IN  [size    |-> (HeaderSize + payloadSize) % Modulus,
       id      |-> id,
       text    |-> IF written THEN text ELSE 0,
       written |-> written]

(* ParseFromArray of what follows the header: nothing at all is a message  *)
(* with an empty text; a zero is not the tag of a field.                   *)
ParseFromArray(pkt) == pkt.written \/ pkt.size = HeaderSize

\* Mutant of GPacketHandler: Init without its loop, so that calling an entry
\* that was not registered throws bad_function_call.
GPacketHandlerNoDefault(end, id) ==
  IF id >= Modulus - 1 THEN "no entry"
  ELSE IF id = (IF end = "server" THEN C_CHAT ELSE S_CHAT) THEN "CHAT"
  ELSE "bad_function_call"

(* GPacketHandler after Init: UINT16_MAX entries; the other known ids have *)
(* their handlers in GameRoom and are not chats.                           *)
GPacketHandler(end, id) ==
  IF id >= Modulus - 1 THEN "no entry"
  ELSE IF id = (IF end = "server" THEN C_CHAT ELSE S_CHAT) THEN "CHAT"
  ELSE "INVALID"

-----------------------------------------------------------------------------
Init ==
  /\ at = "nowhere"
  /\ said = 0
  /\ packet = NoPacket
  /\ handler = "none"

(* The packet goes to an end.  A SendBuffer whose packetSize was cut to    *)
(* less than a header is overrun by the header and by what                 *)
(* SerializeToArray writes: the process crashes, or goes on and sends the  *)
(* few bytes that the size names, which are no packet.                     *)
Send(end) ==
  at' \in IF packet'.size < HeaderSize THEN {"crashed", "torn"} ELSE {end}

(* A client says something, of any length: nothing asks whether it fits.   *)
SayChat ==
  /\ at = "nowhere"
  /\ \E text \in 0..MaxText :
       said' = text /\ packet' = MakeSerializedPacket(text, C_CHAT)
  /\ Send("server")
  /\ UNCHANGED handler

(* A peer sends a packet with another id and nothing in it. *)
SendOther ==
  /\ at = "nowhere"
  /\ \E id \in IdsSent \ {C_CHAT, S_CHAT} :
       packet' = [size |-> HeaderSize, id |-> id, text |-> 0, written |-> TRUE]
  /\ at' \in {"server", "client"}
  /\ UNCHANGED <<said, handler>>

\* Mutant of Handle_C_CHAT: S_CHAT carries the player's id as well.
Handle_C_CHATWithPlayerId ==
  LET payloadSize == (2 + ByteSizeLong(packet.text)) % Modulus IN
  packet' = [size    |-> (HeaderSize + payloadSize) % Modulus,
             id      |-> S_CHAT,
             text    |-> packet.text,
             written |-> 2 + ByteSizeLong(packet.text) <= payloadSize]

(* Handle_C_CHAT: S_CHAT with the text of C_CHAT, for the room. *)
Handle_C_CHAT == packet' = MakeSerializedPacket(packet.text, S_CHAT)

\* Mutant of HandlePacket: what ParseFromArray returns is not tested.
HandlePacketUnparsed(end) ==
  /\ at = end
  /\ handler' = GPacketHandler(end, packet.id)
  /\ IF handler' = "CHAT" /\ end = "server"
       THEN Handle_C_CHAT /\ Send("client")
       ELSE UNCHANGED packet /\ at' = "handled"
  /\ UNCHANGED said

(* OnRecvPacket of the end the packet has come to: HandlePacket calls the  *)
(* table's entry, which calls the handler if the payload can be parsed;    *)
(* what they return is ignored.                                            *)
HandlePacket(end) ==
  /\ at = end
  /\ LET entry == GPacketHandler(end, packet.id) IN
     handler' = IF entry = "CHAT" /\ ~ParseFromArray(packet) THEN "unparsed"
                                                             ELSE entry
  /\ IF handler' = "CHAT" /\ end = "server"
       THEN Handle_C_CHAT /\ Send("client")
       ELSE UNCHANGED packet /\ at' = "handled"
  /\ UNCHANGED said

\* The next packet.
Again ==
  /\ at \in {"handled", "crashed", "torn"}
  /\ at' = "nowhere" /\ said' = 0 /\ handler' = "none" /\ packet' = NoPacket

Next ==
  SayChat \/ SendOther \/ HandlePacket("server") \/ HandlePacket("client")
    \/ Again

Spec == Init /\ [][Next]_vars

-----------------------------------------------------------------------------
(* Sizes and ids have 16 bits, and whatever was called for a packet is a   *)
(* function (ServerPacketHandler.h:30-45).                                 *)
TypeOK ==
  /\ at \in {"nowhere", "server", "client", "handled", "crashed", "torn"}
  /\ said \in 0..MaxText
  /\ packet \in [size : 0..(Modulus - 1), id : 0..(Modulus - 1),
                 text : 0..MaxText, written : BOOLEAN]
  /\ handler \in {"none", "no entry", "CHAT", "INVALID", "unparsed"}

\* The text makes a packet whose size can be written in the header.
Fits(text) == HeaderSize + ByteSizeLong(text) < Modulus

(* Whatever clients say, the server cuts nothing: the S_CHAT that it makes *)
(* is whole and its size holds header and payload, so that the server      *)
(* overruns no buffer and puts no client's stream out of step.  It depends *)
(* on S_CHAT being no larger than the C_CHAT whose text was parsed, which  *)
(* must have fit (ServerPacketHandler.h:64-85,                             *)
(* ServerPacketHandler.cpp:84-95).                                         *)
ServerNeverCuts ==
  packet.id = S_CHAT =>
    /\ packet.written
    /\ HeaderSize + ByteSizeLong(packet.text) <= packet.size

(* A text that fits is what Handle_S_CHAT is given.  One that does not is  *)
(* cut at the client and its payload never written, so that no handler     *)
(* sees any of it: its packet cannot be parsed at the server, or, when     *)
(* nothing is left of the size, is an empty chat                           *)
(* (ClientPacketHandler.h:64-85, ServerPacketHandler.h:41-62).             *)
ChatComesThrough ==
  at = "handled" /\ packet.id \in {C_CHAT, S_CHAT} =>
    \/ handler = "CHAT" /\ packet.id = S_CHAT /\ packet.text = said /\ Fits(said)
    \/ handler = "unparsed" /\ packet.id = C_CHAT /\ ~Fits(said)
    \/ /\ handler = "CHAT" /\ packet.id = S_CHAT /\ packet.text = 0
       /\ ~Fits(said) /\ ByteSizeLong(said) % Modulus = 0

(* Every packet has an entry in the table, as the comment on the table     *)
(* says: "pkdId : 0~65535" (ServerPacketHandler.h:9).                      *)
EveryIdHasAnEntry == handler # "no entry"
=============================================================================
