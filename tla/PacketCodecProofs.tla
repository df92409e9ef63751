------------------------- MODULE PacketCodecProofs -------------------------
(***************************************************************************)
(* Proofs about PacketCodec, for every width of the sizes, header, varint  *)
(* base and length of the texts.  A text fits or is cut.  Of one that fits *)
(* the whole packet comes to the server, and S_CHAT fits because it has    *)
(* the same size.  One that is cut is sent without its payload, or with a  *)
(* size that is no packet's; what of it comes to the server is parsed only *)
(* if nothing follows the header, and the S_CHAT is then of an empty text, *)
(* which fits.                                                             *)
(***************************************************************************)
EXTENDS PacketCodec, TLAPS

\* The range of sizes and ids.
Cut == 0..(Modulus - 1)

\* What packet can be.
Packets == [size : Cut, id : Cut, text : 0..MaxText, written : BOOLEAN]

\* TypeOK, with the ranges as one set.
Types ==
  /\ at \in {"nowhere", "server", "client", "handled", "crashed", "torn"}
  /\ said \in 0..MaxText
  /\ packet \in Packets
  /\ handler \in {"none", "no entry", "CHAT", "INVALID", "unparsed"}

\* Nothing remains of the size of the message that was said.
NothingLeft == ~Fits(said) /\ ByteSizeLong(said) % Modulus = 0

Other == packet.id \notin {C_CHAT, S_CHAT}

\* What can be on its way to the server.
ToServer ==
  \/ Other
  \/ packet.id = C_CHAT /\ Fits(said) /\ packet.text = said /\ packet.written
  \/ /\ packet.id = C_CHAT /\ ~Fits(said)
     /\ packet.text = 0 /\ ~packet.written
     /\ packet.size = HeaderSize => NothingLeft

\* What can be on its way to a client.
ToClient ==
  \/ Other
  \/ /\ packet.id = S_CHAT /\ packet.written
     /\ \/ Fits(said) /\ packet.text = said
        \/ NothingLeft /\ packet.text = 0

IInv ==
  /\ Types
  /\ at = "server" => ToServer
  /\ at = "client" => ToClient
  /\ ServerNeverCuts
  /\ ChatComesThrough

-----------------------------------------------------------------------------
\* The size of a message is a number no smaller than its text.
LEMMA ByteSizeType ==
  ASSUME NEW text \in Nat
  PROVE  ByteSizeLong(text) \in Nat /\ text <= ByteSizeLong(text)
  BY DEF ByteSizeLong, VarintSize

\* Nothing is cut off a number that fits.
LEMMA ModSmall ==
  ASSUME NEW n \in Nat, n < Modulus PROVE n % Modulus = n
  BY CodecAssumption

\* What is cut is in the range of the sizes.
LEMMA ModRange ==
  ASSUME NEW n \in Nat PROVE n % Modulus \in Cut
  BY CodecAssumption DEF Cut

\* One modulus is cut off a number that is less than two.
LEMMA ModWraps ==
  ASSUME NEW n \in Nat, Modulus <= n, n < Modulus + Modulus
  PROVE  n % Modulus = n - Modulus
  BY CodecAssumption

\* An empty text fits, and its message is empty.
LEMMA EmptyFits == Fits(0) /\ ByteSizeLong(0) = 0
  BY CodecAssumption DEF Fits, ByteSizeLong

\* What the constants have to do with the range.
LEMMA Ranges ==
  /\ Modulus \in Nat /\ HeaderSize \in Nat /\ MaxText \in Nat
  /\ \A n \in Cut : n \in Nat
  /\ 0 \in Cut /\ HeaderSize \in Cut /\ 0 \in 0..MaxText
  /\ \A n \in 0..MaxText : n \in Nat
  /\ C_CHAT \in Cut /\ S_CHAT \in Cut /\ C_CHAT # S_CHAT
  /\ \A id \in IdsSent : id \in Cut
  /\ C_CHAT < Modulus - 1 /\ S_CHAT < Modulus - 1
  BY CodecAssumption DEF Cut, C_CHAT, S_CHAT

\* A packet is made of its four parts.
LEMMA PacketType ==
  ASSUME NEW size \in Cut, NEW id \in Cut, NEW text \in 0..MaxText,
         NEW written \in BOOLEAN
  PROVE  [size |-> size, id |-> id, text |-> text, written |-> written]
           \in Packets
  BY DEF Packets

\* MakeSerializedPacket makes a packet, of any text.
LEMMA SerializeType ==
  ASSUME NEW text \in 0..MaxText, NEW id \in Cut
  PROVE  /\ MakeSerializedPacket(text, id) \in Packets
         /\ MakeSerializedPacket(text, id).id = id
<1> DEFINE n == ByteSizeLong(text)
           q == n % Modulus
           written == SerializeToArray(text, q)
<1>0. MakeSerializedPacket(text, id) =
        [size |-> (HeaderSize + q) % Modulus, id |-> id,
         text |-> IF written THEN text ELSE 0, written |-> written]
  BY DEF MakeSerializedPacket
<1>1. n \in Nat
  BY Ranges, ByteSizeType
<1> HIDE DEF n
<1>2. q \in Cut /\ HeaderSize + q \in Nat
  BY <1>1, ModRange, Ranges
<1> HIDE DEF q
<1>3. (HeaderSize + q) % Modulus \in Cut
  BY <1>2, ModRange
<1>4. written \in BOOLEAN
  BY DEF SerializeToArray
<1>5. (IF written THEN text ELSE 0) \in 0..MaxText
  BY Ranges
<1> HIDE DEF written
<1>6. MakeSerializedPacket(text, id) \in Packets
  BY <1>0, <1>3, <1>4, <1>5, PacketType
<1> QED BY <1>0, <1>6

(* MakeSerializedPacket is exact for every text that fits: no size is cut  *)
(* and the text is in the packet (ServerPacketHandler.h:64-85).            *)
THEOREM SerializeExact ==
  ASSUME NEW text \in Nat, NEW id, Fits(text)
  PROVE  MakeSerializedPacket(text, id) =
           [size |-> HeaderSize + ByteSizeLong(text), id |-> id,
            text |-> text, written |-> TRUE]
<1> DEFINE n == ByteSizeLong(text)
<1>1. n \in Nat /\ HeaderSize + n \in Nat /\ HeaderSize + n < Modulus
      /\ n < Modulus
  BY ByteSizeType, CodecAssumption DEF Fits
<1>2. SerializeToArray(text, n) = TRUE
  BY <1>1 DEF SerializeToArray
<1> HIDE DEF n
<1>3. n % Modulus = n /\ (HeaderSize + n) % Modulus = HeaderSize + n
  BY <1>1, ModSmall
<1> QED BY <1>2, <1>3 DEF MakeSerializedPacket, n

(* A text that does not fit is never sent in part: the packet has a size   *)
(* that is no packet's, or its payload was not written; and only when the  *)
(* size of the message is cut to nothing does nothing follow the header    *)
(* (ServerPacketHandler.h:64-85).                                          *)
THEOREM SerializeCut ==
  ASSUME NEW text \in Nat, NEW id, ~Fits(text)
  PROVE  LET p == MakeSerializedPacket(text, id) IN
         \/ p.size < HeaderSize
         \/ /\ p.id = id /\ ~p.written /\ p.text = 0
            /\ p.size = HeaderSize => ByteSizeLong(text) % Modulus = 0
<1> DEFINE n == ByteSizeLong(text)
           q == n % Modulus
           size == (HeaderSize + q) % Modulus
           written == SerializeToArray(text, q)
           p == MakeSerializedPacket(text, id)
<1>0. p = [size |-> size, id |-> id, text |-> IF written THEN text ELSE 0,
           written |-> written]
  BY DEF MakeSerializedPacket
<1>1. n \in Nat /\ Modulus <= HeaderSize + n
  BY ByteSizeType, CodecAssumption DEF Fits
<1>2. written <=> n <= q
  BY DEF SerializeToArray
<1> HIDE DEF n, p, written
<1>3. q \in Nat /\ q < Modulus /\ HeaderSize \in Nat /\ Modulus \in Nat
      /\ HeaderSize < Modulus
  BY <1>1, ModRange, CodecAssumption DEF Cut
<1>4. n < Modulus => q = n
  BY <1>1, ModSmall
<1> HIDE DEF q
<1>m. PICK m \in Nat : m = HeaderSize + q
  BY <1>3
<1>s. size = m % Modulus
  BY <1>m
<1>5. Modulus <= m => size = m - Modulus
  <2>1. m < Modulus + Modulus
    BY <1>3, <1>m
  <2> QED BY <1>s, <2>1, ModWraps
<1>6. m < Modulus => size = m
  BY <1>s, ModSmall
<1> HIDE DEF size
<1>7. CASE Modulus <= m
  <2>1. size < HeaderSize
    BY <1>3, <1>m, <1>5, <1>7
  <2> QED BY <1>0, <2>1 DEF p
<1>8. CASE m < Modulus
  <2>1. ~written
    BY <1>1, <1>2, <1>3, <1>m, <1>4, <1>8
  <2>2. size = HeaderSize => q = 0
    BY <1>3, <1>m, <1>6, <1>8
  <2>3. p.id = id /\ ~p.written /\ p.text = 0 /\ p.size = size
    BY <1>0, <2>1
  <2> QED BY <2>2, <2>3 DEF p, q, n
<1> QED BY <1>3, <1>m, <1>7, <1>8

\* A size that fits is in the range of the sizes.
LEMMA FitsBounds ==
  ASSUME NEW text \in Nat, Fits(text)
  PROVE  /\ HeaderSize + ByteSizeLong(text) \in Nat
         /\ ~(HeaderSize + ByteSizeLong(text) < HeaderSize)
  BY ByteSizeType, CodecAssumption DEF Fits

\* Both ends have a handler for the chat that comes to them.
LEMMA ChatHasHandler ==
  /\ GPacketHandler("server", C_CHAT) = "CHAT"
  /\ GPacketHandler("client", S_CHAT) = "CHAT"
  BY CodecAssumption DEF GPacketHandler, C_CHAT, S_CHAT

\* What a peer sends that is no chat.
LEMMA OtherPacket ==
  ASSUME SendOther
  PROVE  packet' \in Packets /\ Other'
<1>1. ASSUME NEW id \in IdsSent \ {C_CHAT, S_CHAT},
             packet' = [size |-> HeaderSize, id |-> id, text |-> 0,
                        written |-> TRUE]
      PROVE  packet' \in Packets /\ Other'
  <2>1. packet' \in Packets
    BY <1>1, Ranges, PacketType
  <2> QED BY <1>1, <2>1 DEF Other
<1> QED BY <1>1 DEF SendOther

-----------------------------------------------------------------------------
\* NoPacket is a packet, and no chat.
LEMMA NoPacketType == NoPacket \in Packets /\ NoPacket.id \notin {C_CHAT, S_CHAT}
  BY Ranges DEF NoPacket, Packets, C_CHAT, S_CHAT

\* Init establishes the inductive invariant.
LEMMA InitIInv == Init => IInv
  BY Ranges, NoPacketType
     DEF Init, IInv, Types, ServerNeverCuts, ChatComesThrough

\* A client's chat, of any length.
LEMMA SayChatKeepsIInv == IInv /\ SayChat => IInv'
<1> SUFFICES ASSUME IInv, SayChat PROVE IInv'
  OBVIOUS
<1>1. PICK text \in 0..MaxText :
        said' = text /\ packet' = MakeSerializedPacket(text, C_CHAT)
  BY DEF SayChat
<1>2. packet' \in Packets /\ packet'.id = C_CHAT /\ text \in Nat
  BY <1>1, Ranges, SerializeType
<1>3. /\ handler' = handler
      /\ at' \in (IF packet'.size < HeaderSize THEN {"crashed", "torn"}
                                               ELSE {"server"})
  BY DEF SayChat, Send
<1>4. Types'
  BY <1>1, <1>2, <1>3 DEF IInv, Types
<1>5. ServerNeverCuts' /\ ChatComesThrough' /\ at' # "client"
  BY <1>2, <1>3, Ranges DEF ServerNeverCuts, ChatComesThrough
<1>6. at' = "server" => ToServer'
  <2> SUFFICES ASSUME at' = "server" PROVE ToServer'
    OBVIOUS
  <2>1. ~(packet'.size < HeaderSize)
    BY <1>3
  <2>2. CASE Fits(text)
    <3>1. packet' = [size |-> HeaderSize + ByteSizeLong(text), id |-> C_CHAT,
                     text |-> text, written |-> TRUE]
      BY <1>1, <1>2, <2>2, SerializeExact
    <3>2. packet'.text = text /\ packet'.written
      BY <3>1
    <3> QED BY <1>1, <1>2, <2>2, <3>2 DEF ToServer, Fits
  <2>3. CASE ~Fits(text)
    <3>1. /\ ~packet'.written /\ packet'.text = 0
          /\ packet'.size = HeaderSize => ByteSizeLong(text) % Modulus = 0
      BY <1>1, <1>2, <2>1, <2>3, SerializeCut
    <3> QED BY <1>1, <1>2, <2>3, <3>1 DEF ToServer, NothingLeft, Fits
  <2> QED BY <2>2, <2>3
<1> QED BY <1>4, <1>5, <1>6 DEF IInv

\* The server's turn: C_CHAT becomes S_CHAT, or nothing becomes of it.
LEMMA ServerKeepsIInv == IInv /\ HandlePacket("server") => IInv'
<1> SUFFICES ASSUME IInv, HandlePacket("server") PROVE IInv'
  OBVIOUS
<1>1. at = "server" /\ ToServer /\ said' = said
  BY DEF HandlePacket, IInv
<1>2. /\ packet \in Packets /\ said \in 0..MaxText /\ said \in Nat
      /\ handler \in {"none", "no entry", "CHAT", "INVALID", "unparsed"}
  BY Ranges DEF IInv, Types
<1>3. CASE packet.id = C_CHAT /\ ParseFromArray(packet)
  <2>1. handler' = "CHAT"
    BY <1>3, ChatHasHandler, Zenon DEF HandlePacket
  <2>2. packet' = MakeSerializedPacket(packet.text, S_CHAT)
          /\ at' \in (IF packet'.size < HeaderSize THEN {"crashed", "torn"}
                                                   ELSE {"client"})
    BY <2>1 DEF HandlePacket, Handle_C_CHAT, Send
  <2>3. /\ packet.text \in Nat /\ packet.text \in 0..MaxText
        /\ Fits(packet.text)
        /\ \/ Fits(said) /\ packet.text = said
           \/ NothingLeft /\ packet.text = 0
    BY <1>1, <1>2, <1>3, EmptyFits, Ranges
       DEF ToServer, Other, ParseFromArray, Packets
  <2>4. packet' = [size |-> HeaderSize + ByteSizeLong(packet.text),
                   id |-> S_CHAT, text |-> packet.text, written |-> TRUE]
    BY <2>2, <2>3, SerializeExact
  <2>5. packet' \in Packets
    BY <2>2, <2>3, Ranges, SerializeType
  <2>6. PICK size \in Nat : /\ size = HeaderSize + ByteSizeLong(packet.text)
                            /\ ~(size < HeaderSize)
    BY <2>3, FitsBounds
  <2>7. /\ packet'.id = S_CHAT /\ packet'.written
        /\ packet'.text = packet.text /\ packet'.size = size
    BY <2>4, <2>6
  <2>8. at' = "client"
    BY <2>2, <2>6, <2>7
  <2>9. Types'
    BY <1>1, <1>2, <2>1, <2>5, <2>8 DEF Types
  <2>10. ToClient'
    BY <1>1, <2>3, <2>7 DEF ToClient, NothingLeft, Fits
  <2>11. ServerNeverCuts'
    <3>1. HeaderSize + ByteSizeLong(packet.text) <= size
      BY <2>6
    <3>2. (HeaderSize + ByteSizeLong(packet.text) <= packet.size)'
      BY <2>7, <3>1 DEF ByteSizeLong
    <3> QED BY <2>7, <3>2 DEF ServerNeverCuts
  <2> QED BY <2>8, <2>9, <2>10, <2>11 DEF IInv, ChatComesThrough
<1>4. CASE packet.id = C_CHAT /\ ~ParseFromArray(packet)
  <2>1. handler' = "unparsed"
    BY <1>4, ChatHasHandler, Zenon DEF HandlePacket
  <2>2. packet' = packet /\ at' = "handled"
    BY <2>1 DEF HandlePacket
  <2>3. ~Fits(said)
    BY <1>1, <1>4 DEF ToServer, Other, ParseFromArray
  <2>4. Types' /\ ServerNeverCuts'
    BY <1>1, <1>2, <1>4, <2>1, <2>2, Ranges DEF Types, ServerNeverCuts
  <2>5. ChatComesThrough'
    BY <1>1, <1>4, <2>1, <2>2, <2>3 DEF ChatComesThrough, Fits
  <2> QED BY <2>2, <2>4, <2>5 DEF IInv
<1>5. CASE packet.id # C_CHAT
  <2>1. GPacketHandler("server", packet.id) \in {"no entry", "INVALID"}
    BY <1>5 DEF GPacketHandler
  <2>2. handler' \in {"no entry", "INVALID"}
    BY <2>1 DEF HandlePacket
  <2>3. packet' = packet /\ at' = "handled"
    BY <2>2 DEF HandlePacket
  <2>4. Other
    BY <1>1, <1>5 DEF ToServer
  <2>5. Types'
    BY <1>1, <1>2, <2>2, <2>3 DEF Types
  <2> QED BY <2>3, <2>4, <2>5 DEF IInv, ServerNeverCuts, ChatComesThrough, Other
<1> QED BY <1>3, <1>4, <1>5

\* A client's turn.
LEMMA ClientKeepsIInv == IInv /\ HandlePacket("client") => IInv'
<1> SUFFICES ASSUME IInv, HandlePacket("client") PROVE IInv'
  OBVIOUS
<1>1. /\ ToClient /\ said' = said
      /\ packet' = packet /\ at' = "handled"
  BY DEF HandlePacket, IInv
<1>2. GPacketHandler("client", packet.id) \in {"no entry", "INVALID", "CHAT"}
  BY DEF GPacketHandler
<1>3. handler' \in {"no entry", "INVALID", "CHAT", "unparsed"}
  BY <1>2 DEF HandlePacket
<1>4. Types'
  BY <1>1, <1>3 DEF IInv, Types
<1>5. ServerNeverCuts'
  BY <1>1 DEF IInv, ServerNeverCuts, ByteSizeLong, VarintSize
<1>6. CASE packet.id = S_CHAT
  <2>1. handler' = "CHAT"
    <3>1. ParseFromArray(packet)
      BY <1>1, <1>6 DEF ToClient, Other, ParseFromArray
    <3> QED BY <1>6, <3>1, ChatHasHandler, Zenon DEF HandlePacket
  <2>2. ChatComesThrough'
    BY <1>1, <1>6, <2>1 DEF ToClient, Other, ChatComesThrough, NothingLeft, Fits
  <2> QED BY <1>1, <1>4, <1>5, <2>2 DEF IInv
<1>7. CASE packet.id # S_CHAT
  <2>1. Other
    BY <1>1, <1>7 DEF ToClient
  <2> QED BY <1>1, <1>4, <1>5, <2>1 DEF IInv, ChatComesThrough, Other
<1> QED BY <1>6, <1>7

\* Every step keeps the inductive invariant.
LEMMA NextIInv == IInv /\ [Next]_vars => IInv'
<1> SUFFICES ASSUME IInv, [Next]_vars PROVE IInv'
  OBVIOUS
<1>1. CASE SendOther
  <2>1. at' \in {"server", "client"} /\ said' = said /\ handler' = handler
    BY <1>1 DEF SendOther
  <2>2. packet' \in Packets /\ Other'
    BY <1>1, OtherPacket
  <2>3. Types'
    BY <2>1, <2>2 DEF IInv, Types
  <2>4. ServerNeverCuts' /\ ChatComesThrough' /\ ToServer' /\ ToClient'
    BY <2>2 DEF Other, ServerNeverCuts, ChatComesThrough, ToServer, ToClient
  <2> QED BY <2>3, <2>4 DEF IInv
<1>2. CASE Again
  <2>1. at' = "nowhere" /\ said' = 0 /\ handler' = "none" /\ packet' = NoPacket
    BY <1>2 DEF Again
  <2>2. Types' /\ ServerNeverCuts' /\ ChatComesThrough'
    BY <2>1, NoPacketType, Ranges DEF Types, ServerNeverCuts, ChatComesThrough
  <2> QED BY <2>1, <2>2 DEF IInv
<1>3. CASE UNCHANGED vars
  <2>1. at' = at /\ said' = said /\ packet' = packet /\ handler' = handler
    BY <1>3 DEF vars
  <2>2. /\ Types' = Types /\ ToServer' = ToServer /\ ToClient' = ToClient
        /\ ChatComesThrough' = ChatComesThrough
        /\ ServerNeverCuts' = ServerNeverCuts
    BY <2>1 DEF Types, ToServer, ToClient, Other, NothingLeft, Fits,
                ChatComesThrough, ServerNeverCuts, ByteSizeLong, VarintSize
  <2> QED BY <2>1, <2>2 DEF IInv
<1> QED
  BY <1>1, <1>2, <1>3, SayChatKeepsIInv, ServerKeepsIInv, ClientKeepsIInv
     DEF Next

-----------------------------------------------------------------------------
(* The inductive invariant holds in every state, for texts of any length   *)
(* (ServerPacketHandler.h, ClientPacketHandler.h, Handle_C_CHAT).          *)
THEOREM Invariance == Spec => []IInv
  BY InitIInv, NextIInv, PTL DEF Spec

(* Sizes and ids have 16 bits, and whatever is called for a packet is a    *)
(* function (ServerPacketHandler.h:30-45).                                 *)
THEOREM TypeCorrect == Spec => []TypeOK
<1>1. IInv => TypeOK
  BY DEF IInv, Types, TypeOK, Packets, Cut
<1> QED BY <1>1, Invariance, PTL

(* Whatever clients say, the S_CHAT that the server makes of it is whole   *)
(* and has a size that holds it, up to the largest text that gets there.   *)
THEOREM ServerCutsNothing == Spec => []ServerNeverCuts
<1>1. IInv => ServerNeverCuts
  BY DEF IInv
<1> QED BY <1>1, Invariance, PTL

(* What was said is what Handle_S_CHAT is given when it fits; otherwise no *)
(* handler sees any of it.                                                 *)
THEOREM ChatArrives == Spec => []ChatComesThrough
<1>1. IInv => ChatComesThrough
  BY DEF IInv
<1> QED BY <1>1, Invariance, PTL
=============================================================================
