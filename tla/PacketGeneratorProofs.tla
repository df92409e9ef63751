------------------------ MODULE PacketGeneratorProofs ------------------------
(***************************************************************************)
(* Proofs about the packet generator, for every file and any number of     *)
(* builds.  The id of a packet is a function of the lines before its own,  *)
(* and those never change: so every build gives it the same id.            *)
(***************************************************************************)
EXTENDS PacketGenerator, FiniteSetTheorems, FunctionTheorems, TLAPS

\* The lines below n that declare a packet, and those with the given prefix.
PacketLines(n) == {i \in 1..n : i \in DOMAIN file /\ file[i] \in {"C_", "S_"}}
Prefixed(n, prefix) == {i \in PacketLines(n) : file[i] = prefix}

\* What the count has come to at line i, and the packets of a set of lines.
IdOf(i) == StartId + Cardinality(PacketLines(i - 1))
Numbered(lines) == {[name |-> i, id |-> IdOf(i)] : i \in lines}

\* The lists h are those of the first n lines.
ListsOf(h, end, n) ==
  /\ h.recv_pkt = Numbered(Prefixed(n, RecvPrefix[end]))
  /\ h.send_pkt = Numbered(Prefixed(n, SendPrefix[end]))
  /\ h.total_pkt = Numbered(PacketLines(n))

Lists == [recv_pkt : SUBSET [name : Nat, id : Nat],
          send_pkt : SUBSET [name : Nat, id : Nat],
          total_pkt : SUBSET [name : Nat, id : Nat]]
Parsers == [lines : Seq(Kinds), at : Nat, id : Nat,
            recv_pkt : SUBSET [name : Nat, id : Nat],
            send_pkt : SUBSET [name : Nat, id : Nat],
            total_pkt : SUBSET [name : Nat, id : Nat]]

Types ==
  /\ file \in Seq(Kinds) /\ Len(file) <= MaxLines
  /\ parser \in [Ends -> Parsers]
  /\ header \in [Ends -> Lists]

(* A run has read the first lines of the file and numbered the packets of  *)
(* those it has parsed.                                                    *)
ParserInv(end) ==
  LET p == parser[end] IN
  /\ Len(p.lines) <= Len(file)
  /\ \A i \in 1..Len(p.lines) : p.lines[i] = file[i]
  /\ \E n \in 0..Len(p.lines) :
       /\ p.at = n + 1 \/ (p.at = 0 /\ n = 0)
       /\ p.id = IdOf(n + 1)
       /\ ListsOf(p, end, n)

\* A header has the packets of the first n lines, for some n.
HeaderInv(end) == \E n \in 0..Len(file) : ListsOf(header[end], end, n)

IInv == Types /\ \A end \in Ends : ParserInv(end) /\ HeaderInv(end)

-----------------------------------------------------------------------------
(* The count of packets. *)

LEMMA PacketLinesFinite ==
  ASSUME NEW n \in Nat
  PROVE  IsFiniteSet(PacketLines(n)) /\ Cardinality(PacketLines(n)) \in Nat
<1>1. IsFiniteSet(1..n)
  BY FS_Interval
<1> QED  BY <1>1, FS_Subset, FS_CardinalityType DEF PacketLines

\* One more line is one more packet, or not.
LEMMA NextLine ==
  ASSUME Types, NEW n \in Nat, n < Len(file)
  PROVE  /\ PacketLines(n + 1) = PacketLines(n) \cup
              IF file[n + 1] \in {"C_", "S_"} THEN {n + 1} ELSE {}
         /\ \A prefix \in {"C_", "S_"} :
              Prefixed(n + 1, prefix) = Prefixed(n, prefix) \cup
                IF file[n + 1] = prefix THEN {n + 1} ELSE {}
         /\ IdOf(n + 2) =
              IdOf(n + 1) + IF file[n + 1] \in {"C_", "S_"} THEN 1 ELSE 0
<1>1. PacketLines(n + 1) = PacketLines(n) \cup
        IF file[n + 1] \in {"C_", "S_"} THEN {n + 1} ELSE {}
  BY DEF PacketLines, Types
<1>2. ASSUME NEW prefix \in {"C_", "S_"}
      PROVE  Prefixed(n + 1, prefix) = Prefixed(n, prefix) \cup
               IF file[n + 1] = prefix THEN {n + 1} ELSE {}
  BY <1>1 DEF Prefixed
<1>3. n + 1 \notin PacketLines(n)
  BY DEF PacketLines
<1>4. IdOf(n + 2) = StartId + Cardinality(PacketLines(n + 1))
      /\ IdOf(n + 1) = StartId + Cardinality(PacketLines(n))
  <2>1. (n + 2) - 1 = n + 1 /\ (n + 1) - 1 = n
    OBVIOUS
  <2> QED  BY <2>1 DEF IdOf
<1>5. CASE file[n + 1] \in {"C_", "S_"}
  <2>1. Cardinality(PacketLines(n) \cup {n + 1})
          = Cardinality(PacketLines(n)) + 1
    BY <1>3, PacketLinesFinite, FS_AddElement
  <2>2. Cardinality(PacketLines(n + 1)) = Cardinality(PacketLines(n)) + 1
    BY <1>1, <1>5, <2>1
  <2>3. IdOf(n + 2) = IdOf(n + 1) + 1
    BY <1>4, <2>2, PacketLinesFinite, GeneratorAssumption
  <2> QED  BY <1>1, <1>2, <1>5, <2>3
<1>6. CASE file[n + 1] \notin {"C_", "S_"}
  BY <1>1, <1>2, <1>4, <1>6, PacketLinesFinite, GeneratorAssumption
<1> QED  BY <1>5, <1>6

\* No two packets have one id.
LEMMA DistinctIds ==
  ASSUME NEW i \in Nat, NEW j \in Nat, i < j, i \in PacketLines(i)
  PROVE  IdOf(i) < IdOf(j)
<1>1. i - 1 \in Nat /\ j - 1 \in Nat /\ i - 1 < i /\ i <= j - 1
  BY DEF PacketLines
<1>2. i \notin PacketLines(i - 1)
  BY <1>1 DEF PacketLines
<1>3. PacketLines(i - 1) \cup {i} \subseteq PacketLines(j - 1)
  BY <1>1 DEF PacketLines
<1>4. Cardinality(PacketLines(i - 1) \cup {i})
        = Cardinality(PacketLines(i - 1)) + 1
  BY <1>1, <1>2, PacketLinesFinite, FS_AddElement
<1>5. Cardinality(PacketLines(i - 1) \cup {i})
        <= Cardinality(PacketLines(j - 1))
  BY <1>1, <1>3, PacketLinesFinite, FS_Subset
<1> QED  BY <1>1, <1>4, <1>5, PacketLinesFinite, GeneratorAssumption DEF IdOf

-----------------------------------------------------------------------------
(* Each action keeps the invariant. *)

LEMMA NothingRead ==
  ASSUME NEW end \in Ends, NEW h,
         h.recv_pkt = {}, h.send_pkt = {}, h.total_pkt = {}
  PROVE  ListsOf(h, end, 0) /\ IdOf(1) = StartId
<1>1. PacketLines(0) = {}
  BY DEF PacketLines
<1>2. IdOf(1) = StartId
  BY <1>1, FS_EmptySet, GeneratorAssumption DEF IdOf
<1> QED  BY <1>1, <1>2 DEF ListsOf, Numbered, Prefixed

LEMMA InitIInv == Init => IInv
<1> SUFFICES ASSUME Init PROVE IInv
  OBVIOUS
<1>1. Types
  BY GeneratorAssumption DEF Init, Types, NewParser, NoHeader, Parsers, Lists
<1>2. ASSUME NEW end \in Ends PROVE ParserInv(end) /\ HeaderInv(end)
  <2>1. parser[end] = NewParser(<<>>, 0) /\ header[end] = NoHeader
        /\ Len(file) = 0
    BY DEF Init
  <2>2. ListsOf(parser[end], end, 0) /\ IdOf(1) = StartId
    BY <2>1, NothingRead DEF NewParser
  <2>3. ListsOf(header[end], end, 0)
    BY <2>1, NothingRead DEF NoHeader
  <2> QED  BY <2>1, <2>2, <2>3 DEF ParserInv, HeaderInv, NewParser
<1> QED  BY <1>1, <1>2 DEF IInv

\* What has been counted stays, as the file grows at its end.
LEMMA AddLineKeeps ==
  ASSUME IInv, AddLine
  PROVE  IInv'
<1>1. /\ file' \in Seq(Kinds) /\ Len(file') <= MaxLines
      /\ Len(file') = Len(file) + 1
      /\ \A i \in 1..Len(file) : file'[i] = file[i]
  BY GeneratorAssumption DEF AddLine, IInv, Types
<1>2. Types' /\ parser' = parser /\ header' = header
  BY <1>1 DEF AddLine, IInv, Types
<1>3. ASSUME NEW n \in 0..Len(file) PROVE PacketLines(n)' = PacketLines(n)
  BY <1>1 DEF PacketLines, IInv, Types
<1>4. ASSUME NEW i \in 1..(Len(file) + 1) PROVE IdOf(i)' = IdOf(i)
  <2>1. i - 1 \in 0..Len(file)
    BY DEF IInv, Types
  <2> QED  BY <1>3, <2>1 DEF IdOf
<1>5. ASSUME NEW end \in Ends, NEW h, NEW n \in 0..Len(file),
             ListsOf(h, end, n)
      PROVE  ListsOf(h, end, n)'
  <2>1. ASSUME NEW prefix PROVE Prefixed(n, prefix)' = Prefixed(n, prefix)
    BY <1>1, <1>3 DEF Prefixed, PacketLines
  <2>2. ASSUME NEW A \in SUBSET PacketLines(n)
        PROVE  Numbered(A)' = Numbered(A)
    BY <1>4 DEF Numbered, PacketLines
  <2> QED  BY <1>3, <1>5, <2>1, <2>2 DEF ListsOf, Prefixed
<1>6. ASSUME NEW end \in Ends PROVE ParserInv(end)' /\ HeaderInv(end)'
  <2>1. Len(parser[end].lines) \in Nat /\ Len(file) \in Nat
    BY DEF IInv, Types, Parsers
  <2>2. \A n \in 0..Len(parser[end].lines) :
          n \in 0..Len(file) /\ n + 1 \in 1..(Len(file) + 1)
    BY <2>1 DEF IInv, ParserInv
  <2>3. ParserInv(end)'
    BY <1>1, <1>2, <1>4, <1>5, <2>1, <2>2 DEF IInv, ParserInv
  <2>4. HeaderInv(end)'
    BY <1>1, <1>2, <1>5, <2>1 DEF IInv, HeaderInv
  <2> QED  BY <2>3, <2>4
<1> QED  BY <1>2, <1>6 DEF IInv

\* What speaks of the file only stays when the file does.
LEMMA FileStays ==
  ASSUME UNCHANGED file
  PROVE  /\ \A n : PacketLines(n)' = PacketLines(n) /\ IdOf(n)' = IdOf(n)
         /\ \A h, end, n : ListsOf(h, end, n)' = ListsOf(h, end, n)
BY DEF PacketLines, IdOf, ListsOf, Numbered, Prefixed

LEMMA RunKeeps ==
  ASSUME IInv, NEW end \in Ends, Run(end)
  PROVE  IInv'
<1>1. parser' = [parser EXCEPT ![end] = NewParser(file, 1)]
      /\ file' = file /\ header' = header
  BY DEF Run
<1>2. Types'
  <2>1. NewParser(file, 1) \in Parsers
    BY GeneratorAssumption DEF IInv, Types, NewParser, Parsers
  <2> QED  BY <1>1, <2>1 DEF IInv, Types
<1>3. ListsOf(NewParser(file, 1), end, 0) /\ IdOf(1) = StartId
  BY NothingRead DEF NewParser
<1>4. ASSUME NEW e \in Ends PROVE ParserInv(e)' /\ HeaderInv(e)'
  <2>1. HeaderInv(e)'
    <3>1. ASSUME NEW n PROVE ListsOf(header[e], e, n)' = ListsOf(header[e], e, n)
      BY <1>1, FileStays
    <3> QED  BY <1>1, <3>1 DEF IInv, HeaderInv
  <2>2. CASE e = end
    <3>1. parser'[end] = NewParser(file, 1)
      BY <1>1 DEF IInv, Types
    <3>2. Len(file) \in Nat
      BY DEF IInv, Types
    <3> QED  BY <1>1, <1>3, <2>1, <2>2, <3>1, <3>2, FileStays
             DEF ParserInv, NewParser
  <2>3. CASE e # end
    <3>1. parser'[e] = parser[e]
      BY <1>1, <2>3 DEF IInv, Types
    <3> QED  BY <1>1, <2>1, <3>1, FileStays DEF IInv, ParserInv
  <2> QED  BY <2>2, <2>3
<1> QED  BY <1>2, <1>4 DEF IInv

\* A round of the parser's loop numbers what it finds.
LEMMA ParsePacketNumbers ==
  ASSUME Types, NEW end \in Ends, NEW p \in Parsers, NEW m \in Nat \ {0},
         m <= Len(file), file[m] \in {"C_", "S_"},
         p.at = m, p.id = IdOf(m), ListsOf(p, end, m - 1)
  PROVE  LET q == ParsePacket(p, file[m], end) IN
         /\ q \in Parsers /\ q.at = p.at /\ q.lines = p.lines
         /\ q.id = IdOf(m + 1)
         /\ ListsOf(q, end, m)
<1> DEFINE q == ParsePacket(p, file[m], end)
           pkt == [name |-> m, id |-> IdOf(m)]
<1>1. /\ PacketLines(m) = PacketLines(m - 1) \cup {m}
      /\ \A prefix \in {"C_", "S_"} :
           Prefixed(m, prefix) = Prefixed(m - 1, prefix) \cup
             IF file[m] = prefix THEN {m} ELSE {}
      /\ IdOf(m + 1) = IdOf(m) + 1
  <2>1. m - 1 \in Nat /\ m - 1 < Len(file)
        /\ (m - 1) + 1 = m /\ (m - 1) + 2 = m + 1
    BY DEF Types
  <2> QED  BY <2>1, NextLine
<1>2. pkt \in [name : Nat, id : Nat]
  BY DEF Parsers
<1>3. /\ RecvPrefix[end] \in {"C_", "S_"} /\ SendPrefix[end] \in {"C_", "S_"}
      /\ file[m] = RecvPrefix[end] <=> file[m] # SendPrefix[end]
  BY DEF RecvPrefix, SendPrefix, Ends
<1>4. /\ q.id = IdOf(m) + 1
      /\ q.at = p.at
      /\ q.lines = p.lines
      /\ q.total_pkt = p.total_pkt \cup {pkt}
      /\ q.recv_pkt = IF file[m] = RecvPrefix[end]
                        THEN p.recv_pkt \cup {pkt} ELSE p.recv_pkt
      /\ q.send_pkt = IF file[m] = RecvPrefix[end]
                        THEN p.send_pkt ELSE p.send_pkt \cup {pkt}
  <2>1. q.id = IdOf(m) + 1
    BY DEF ParsePacket, Parsers
  <2>2. q.at = p.at
    BY DEF ParsePacket, Parsers
  <2>3. q.total_pkt = p.total_pkt \cup {pkt}
    BY DEF ParsePacket, Parsers
  <2>4. q.recv_pkt = IF file[m] = RecvPrefix[end]
                        THEN p.recv_pkt \cup {pkt} ELSE p.recv_pkt
    BY DEF ParsePacket, Parsers
  <2>6. q.lines = p.lines
    BY DEF ParsePacket, Parsers
  <2>5. q.send_pkt = IF file[m] = RecvPrefix[end]
                        THEN p.send_pkt ELSE p.send_pkt \cup {pkt}
    BY DEF ParsePacket, Parsers
  <2> QED  BY <2>1, <2>2, <2>3, <2>4, <2>5, <2>6
<1>5. q \in Parsers
  <2>1. ASSUME NEW recv \in SUBSET [name : Nat, id : Nat],
               NEW send \in SUBSET [name : Nat, id : Nat],
               NEW total \in SUBSET [name : Nat, id : Nat], NEW id \in Nat
        PROVE  [p EXCEPT !.recv_pkt = recv, !.send_pkt = send,
                         !.total_pkt = total, !.id = id] \in Parsers
    BY DEF Parsers
  <2>2. q = [p EXCEPT !.recv_pkt = q.recv_pkt, !.send_pkt = q.send_pkt,
                      !.total_pkt = q.total_pkt, !.id = q.id]
    BY <1>4 DEF ParsePacket, Parsers
  <2>3. /\ q.recv_pkt \in SUBSET [name : Nat, id : Nat]
        /\ q.send_pkt \in SUBSET [name : Nat, id : Nat]
        /\ q.total_pkt \in SUBSET [name : Nat, id : Nat]
        /\ q.id \in Nat
    BY <1>2, <1>4 DEF Parsers
  <2> HIDE DEF q
  <2>4. [p EXCEPT !.recv_pkt = q.recv_pkt, !.send_pkt = q.send_pkt,
                  !.total_pkt = q.total_pkt, !.id = q.id] \in Parsers
    BY <2>1, <2>3
  <2> QED  BY <2>2, <2>4
<1> HIDE DEF q
<1>6. ListsOf(q, end, m)
  <2>1. ASSUME NEW A PROVE Numbered(A \cup {m}) = Numbered(A) \cup {pkt}
    BY DEF Numbered
  <2>2. /\ Numbered(PacketLines(m)) = Numbered(PacketLines(m - 1)) \cup {pkt}
        /\ \A prefix \in {"C_", "S_"} :
             Numbered(Prefixed(m, prefix)) =
               IF file[m] = prefix
                 THEN Numbered(Prefixed(m - 1, prefix)) \cup {pkt}
                 ELSE Numbered(Prefixed(m - 1, prefix))
    BY <1>1, <2>1
  <2> QED  BY <1>3, <1>4, <2>2 DEF ListsOf
<1> QED  BY <1>1, <1>4, <1>5, <1>6 DEF q

LEMMA ParseLineKeeps ==
  ASSUME IInv, NEW end \in Ends, ParseLine(end)
  PROVE  IInv'
<1> DEFINE p == parser[end]
           m == p.at
           q == IF file[m] \in {RecvPrefix[end], SendPrefix[end]}
                  THEN ParsePacket(p, file[m], end) ELSE p
<1>1. /\ p \in Parsers /\ m \in Nat \ {0} /\ m <= Len(p.lines)
      /\ m <= Len(file) /\ Len(file) \in Nat /\ Len(p.lines) \in Nat
      /\ p.lines[m] = file[m]
      /\ \A i \in 1..Len(p.lines) : p.lines[i] = file[i]
      /\ Len(p.lines) <= Len(file)
  BY DEF ParseLine, IInv, Types, ParserInv, Parsers
<1>2. p.id = IdOf(m) /\ ListsOf(p, end, m - 1)
  BY <1>1 DEF IInv, ParserInv
<1>3. /\ parser' = [parser EXCEPT ![end] = [q EXCEPT !.at = q.at + 1]]
      /\ file' = file /\ header' = header
  BY <1>1 DEF ParseLine
<1>4. {RecvPrefix[end], SendPrefix[end]} = {"C_", "S_"}
  BY DEF RecvPrefix, SendPrefix, Ends
<1>5. /\ q \in Parsers /\ q.at = m /\ q.lines = p.lines
      /\ q.id = IdOf(m + 1) /\ ListsOf(q, end, m)
  <2>1. CASE file[m] \in {"C_", "S_"}
    BY <1>1, <1>2, <1>4, <2>1, ParsePacketNumbers DEF IInv
  <2>2. CASE file[m] \notin {"C_", "S_"}
    <3>1. m - 1 \in Nat /\ m - 1 < Len(file)
          /\ (m - 1) + 1 = m /\ (m - 1) + 2 = m + 1
      BY <1>1
    <3>2. /\ PacketLines(m) = PacketLines(m - 1)
          /\ \A prefix \in {"C_", "S_"} :
               Prefixed(m, prefix) = Prefixed(m - 1, prefix)
          /\ IdOf(m + 1) = IdOf(m) + 0
      BY <2>2, <3>1, NextLine DEF IInv
    <3>3. q = p /\ p.id \in Nat
      BY <1>1, <1>4, <2>2 DEF Parsers
    <3>4. q.id = IdOf(m + 1)
      BY <1>2, <3>2, <3>3
    <3>5. ListsOf(p, end, m)
      BY <1>2, <1>4, <3>2 DEF ListsOf
    <3> QED  BY <1>1, <3>3, <3>4, <3>5
  <2> QED  BY <2>1, <2>2
<1> HIDE DEF q
<1> DEFINE r == [q EXCEPT !.at = q.at + 1]
<1>6. /\ r \in Parsers /\ r.at = m + 1 /\ r.lines = p.lines /\ r.id = q.id
      /\ r.recv_pkt = q.recv_pkt /\ r.send_pkt = q.send_pkt
      /\ r.total_pkt = q.total_pkt
  <2>1. m + 1 \in Nat
    BY <1>1
  <2> QED  BY <1>5, <2>1 DEF Parsers
<1> HIDE DEF r
<1>7. Types'
  BY <1>3, <1>6 DEF IInv, Types, r
<1>8. ASSUME NEW e \in Ends PROVE ParserInv(e)' /\ HeaderInv(e)'
  <2>1. HeaderInv(e)'
    <3>1. ASSUME NEW n PROVE ListsOf(header[e], e, n)' = ListsOf(header[e], e, n)
      BY <1>3, FileStays
    <3> QED  BY <1>3, <3>1 DEF IInv, HeaderInv
  <2>2. CASE e = end
    <3>1. PICK k \in Nat, x \in Parsers : k = m /\ x = r
      BY <1>1, <1>6
    <3>2. /\ parser'[end] = x /\ x.at = k + 1 /\ x.lines = p.lines
          /\ x.id = IdOf(k + 1) /\ ListsOf(x, end, k)
      BY <1>1, <1>3, <1>5, <1>6, <3>1 DEF IInv, Types, r, ListsOf
    <3>3. /\ Len(x.lines) \in Nat /\ k \in 0..Len(x.lines)
          /\ Len(x.lines) <= Len(file)
          /\ \A i \in 1..Len(x.lines) : x.lines[i] = file[i]
      BY <1>1, <3>1, <3>2
    <3>4. UNCHANGED file
      BY <1>3
    <3>5. ParserInv(end)'
      BY <3>2, <3>3, <3>4, FileStays DEF ParserInv
    <3> QED  BY <2>1, <2>2, <3>5
  <2>3. CASE e # end
    <3>1. parser'[e] = parser[e] /\ UNCHANGED file
      BY <1>3, <2>3 DEF IInv, Types
    <3>2. ParserInv(e)'
      BY <3>1, FileStays DEF IInv, ParserInv
    <3> QED  BY <2>1, <3>2
  <2> QED  BY <2>2, <2>3
<1> QED  BY <1>7, <1>8 DEF IInv

LEMMA RenderKeeps ==
  ASSUME IInv, NEW end \in Ends, Render(end)
  PROVE  IInv'
<1> DEFINE p == parser[end]
           h == [recv_pkt |-> p.recv_pkt, send_pkt |-> p.send_pkt,
                 total_pkt |-> p.total_pkt]
<1>1. /\ p \in Parsers /\ p.at = Len(p.lines) + 1
      /\ header' = [header EXCEPT ![end] = h]
      /\ parser' = [parser EXCEPT ![end] = NewParser(<<>>, 0)]
      /\ file' = file
  BY DEF Render, IInv, Types
<1>2. h \in Lists /\ NewParser(<<>>, 0) \in Parsers
  BY <1>1, GeneratorAssumption DEF Parsers, Lists, NewParser
<1>3. PICK n \in 0..Len(file) : ListsOf(h, end, n)
  BY <1>1 DEF IInv, Types, ParserInv, Parsers, ListsOf
<1>4. ListsOf(NewParser(<<>>, 0), end, 0) /\ IdOf(1) = StartId
  BY NothingRead DEF NewParser
<1>5. Types'
  BY <1>1, <1>2 DEF IInv, Types
<1> HIDE DEF h
<1>6. ASSUME NEW e \in Ends PROVE ParserInv(e)' /\ HeaderInv(e)'
  <2>1. CASE e = end
    <3>1. parser'[end] = NewParser(<<>>, 0) /\ header'[end] = h
      BY <1>1 DEF IInv, Types
    <3>2. ParserInv(end)'
      BY <1>1, <1>4, <3>1, FileStays
         DEF IInv, Types, ParserInv, NewParser
    <3>3. HeaderInv(end)'
      BY <1>1, <1>3, <3>1, FileStays DEF HeaderInv
    <3> QED  BY <2>1, <3>2, <3>3
  <2>2. CASE e # end
    <3>1. parser'[e] = parser[e] /\ header'[e] = header[e]
      BY <1>1, <2>2 DEF IInv, Types
    <3>2. ParserInv(e)'
      BY <1>1, <3>1, FileStays DEF IInv, ParserInv
    <3>3. HeaderInv(e)'
      BY <1>1, <3>1, FileStays DEF IInv, HeaderInv
    <3> QED  BY <3>2, <3>3
  <2> QED  BY <2>1, <2>2
<1> QED  BY <1>5, <1>6 DEF IInv

(* The invariant holds in every state: whatever has been parsed has the    *)
(* ids that the file says, in runs under way and in headers               *)
(* (ProtoParser.py:12-29).                                                 *)
THEOREM Invariance == Spec => []IInv
<1>1. Init => IInv
  BY InitIInv
<1>2. IInv /\ [Next]_vars => IInv'
  <2> SUFFICES ASSUME IInv, [Next]_vars PROVE IInv'
    OBVIOUS
  <2>1. CASE AddLine
    BY <2>1, AddLineKeeps
  <2>2. ASSUME NEW end \in Ends, Run(end) PROVE IInv'
    BY <2>2, RunKeeps
  <2>3. ASSUME NEW end \in Ends, ParseLine(end) PROVE IInv'
    BY <2>3, ParseLineKeeps
  <2>4. ASSUME NEW end \in Ends, Render(end) PROVE IInv'
    BY <2>4, RenderKeeps
  <2>5. CASE UNCHANGED vars
    <3>1. Types'
      BY <2>5 DEF vars, IInv, Types
    <3>2. ASSUME NEW e \in Ends PROVE ParserInv(e)' /\ HeaderInv(e)'
      <4>1. UNCHANGED file /\ parser' = parser /\ header' = header
        BY <2>5 DEF vars
      <4>2. ParserInv(e)'
        BY <4>1, FileStays DEF IInv, ParserInv
      <4>3. HeaderInv(e)'
        BY <4>1, FileStays DEF IInv, HeaderInv
      <4> QED  BY <4>2, <4>3
    <3> QED  BY <3>1, <3>2 DEF IInv
  <2> QED  BY <2>1, <2>2, <2>3, <2>4, <2>5 DEF Next
<1> QED  BY <1>1, <1>2, PTL DEF Spec

-----------------------------------------------------------------------------
\* A list of numbered lines has their names, and one id for each.
LEMMA NumberedNames ==
  ASSUME NEW A
  PROVE  Names(Numbered(A)) = A
<1>1. ASSUME NEW i \in A PROVE i \in Names(Numbered(A))
  <2>1. [name |-> i, id |-> IdOf(i)].name = i
    OBVIOUS
  <2>2. [name |-> i, id |-> IdOf(i)] \in Numbered(A)
    BY DEF Numbered
  <2> QED  BY <2>1, <2>2 DEF Names
<1> QED  BY <1>1 DEF Names, Numbered

LEMMA NumberedIds ==
  ASSUME NEW A, NEW j \in A, NEW h, h.total_pkt = Numbered(A)
  PROVE  PKT(h, j) = {IdOf(j)}
<1> DEFINE pkt == [name |-> j, id |-> IdOf(j)]
<1>1. pkt \in h.total_pkt /\ pkt.name = j /\ pkt.id = IdOf(j)
  BY DEF Numbered
<1>2. \A q \in h.total_pkt : q.name = j => q.id = IdOf(j)
  BY DEF Numbered
<1> QED  BY <1>1, <1>2 DEF PKT

(* What a build has written does not depend on when it was: both ends have *)
(* the same id for a packet, and it is no other packet's                   *)
(* (ProtoParser.py:12-29, Templates/PacketHandler.h:12-18, 28-49).         *)
THEOREM UnderstandEachOther == Spec => []EndsUnderstandEachOther
<1>1. IInv => EndsUnderstandEachOther
  <2> SUFFICES ASSUME IInv, NEW from \in Ends, NEW to \in Ends, from # to,
                      NEW name \in Names(header[from].send_pkt)
               PROVE  \E id \in PKT(header[from], name) :
                        /\ PKT(header[from], name) = {id}
                        /\ GPacketHandler(header[to], id) =
                             {name} \cap Names(header[to].recv_pkt)
                        /\ name \in Names(header[to].total_pkt)
                             => name \in Names(header[to].recv_pkt)
    BY DEF EndsUnderstandEachOther
  <2>1. PICK n \in 0..Len(file) : ListsOf(header[from], from, n)
    BY DEF IInv, HeaderInv
  <2>2. PICK k \in 0..Len(file) : ListsOf(header[to], to, k)
    BY DEF IInv, HeaderInv
  <2>3. /\ Names(header[from].send_pkt) = Prefixed(n, SendPrefix[from])
        /\ Names(header[to].recv_pkt) = Prefixed(k, RecvPrefix[to])
        /\ Names(header[to].total_pkt) = PacketLines(k)
    BY <2>1, <2>2, NumberedNames DEF ListsOf
  <2>4. RecvPrefix[to] = SendPrefix[from]
    BY DEF RecvPrefix, SendPrefix, Ends
  <2>5. name \in PacketLines(n) /\ file[name] = SendPrefix[from]
    BY <2>3 DEF Prefixed
  <2>6. ASSUME NEW j \in PacketLines(n) PROVE PKT(header[from], j) = {IdOf(j)}
    BY <2>1, NumberedIds DEF ListsOf
  <2>7. ASSUME NEW j \in PacketLines(k) PROVE PKT(header[to], j) = {IdOf(j)}
    BY <2>2, NumberedIds DEF ListsOf
  <2>8. ASSUME NEW j \in PacketLines(k), IdOf(j) = IdOf(name) PROVE j = name
    <3>1. j \in Nat /\ name \in Nat
          /\ j \in PacketLines(j) /\ name \in PacketLines(name)
      BY <2>5 DEF PacketLines
    <3>2. j - 1 \in Nat /\ name - 1 \in Nat
      BY <2>5 DEF PacketLines
    <3>3. IdOf(j) \in Nat /\ IdOf(name) \in Nat
      <4>1. /\ Cardinality(PacketLines(j - 1)) \in Nat
            /\ Cardinality(PacketLines(name - 1)) \in Nat
        BY <3>2, PacketLinesFinite
      <4> QED  BY <4>1, GeneratorAssumption DEF IdOf
    <3> QED  BY <2>8, <3>1, <3>3, DistinctIds
  <2>9. GPacketHandler(header[to], IdOf(name))
          = {name} \cap Names(header[to].recv_pkt)
    BY <2>3, <2>7, <2>8 DEF GPacketHandler, Prefixed
  <2>10. name \in PacketLines(k) => name \in Prefixed(k, RecvPrefix[to])
    BY <2>4, <2>5 DEF Prefixed
  <2> QED  BY <2>3, <2>5, <2>6, <2>9, <2>10
<1> QED  BY <1>1, Invariance, PTL

\* A packet of the first n lines has a name and an id within the bounds.
LEMMA NumberedBounds ==
  ASSUME Types, NEW n \in 0..Len(file)
  PROVE  /\ Numbered(PacketLines(n))
              \subseteq [name : 1..Len(file), id : StartId..(StartId + MaxLines)]
         /\ Cardinality(Numbered(PacketLines(n))) = Cardinality(PacketLines(n))
<1>1. ASSUME NEW i \in PacketLines(n)
      PROVE  i \in 1..Len(file) /\ IdOf(i) \in StartId..(StartId + MaxLines)
  <2>1. i \in 1..Len(file) /\ i - 1 \in Nat /\ i - 1 <= MaxLines
    BY GeneratorAssumption DEF PacketLines, Types
  <2>2. IsFiniteSet(1..(i - 1)) /\ Cardinality(1..(i - 1)) = i - 1
    BY <2>1, FS_Interval
  <2>3. Cardinality(PacketLines(i - 1)) <= i - 1
    BY <2>2, FS_Subset DEF PacketLines
  <2>4. Cardinality(PacketLines(i - 1)) \in Nat
    BY <2>1, PacketLinesFinite
  <2> QED  BY <2>1, <2>3, <2>4, GeneratorAssumption DEF IdOf
<1>2. Cardinality(Numbered(PacketLines(n))) = Cardinality(PacketLines(n))
  <2> DEFINE f == [i \in PacketLines(n) |-> [name |-> i, id |-> IdOf(i)]]
  <2>1. f \in Bijection(PacketLines(n), Numbered(PacketLines(n)))
    <3>1. \A i, j \in PacketLines(n) : f[i] = f[j] => i = j
      OBVIOUS
    <3>2. f \in [PacketLines(n) -> Numbered(PacketLines(n))]
          /\ \A p \in Numbered(PacketLines(n)) : \E i \in PacketLines(n) : f[i] = p
      BY DEF Numbered
    <3> QED  BY <3>1, <3>2, Fun_IsBij
  <2>2. n \in Nat
    BY DEF Types
  <2> QED  BY <2>1, <2>2, PacketLinesFinite, FS_Bijection DEF ExistsBijection
<1> QED  BY <1>1, <1>2 DEF Numbered

(* Every variable has its type, and a parser has counted exactly the       *)
(* packets it has listed (ProtoParser.py:2-31).                            *)
THEOREM TypeCorrect == Spec => []TypeOK
<1>1. IInv => TypeOK
  <2> SUFFICES ASSUME IInv, NEW end \in Ends
               PROVE  LET p == parser[end] IN
                      /\ p.lines \in Seq(Kinds) /\ p.at \in 0..(Len(p.lines) + 1)
                      /\ Cardinality(p.total_pkt) = p.id - StartId
                      /\ p.recv_pkt \cup p.send_pkt = p.total_pkt
                      /\ p.total_pkt \subseteq
                           [name : 1..Len(file), id : StartId..(StartId + MaxLines)]
                      /\ Names(header[end].total_pkt) \subseteq 1..Len(file)
    BY DEF TypeOK, IInv, Types
  <2> DEFINE p == parser[end]
  <2>1. PICK n \in 0..Len(file) :
          /\ p.at \in 0..(Len(p.lines) + 1)
          /\ p.id = IdOf(n + 1) /\ ListsOf(p, end, n)
    BY DEF IInv, Types, Parsers, ParserInv
  <2>2. PICK k \in 0..Len(file) : ListsOf(header[end], end, k)
    BY DEF IInv, HeaderInv
  <2>3. /\ p.total_pkt \subseteq
             [name : 1..Len(file), id : StartId..(StartId + MaxLines)]
        /\ Cardinality(p.total_pkt) = Cardinality(PacketLines(n))
    BY <2>1, NumberedBounds DEF ListsOf, IInv
  <2>4. p.id = StartId + Cardinality(PacketLines(n))
        /\ Cardinality(PacketLines(n)) \in Nat
    <3>1. n \in Nat /\ (n + 1) - 1 = n
      BY DEF IInv, Types
    <3> QED  BY <2>1, <3>1, PacketLinesFinite DEF IdOf
  <2>5. p.recv_pkt \cup p.send_pkt = p.total_pkt
    <3>1. PacketLines(n)
            = Prefixed(n, RecvPrefix[end]) \cup Prefixed(n, SendPrefix[end])
      BY DEF Prefixed, PacketLines, RecvPrefix, SendPrefix, Ends
    <3> QED  BY <2>1, <3>1 DEF ListsOf, Numbered
  <2>6. Names(header[end].total_pkt) \subseteq 1..Len(file)
    BY <2>2, NumberedNames DEF ListsOf, PacketLines
  <2>7. p.lines \in Seq(Kinds)
    BY DEF IInv, Types, Parsers
  <2> QED  BY <2>1, <2>3, <2>4, <2>5, <2>6, <2>7, GeneratorAssumption
<1> QED  BY <1>1, Invariance, PTL
=============================================================================
