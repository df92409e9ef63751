------------------------- MODULE ChatDeliveryProofs -------------------------
(***************************************************************************)
(* Proofs about ChatDelivery, for any threads, members, chats and faults.  *)
(*                                                                         *)
(* That clients see one conversation does not depend on who has the right  *)
(* to send: whatever a send path does with its packets, it only loses      *)
(* some.  What matters is in which order they get to a path, and that is   *)
(* the room's lock and that a session handles one packet at a time (IInv). *)
(*                                                                         *)
(* That nobody misses a chat does depend on it: only one thread, and none  *)
(* while a WSASend is pending, may move a session's queue (SendRightInv).  *)
(* Then each path is the part of the log that is due, packet by packet,    *)
(* with the reply somewhere in it (DueInv).                                *)
(***************************************************************************)
EXTENDS ChatDelivery, WellFoundedInduction, TLAPS

\* The packet p is in the sequence w.
Has(w, p) == \E i \in 1..Len(w) : w[i] = p

-----------------------------------------------------------------------------
Types ==
  /\ room \subseteq Members
  /\ holder \in [Locks -> Threads \cup {NoThread}]
  /\ session \in [Members -> [connected : BOOLEAN, sendRegistered : BOOLEAN,
                              sendQueue : Seq(Packets),
                              sendEvent : Seq(Packets), io : BOOLEAN]]
  /\ worker \in [Threads -> [pc : {"idle", "Enter", "Broadcast", "Send",
                                   "RegisterSend", "ProcessSend"},
                             by : Members \cup {0},
                             packet : Packets \cup {<<>>},
                             todo : SUBSET Members,
                             to : Members \cup {0}]]
  /\ said \in 0..MaxChats
  /\ log \in Seq(Packets)
  /\ since \in [Members -> Nat]
  /\ wire \in [Members -> Seq(Packets)]
  /\ lost \in [Members -> Seq(Packets)]

\* Where a thread is tells what its locals are.
LocalsInv ==
  \A t \in Threads :
    LET w == worker[t] IN
    /\ w.packet # <<>> =>
         /\ w.packet[1] = w.by /\ w.packet[2] <= said
         /\ w.pc \in {"Enter", "Broadcast", "Send", "RegisterSend"}
    /\ w.pc = "Enter" =>
         w.packet # <<>> /\ w.packet[2] = 0 /\ w.by \notin room
    /\ w.pc = "Broadcast" => w.packet # <<>> /\ w.packet[2] > 0
    /\ w.pc \in {"RegisterSend", "ProcessSend"} => w.to \in Members
    /\ w.todo # {} =>
         /\ w.packet # <<>> /\ w.pc \in {"Send", "RegisterSend"}
         /\ w.todo \subseteq room
         /\ w.packet[2] = 0 => w.todo = {w.by}

\* A session handles one packet at a time.
HandlerInv ==
  \A t, u \in Threads : worker[t].by = worker[u].by /\ t # u
                          => worker[t].by = 0

\* Whoever sends a chat has the room's lock, and its chat is the last.
RoomLockInv ==
  /\ \A t \in Threads :
       /\ worker[t].packet # <<>> /\ worker[t].packet[2] > 0
            /\ worker[t].todo # {} => holder[RoomLock] = t
       /\ holder[RoomLock] = t =>
            /\ worker[t].pc \in {"Send", "RegisterSend"}
            /\ worker[t].packet # <<>>
            /\ log # <<>> /\ log[Len(log)] = worker[t].packet

\* The log has the chats of each speaker in the order they were said.
LogInv ==
  /\ \A p \in Packets : Has(log, p) => p[2] \in 1..said
  /\ \A p, q \in Packets : Before(log, p, q) =>
       p # q /\ (p[1] = q[1] => p[2] < q[2])
  /\ \A t \in Threads : worker[t].pc = "Broadcast" =>
       \A p \in Packets : Has(log, p) /\ p[1] = worker[t].by =>
         p[2] < worker[t].packet[2]

\* A path has its own S_ENTER_GAME and chats of the log, in its order, and
\* none of its own chats comes before S_ENTER_GAME.
PathInv ==
  \A s \in Members :
    /\ \A p \in Packets : Has(Path(s), p) =>
         s \in room /\ (p[2] = 0 => p[1] = s) /\ (p[2] > 0 => Has(log, p))
    /\ \A p, q \in Packets : Before(Path(s), p, q) =>
         /\ p # q
         /\ p[2] > 0 /\ q[2] > 0 => Before(log, p, q)
         /\ ~(p[1] = s /\ q[2] = 0)

\* What a thread has still to send to a member, that has not had it; and
\* S_ENTER_GAME is sent before anything that the member says itself.
TodoInv ==
  \A t \in Threads : \A s \in worker[t].todo :
    /\ ~Has(Path(s), worker[t].packet)
    /\ worker[t].packet[2] = 0 =>
         \A p \in Packets : Has(Path(s), p) => p[1] # s

\* RegisterSend has the session's lock and something to send.
EventInv ==
  /\ \A s \in Members :
       /\ session[s].io <=> session[s].sendEvent # <<>>
       /\ since[s] <= Len(log)
  /\ \A t \in Threads : worker[t].pc = "RegisterSend" =>
       /\ holder[worker[t].to] = t
       /\ session[worker[t].to].sendQueue # <<>>

IInv ==
  /\ Types /\ LocalsInv /\ HandlerInv /\ RoomLockInv /\ EventInv
  /\ LogInv /\ PathInv /\ TodoInv

-----------------------------------------------------------------------------
\* Facts about sequences.

LEMMA HasAppend ==
  ASSUME NEW w \in Seq(Packets), NEW x \in Packets, NEW p \in Packets
  PROVE  Has(Append(w, x), p) <=> Has(w, p) \/ p = x
<1> DEFINE v == Append(w, x)
<1>1. /\ Len(v) = Len(w) + 1 /\ v[Len(w) + 1] = x
      /\ \A i \in 1..Len(w) : v[i] = w[i]
  OBVIOUS
<1> HIDE DEF v
<1>2. Has(v, p) => Has(w, p) \/ p = x
  BY <1>1 DEF Has
<1>3. Has(w, p) => Has(v, p)
  BY <1>1 DEF Has
<1>4. p = x => Has(v, p)
  BY <1>1 DEF Has
<1> QED BY <1>2, <1>3, <1>4 DEF v

LEMMA BeforeAppend ==
  ASSUME NEW w \in Seq(Packets), NEW x \in Packets,
         NEW p \in Packets, NEW q \in Packets
  PROVE  Before(Append(w, x), p, q) <=> Before(w, p, q) \/ (Has(w, p) /\ q = x)
<1> DEFINE v == Append(w, x)
<1>1. /\ Len(v) = Len(w) + 1 /\ v[Len(w) + 1] = x
      /\ \A i \in 1..Len(w) : v[i] = w[i]
  OBVIOUS
<1> HIDE DEF v
<1>2. Before(v, p, q) => Before(w, p, q) \/ (Has(w, p) /\ q = x)
  BY <1>1 DEF Has, Before
<1>3. Before(w, p, q) => Before(v, p, q)
  BY <1>1 DEF Before
<1>4. Has(w, p) /\ q = x => Before(v, p, q)
  BY <1>1 DEF Has, Before
<1> QED BY <1>2, <1>3, <1>4 DEF v

LEMMA AppendIndex ==
  ASSUME NEW w \in Seq(Packets), NEW x \in Packets
  PROVE  /\ Append(w, x) \in Seq(Packets) /\ Append(w, x) # <<>>
         /\ Len(Append(w, x)) = Len(w) + 1
         /\ Append(w, x)[Len(Append(w, x))] = x
  OBVIOUS

\* In a sequence without repetition, one of two comes first.
LEMMA BeforeAsymmetric ==
  ASSUME NEW w \in Seq(Packets), NEW p \in Packets, NEW q \in Packets,
         \A x, y \in Packets : Before(w, x, y) => x # y,
         Before(w, p, q), Before(w, q, p)
  PROVE  FALSE
<1>1. \A i, j \in 1..Len(w) : i < j => w[i] # w[j]
  BY DEF Before
<1> QED BY <1>1 DEF Before

\* v is what is left of w when some packets are lost.
Left(v, w) ==
  /\ \A p \in Packets : Has(v, p) => Has(w, p)
  /\ \A p, q \in Packets : Before(v, p, q) => Before(w, p, q)

\* A concatenation by its indices.
LEMMA ConcatIndex ==
  ASSUME NEW a \in Seq(Packets), NEW b \in Seq(Packets)
  PROVE  /\ a \o b \in Seq(Packets) /\ Len(a \o b) = Len(a) + Len(b)
         /\ \A i \in 1..Len(a) : (a \o b)[i] = a[i]
         /\ \A i \in 1..Len(b) : (a \o b)[Len(a) + i] = b[i]
  OBVIOUS

LEMMA EmptyConcat ==
  ASSUME NEW a \in Seq(Packets), NEW b \in Seq(Packets)
  PROVE  /\ a \o <<>> = a /\ <<>> \in Seq(Packets)
         /\ SubSeq(b, 1, 0) = <<>> /\ 0 \in 0..Len(b)
  OBVIOUS

LEMMA PartOfSeq ==
  ASSUME NEW b \in Seq(Packets), NEW k \in 0..Len(b)
  PROVE  /\ SubSeq(b, 1, k) \in Seq(Packets)
         /\ SubSeq(b, k + 1, Len(b)) \in Seq(Packets)
  OBVIOUS

LEMMA ConcatAppend ==
  ASSUME NEW a \in Seq(Packets), NEW b \in Seq(Packets), NEW x \in Packets
  PROVE  a \o Append(b, x) = Append(a \o b, x)
  OBVIOUS

LEMMA ThreeIndex ==
  ASSUME NEW a \in Seq(Packets), NEW b \in Seq(Packets), NEW c \in Seq(Packets)
  PROVE  /\ Len((a \o b) \o c) = Len(a) + Len(b) + Len(c)
         /\ \A i \in 1..Len(a) : ((a \o b) \o c)[i] = a[i]
         /\ \A i \in 1..Len(b) : ((a \o b) \o c)[Len(a) + i] = b[i]
         /\ \A i \in 1..Len(c) : ((a \o b) \o c)[Len(a) + Len(b) + i] = c[i]
<1> DEFINE e == a \o b
           v == e \o c
<1>1. /\ e \in Seq(Packets) /\ Len(e) = Len(a) + Len(b)
      /\ \A i \in 1..Len(a) : e[i] = a[i]
      /\ \A i \in 1..Len(b) : e[Len(a) + i] = b[i]
  BY ConcatIndex
<1> HIDE DEF e
<1>2. /\ Len(v) = Len(e) + Len(c)
      /\ \A i \in 1..Len(e) : v[i] = e[i]
      /\ \A i \in 1..Len(c) : v[Len(e) + i] = c[i]
  BY <1>1, ConcatIndex
<1> HIDE DEF v
<1>3. Len(a) \in Nat /\ Len(b) \in Nat
  OBVIOUS
<1>4. \A i \in 1..Len(a) : v[i] = a[i]
  BY <1>1, <1>2, <1>3
<1>5. \A i \in 1..Len(b) : v[Len(a) + i] = b[i]
  <2> TAKE i \in 1..Len(b)
  <2>1. Len(a) + i \in 1..Len(e)
    BY <1>1, <1>3
  <2> QED BY <1>1, <1>2, <2>1
<1>6. Len(v) = Len(a) + Len(b) + Len(c)
        /\ \A i \in 1..Len(c) : v[Len(a) + Len(b) + i] = c[i]
  BY <1>1, <1>2
<1> QED BY <1>4, <1>5, <1>6 DEF v, e

\* The middle of three sequences is lost, or its end.
LEMMA LeftOfThree ==
  ASSUME NEW a \in Seq(Packets), NEW b \in Seq(Packets), NEW c \in Seq(Packets),
         NEW k \in 0..Len(b)
  PROVE  Left((a \o SubSeq(b, 1, k)) \o c, (a \o b) \o c)
<1> DEFINE d == SubSeq(b, 1, k)
           v == (a \o d) \o c
           w == (a \o b) \o c
           f(i) == IF i <= Len(a) + k THEN i ELSE i + (Len(b) - k)
<1>0. /\ Len(a) \in Nat /\ Len(b) \in Nat /\ Len(c) \in Nat
      /\ d \in Seq(Packets) /\ Len(d) = k /\ \A i \in 1..k : d[i] = b[i]
  OBVIOUS
<1>1. /\ Len(v) = Len(a) + k + Len(c)
      /\ \A i \in 1..Len(a) : v[i] = a[i]
      /\ \A i \in 1..k : v[Len(a) + i] = b[i]
      /\ \A i \in 1..Len(c) : v[Len(a) + k + i] = c[i]
  <2> HIDE DEF d
  <2>1. /\ Len(v) = Len(a) + Len(d) + Len(c)
        /\ \A i \in 1..Len(a) : v[i] = a[i]
        /\ \A i \in 1..Len(d) : v[Len(a) + i] = d[i]
        /\ \A i \in 1..Len(c) : v[Len(a) + Len(d) + i] = c[i]
    <3>1. d \in Seq(Packets)
      BY <1>0
    <3> QED BY <3>1, ThreeIndex
  <2> HIDE DEF v
  <2> QED BY <1>0, <2>1
<1>2. /\ Len(w) = Len(a) + Len(b) + Len(c)
      /\ \A i \in 1..Len(a) : w[i] = a[i]
      /\ \A i \in 1..Len(b) : w[Len(a) + i] = b[i]
      /\ \A i \in 1..Len(c) : w[Len(a) + Len(b) + i] = c[i]
  BY ThreeIndex
<1> HIDE DEF d, v, w
<1>3. ASSUME NEW i \in 1..Len(v) PROVE f(i) \in 1..Len(w) /\ v[i] = w[f(i)]
  <2>1. CASE i \in 1..Len(a)
    BY <1>0, <1>1, <1>2, <2>1
  <2>2. CASE i - Len(a) \in 1..k
    <3>1. Len(a) + (i - Len(a)) = i /\ f(i) = i /\ i - Len(a) \in 1..Len(b)
      BY <1>0, <2>2
    <3>2. v[i] = b[i - Len(a)] /\ w[i] = b[i - Len(a)]
      BY <1>1, <1>2, <2>2, <3>1
    <3> QED BY <1>0, <1>2, <2>2, <3>1, <3>2
  <2>3. CASE i - Len(a) - k \in 1..Len(c)
    <3> DEFINE j == i - Len(a) - k
    <3>1. Len(a) + k + j = i /\ f(i) = Len(a) + Len(b) + j
      BY <1>0, <2>3
    <3>2. v[i] = c[j] /\ w[f(i)] = c[j]
      BY <1>1, <1>2, <2>3, <3>1
    <3> QED BY <1>0, <1>2, <2>3, <3>1, <3>2
  <2> QED BY <1>0, <1>1, <2>1, <2>2, <2>3
<1>4. \A i, j \in 1..Len(v) : i < j => f(i) < f(j)
  BY <1>0, <1>1
<1> HIDE DEF f
<1>5. \A p \in Packets : Has(v, p) => Has(w, p)
  BY <1>3 DEF Has
<1>6. \A p, q \in Packets : Before(v, p, q) => Before(w, p, q)
  BY <1>3, <1>4 DEF Before
<1> QED BY <1>5, <1>6 DEF Left, v, w, d

\* a is the front of the three.
LEMMA FrontIsLeft ==
  ASSUME NEW a \in Seq(Packets), NEW b \in Seq(Packets), NEW c \in Seq(Packets)
  PROVE  Left(a, (a \o b) \o c)
<1> DEFINE e == a \o b
           w == e \o c
<1>1. /\ e \in Seq(Packets) /\ Len(e) = Len(a) + Len(b)
      /\ \A i \in 1..Len(a) : e[i] = a[i]
  BY ConcatIndex
<1> HIDE DEF e
<1>2. Len(w) = Len(e) + Len(c) /\ \A i \in 1..Len(e) : w[i] = e[i]
  BY <1>1, ConcatIndex
<1>3. Len(a) \in Nat /\ Len(b) \in Nat /\ Len(c) \in Nat
  OBVIOUS
<1> HIDE DEF w
<1>4. \A i \in 1..Len(a) : i \in 1..Len(w) /\ w[i] = a[i]
  BY <1>1, <1>2, <1>3
<1> QED BY <1>4 DEF Left, Has, Before, w, e

\* Nothing is lost.
LEMMA SameIsLeft == ASSUME NEW w PROVE Left(w, w)
  BY DEF Left

\* NoThread and the room's lock are apart from threads and sessions.
LEMMA Apart == NoThread \notin Threads /\ 0 \notin Members /\ MaxChats \in Nat
  BY DeliveryAssumption

\* The loop's next member is one of those that are left.
LEMMA NextMemberIsLeft ==
  ASSUME Types, NEW t \in Threads, worker[t].todo # {}
  PROVE  NextMember(t) \in worker[t].todo
<1> DEFINE Less == {ij \in Nat \X Nat : ij[1] < ij[2]}
           todo == worker[t].todo
<1>1. IsWellFoundedOn(Less, Nat)
  BY NatLessThanWellFounded DEF OpToRel
<1>2. todo \subseteq Nat
  BY DeliveryAssumption DEF Types
<1> HIDE DEF Less
<1>3. PICK s \in todo : \A r \in todo : ~(<<r, s>> \in Less)
  BY <1>1, <1>2, WFMin
<1>4. \A r \in todo : s <= r
  <2> TAKE r \in todo
  <2>1. s \in Nat /\ r \in Nat
    BY <1>2
  <2>2. ~(r < s)
    BY <1>3, <2>1 DEF Less
  <2> QED BY <2>1, <2>2
<1> QED BY <1>4 DEF NextMember

-----------------------------------------------------------------------------
\* IInv holds initially.
LEMMA InitIInv == Init => IInv
<1> SUFFICES ASSUME Init PROVE IInv
  OBVIOUS
<1> USE Apart DEF Init, Idle
<1>1. Types
  BY DEF Types
<1>2. LocalsInv /\ HandlerInv /\ RoomLockInv /\ EventInv /\ TodoInv
  BY DEF LocalsInv, HandlerInv, RoomLockInv, EventInv, TodoInv, Locks, RoomLock
<1>3. LogInv
  BY DEF LogInv, Has, Before
<1>4. \A s \in Members : Path(s) = <<>>
  BY DEF Path
<1>5. PathInv
  BY <1>4 DEF PathInv, Has, Before
<1> QED BY <1>1, <1>2, <1>3, <1>5 DEF IInv

-----------------------------------------------------------------------------
(* Most steps bring nothing to a path and give no thread more to do; they  *)
(* keep what is said of paths.                                             *)
LEMMA LossKeepsPaths ==
  ASSUME IInv, UNCHANGED <<room, log>>,
         \A s \in Members : Left(Path(s)', Path(s)),
         \A t \in Threads : worker'[t].todo # {} =>
           /\ worker'[t].todo \subseteq worker[t].todo
           /\ worker'[t].packet = worker[t].packet
  PROVE  PathInv' /\ TodoInv'
<1>t. \A t \in Threads : /\ worker[t].todo \subseteq Members
                         /\ worker[t].todo # {} => worker[t].packet \in Packets
  BY DEF IInv, Types, LocalsInv
<1>1. \A s \in Members : \A p \in Packets : Has(Path(s)', p) => Has(Path(s), p)
  BY DEF Left
<1>2. \A s \in Members : \A p, q \in Packets :
        Before(Path(s)', p, q) => Before(Path(s), p, q)
  BY DEF Left
<1>3. PathInv'
  <2>1. \A s \in Members : \A p \in Packets : Has(Path(s)', p) =>
          s \in room /\ (p[2] = 0 => p[1] = s) /\ (p[2] > 0 => Has(log, p))
    BY <1>1 DEF IInv, PathInv
  <2>2. \A s \in Members : \A p, q \in Packets : Before(Path(s)', p, q) =>
          /\ p # q
          /\ p[2] > 0 /\ q[2] > 0 => Before(log, p, q)
          /\ ~(p[1] = s /\ q[2] = 0)
    BY <1>2 DEF IInv, PathInv
  <2> QED BY <2>1, <2>2 DEF PathInv
<1>4. TodoInv'
  BY <1>t, <1>1 DEF IInv, TodoInv
<1> QED BY <1>3, <1>4

\* A step that changes neither sessions nor wires changes no path.
LEMMA PathsUnchanged ==
  ASSUME NEW s \in Members, wire' = wire,
         session'[s].sendEvent = session[s].sendEvent,
         session'[s].sendQueue = session[s].sendQueue
  PROVE  Path(s)' = Path(s)
  BY DEF Path

-----------------------------------------------------------------------------
\* The invariants that do not speak of paths.
Rest == Types /\ LocalsInv /\ HandlerInv /\ RoomLockInv /\ EventInv /\ LogInv

\* The types of a worker's locals.
Labels ==
  {"idle", "Enter", "Broadcast", "Send", "RegisterSend", "ProcessSend"}
Locals == [pc : Labels, by : Members \cup {0}, packet : Packets \cup {<<>>},
           todo : SUBSET Members, to : Members \cup {0}]

\* A worker takes a packet of s.
LEMMA HandlePacketKeeps ==
  ASSUME IInv, NEW t \in Threads, NEW s \in Members, NEW k \in 0..MaxChats,
         NEW label, HandlePacket(t, s, label, k),
         \/ label = "Enter" /\ k = 0 /\ s \notin room /\ said' = said
         \/ label = "Broadcast" /\ k = said + 1 /\ said' = k,
         UNCHANGED <<room, holder, session, histVars>>
  PROVE  Rest'
<1>t. Types
  BY DEF IInv
<1>2. worker[t] = Idle /\ \A u \in Threads : worker[u].by # s
  BY DEF HandlePacket
<1>3. /\ worker'[t] = [pc |-> label, by |-> s, packet |-> <<s, k>>,
                       todo |-> {}, to |-> 0]
      /\ \A u \in Threads : u # t => worker'[u] = worker[u]
  BY <1>t DEF HandlePacket, Types, Idle
<1>p. <<s, k>> \in Packets /\ <<s, k>> # <<>>
  BY DEF Packets
<1>4. worker' \in [Threads -> Locals]
  <2>1. worker'[t] \in Locals
    BY <1>3, <1>p DEF Locals, Labels
  <2>2. worker' = [worker EXCEPT ![t] = worker'[t]]
    BY <1>t, <1>3 DEF HandlePacket, Types
  <2> QED BY <1>t, <2>1, <2>2 DEF Types, Locals, Labels
<1>s. said \in Nat /\ said' \in 0..MaxChats /\ said <= said' /\ k <= said'
  BY <1>t, Apart DEF Types
<1>u. UNCHANGED <<room, holder, session, log, since, wire, lost>>
  BY DEF histVars
<1>5. Types'
  BY <1>t, <1>4, <1>s, <1>u DEF Types, Locals, Labels
<1>6. LocalsInv'
  <2>1. ASSUME NEW u \in Threads, worker[u].packet # <<>>
        PROVE  worker[u].packet[2] <= said'
    <3>1. worker[u].packet[2] \in Nat /\ worker[u].packet[2] <= said
      BY <1>t, <2>1 DEF IInv, LocalsInv, Types, Packets
    <3> QED BY <1>s, <3>1
  <2>2. label = "Broadcast" => k > 0
    BY <1>s, <1>t DEF Types
  <2> QED BY <1>3, <1>p, <1>s, <1>u, <2>1, <2>2 DEF IInv, LocalsInv
<1>7. HandlerInv'
  BY <1>2, <1>3 DEF IInv, HandlerInv
<1>8. RoomLockInv'
  BY <1>2, <1>3, <1>u DEF IInv, RoomLockInv, Idle
<1>9. EventInv'
  BY <1>2, <1>3, <1>u DEF IInv, EventInv, Idle
<1>10. LogInv'
  <2>1. \A p \in Packets : Has(log, p) => p[2] \in 1..said
    BY DEF IInv, LogInv
  <2>2. \A p \in Packets : Has(log, p) => p[2] \in 1..said'
    BY <1>s, <2>1
  <2>3. label = "Broadcast" => \A p \in Packets : Has(log, p) => p[2] < k
    BY <1>s, <2>1
  <2> QED BY <1>3, <1>u, <2>2, <2>3 DEF IInv, LogInv, Has, Before
<1> QED BY <1>5, <1>6, <1>7, <1>8, <1>9, <1>10 DEF Rest

\* What SendTo does to the workers.
LEMMA SendToEffect ==
  ASSUME Types, NEW t \in Threads, NEW todo \in SUBSET Members, SendTo(t, todo)
  PROVE  /\ worker'[t] = [pc |-> "Send", by |-> worker[t].by,
                          packet |-> worker[t].packet, todo |-> todo,
                          to |-> worker[t].to]
         /\ \A u \in Threads : u # t => worker'[u] = worker[u]
         /\ worker' \in [Threads -> Locals]
<1>t. worker \in [Threads -> Locals]
  BY DEF Types, Locals, Labels
<1> DEFINE new == [pc |-> "Send", by |-> worker[t].by,
                   packet |-> worker[t].packet, todo |-> todo,
                   to |-> worker[t].to]
<1>1. new \in Locals
  BY <1>t DEF Locals, Labels
<1>2. worker' = [worker EXCEPT ![t] = new]
  <2>1. worker[t] \in Locals
    BY <1>t
  <2>2. PICK q : q = [worker[t] EXCEPT !.pc = "Send", !.todo = todo]
    OBVIOUS
  <2>3. q = new
    BY <2>1, <2>2 DEF Locals
  <2> HIDE DEF new
  <2> QED BY <2>2, <2>3 DEF SendTo
<1> HIDE DEF new
<1>3. worker'[t] = new /\ (\A u \in Threads : u # t => worker'[u] = worker[u])
        /\ worker' \in [Threads -> Locals]
  BY <1>t, <1>1, <1>2
<1> QED BY <1>3 DEF new

\* The peer of a session goes.
LEMMA Recv0Keeps ==
  ASSUME IInv, NEW t \in Threads, NEW s \in Members, Recv0(t, s)
  PROVE  Rest' /\ PathInv' /\ TodoInv'
<1>t. Types
  BY DEF IInv
<1>1. UNCHANGED <<room, holder, worker, log, since, wire, lost, said>>
  BY DEF Recv0, histVars
<1>2. session' = [session EXCEPT ![s].connected = FALSE]
  BY DEF Recv0
<1>3. \A r \in Members :
        /\ session'[r].sendEvent = session[r].sendEvent
        /\ session'[r].sendQueue = session[r].sendQueue
        /\ session'[r].io = session[r].io
  BY <1>t, <1>2 DEF Types
<1>4. Types'
  BY <1>t, <1>1, <1>2 DEF Types
<1>5. LocalsInv' /\ HandlerInv' /\ RoomLockInv' /\ LogInv'
  BY <1>1 DEF IInv, LocalsInv, HandlerInv, RoomLockInv, LogInv
<1>6. EventInv'
  BY <1>t, <1>1, <1>3 DEF IInv, EventInv, LocalsInv
<1>7. \A r \in Members : Left(Path(r)', Path(r))
  BY <1>1, <1>3, PathsUnchanged, SameIsLeft
<1>8. PathInv' /\ TodoInv'
  BY <1>1, <1>7, LossKeepsPaths
<1> QED BY <1>4, <1>5, <1>6, <1>8 DEF Rest

\* A handler's packet of s is taken: nothing happens to the paths.
LEMMA HandlerKeepsPaths ==
  ASSUME IInv, NEW t \in Threads, NEW s \in Members, NEW k, NEW label,
         HandlePacket(t, s, label, k), UNCHANGED <<room, session, histVars>>
  PROVE  PathInv' /\ TodoInv'
<1>1. worker'[t].todo = {} /\ \A u \in Threads : u # t => worker'[u] = worker[u]
  BY DEF HandlePacket, Idle, IInv, Types
<1>2. \A r \in Members : Left(Path(r)', Path(r))
  BY PathsUnchanged, SameIsLeft DEF histVars
<1> QED BY <1>1, <1>2, LossKeepsPaths DEF histVars

\* A player enters the room.
LEMMA EnterKeeps ==
  ASSUME IInv, NEW t \in Threads, Enter(t)
  PROVE  Rest' /\ PathInv' /\ TodoInv'
<1>t. Types
  BY DEF IInv
<1>1. /\ worker[t].pc = "Enter" /\ worker[t].packet \in Packets
      /\ worker[t].packet # <<>>
      /\ worker[t].packet[1] = worker[t].by /\ worker[t].packet[2] = 0
      /\ worker[t].by \in Members /\ worker[t].by \notin room
  BY <1>t DEF Enter, IInv, LocalsInv, Types, Packets
<1>m. PICK m \in Members : m = worker[t].by
  BY <1>1
<1>2. UNCHANGED <<holder, session, log, wire, lost, said>>
  BY DEF Enter
<1>3. /\ room' = room \cup {m} /\ holder[RoomLock] = NoThread
      /\ since' = [since EXCEPT ![m] = Len(log)]
      /\ SendTo(t, {m})
  BY <1>m DEF Enter
<1>4. /\ worker'[t] = [pc |-> "Send", by |-> worker[t].by,
                       packet |-> worker[t].packet, todo |-> {m},
                       to |-> worker[t].to]
      /\ \A u \in Threads : u # t => worker'[u] = worker[u]
      /\ worker' \in [Threads -> Locals]
  BY <1>t, <1>1, <1>3, SendToEffect
<1>5. Types'
  BY <1>t, <1>1, <1>2, <1>3, <1>4 DEF Types, Locals, Labels
<1>6. HandlerInv'
  BY <1>4 DEF IInv, HandlerInv
<1>h. \A u \in Threads : worker[u].by = m => u = t
  BY <1>m, Apart DEF IInv, HandlerInv
<1>7. LocalsInv'
  BY <1>1, <1>2, <1>3, <1>4, <1>h, <1>m DEF IInv, LocalsInv
<1>8. RoomLockInv'
  BY <1>1, <1>2, <1>3, <1>4, Apart DEF IInv, RoomLockInv
<1>9. EventInv'
  <2>1. \A s \in Members : since'[s] <= Len(log')
    BY <1>t, <1>2, <1>3 DEF IInv, EventInv, Types
  <2> QED BY <1>2, <1>4, <2>1 DEF IInv, EventInv
<1>10. LogInv'
  BY <1>2, <1>4 DEF IInv, LogInv
<1>11. \A r \in Members : Path(r)' = Path(r)
  BY <1>2, PathsUnchanged
<1>12. PathInv'
  BY <1>2, <1>3, <1>11 DEF IInv, PathInv
<1>13. TodoInv'
  <2>1. ASSUME NEW u \in Threads, u # t
        PROVE  \A s \in worker'[u].todo :
                 /\ ~Has(Path(s)', worker'[u].packet)
                 /\ worker'[u].packet[2] = 0 =>
                      \A p \in Packets : Has(Path(s)', p) => p[1] # s
    <3>1. worker[u].todo \subseteq Members
      BY <1>t DEF Types
    <3> QED BY <1>4, <1>11, <2>1, <3>1 DEF IInv, TodoInv
  <2>2. \A p \in Packets : ~Has(Path(m)', p)
    BY <1>1, <1>m, <1>11 DEF IInv, PathInv
  <2>3. worker'[t].todo = {m} /\ worker'[t].packet \in Packets
    BY <1>1, <1>4
  <2> QED BY <2>1, <2>2, <2>3 DEF TodoInv
<1> QED BY <1>5, <1>6, <1>7, <1>8, <1>9, <1>10, <1>12, <1>13 DEF Rest

\* A broadcast begins.
LEMMA BroadcastKeeps ==
  ASSUME IInv, NEW t \in Threads, Broadcast(t)
  PROVE  Rest' /\ PathInv' /\ TodoInv'
<1>t. Types
  BY DEF IInv
<1>1. /\ worker[t].pc = "Broadcast" /\ worker[t].packet \in Packets
      /\ worker[t].packet # <<>>
      /\ worker[t].packet[1] = worker[t].by /\ worker[t].packet[2] > 0
      /\ worker[t].packet[2] <= said /\ worker[t].by \in Members
  BY <1>t DEF Broadcast, IInv, LocalsInv, Types, Packets
<1>x. PICK x \in Packets : x = worker[t].packet
  BY <1>1
<1>2. UNCHANGED <<room, session, since, wire, lost, said>>
  BY DEF Broadcast
<1>3. /\ holder[RoomLock] = NoThread
      /\ holder' = [holder EXCEPT ![RoomLock] = t]
      /\ log' = Append(log, x)
      /\ SendTo(t, room)
  BY <1>x DEF Broadcast
<1>4. /\ worker'[t] = [pc |-> "Send", by |-> worker[t].by,
                       packet |-> x, todo |-> room, to |-> worker[t].to]
      /\ \A u \in Threads : u # t => worker'[u] = worker[u]
      /\ worker' \in [Threads -> Locals]
  BY <1>t, <1>x, <1>3, SendToEffect DEF Types
<1>l. /\ log' \in Seq(Packets) /\ Len(log') = Len(log) + 1
      /\ log'[Len(log')] = x /\ log' # <<>>
  <2>1. log \in Seq(Packets)
    BY <1>t DEF Types
  <2> QED BY <1>3, <2>1, AppendIndex
<1>n. /\ \A p \in Packets : Has(log', p) <=> Has(log, p) \/ p = x
      /\ \A p, q \in Packets :
           Before(log', p, q) <=> Before(log, p, q) \/ (Has(log, p) /\ q = x)
  BY <1>t, <1>3, HasAppend, BeforeAppend DEF Types
<1>h. \A u \in Threads : worker[u].by = worker[t].by => u = t
  BY <1>1, Apart DEF IInv, HandlerInv
<1>k. /\ holder'[RoomLock] = t
      /\ \A l \in Locks : l # RoomLock => holder'[l] = holder[l]
      /\ holder' \in [Locks -> Threads \cup {NoThread}]
  BY <1>t, <1>3 DEF Types, Locks
<1>5. Types'
  BY <1>t, <1>2, <1>4, <1>l, <1>k DEF Types, Locals, Labels
<1>6. HandlerInv'
  BY <1>4 DEF IInv, HandlerInv
<1>7. LocalsInv'
  BY <1>1, <1>x, <1>2, <1>4 DEF IInv, LocalsInv
<1>8. RoomLockInv'
  <2>1. ASSUME NEW u \in Threads, u # t
        PROVE  ~(/\ worker[u].packet # <<>> /\ worker[u].packet[2] > 0
                 /\ worker[u].todo # {})
    BY <1>3, <2>1, Apart DEF IInv, RoomLockInv
  <2> QED BY <1>1, <1>x, <1>4, <1>l, <1>k, <2>1 DEF RoomLockInv
<1>9. EventInv'
  <2>1. \A s \in Members : since[s] <= Len(log')
    BY <1>t, <1>l DEF IInv, EventInv, Types
  <2>2. \A u \in Threads : worker'[u].pc = "RegisterSend" =>
          /\ worker[u].pc = "RegisterSend" /\ worker'[u].to = worker[u].to
          /\ worker[u].to \in Locks /\ worker[u].to # RoomLock
    BY <1>4, Apart DEF IInv, LocalsInv, Locks, RoomLock
  <2> QED BY <1>2, <1>k, <2>1, <2>2 DEF IInv, EventInv
<1>10. LogInv'
  <2>1. x[2] \in 1..said /\ x[1] = worker[t].by
    BY <1>t, <1>1, <1>x DEF Types, Packets
  <2>2. \A p \in Packets : Has(log, p) /\ p[1] = x[1] => p[2] < x[2]
    BY <1>1, <1>x DEF IInv, LogInv
  <2>3. \A p \in Packets : Has(log, p) => p # x
    <3>1. x[2] \in Nat
      BY DEF Packets
    <3> QED BY <2>2, <3>1
  <2>4. \A u \in Threads : worker'[u].pc = "Broadcast" =>
          u # t /\ worker[u].pc = "Broadcast" /\ worker'[u] = worker[u]
    BY <1>4
  <2>5. \A p \in Packets : Has(log', p) => p[2] \in 1..said
    BY <1>n, <2>1 DEF IInv, LogInv
  <2>6. \A p, q \in Packets : Before(log', p, q) =>
          p # q /\ (p[1] = q[1] => p[2] < q[2])
    BY <1>n, <2>2, <2>3 DEF IInv, LogInv
  <2>7. \A u \in Threads : worker'[u].pc = "Broadcast" =>
          \A p \in Packets : Has(log', p) /\ p[1] = worker'[u].by =>
            p[2] < worker'[u].packet[2]
    BY <1>n, <1>h, <2>1, <2>4 DEF IInv, LogInv
  <2> QED BY <1>2, <2>5, <2>6, <2>7 DEF LogInv
<1>11. \A r \in Members : Path(r)' = Path(r)
  BY <1>2, PathsUnchanged
<1>12. PathInv'
  BY <1>2, <1>11, <1>n DEF IInv, PathInv
<1>13. TodoInv'
  <2>1. ASSUME NEW u \in Threads, u # t
        PROVE  \A s \in worker'[u].todo :
                 /\ ~Has(Path(s)', worker'[u].packet)
                 /\ worker'[u].packet[2] = 0 =>
                      \A p \in Packets : Has(Path(s)', p) => p[1] # s
    <3>1. worker[u].todo \subseteq Members
      BY <1>t DEF Types
    <3> QED BY <1>4, <1>11, <2>1, <3>1 DEF IInv, TodoInv
  <2>2. ~Has(log, x)
    <3>1. x[2] \in Nat
      BY DEF Packets
    <3> QED BY <1>1, <1>x, <3>1 DEF IInv, LogInv
  <2>3. x[2] > 0
    BY <1>1, <1>x
  <2>4. \A s \in Members : ~Has(Path(s)', x)
    BY <1>11, <2>2, <2>3 DEF IInv, PathInv
  <2>5. worker'[t].todo \subseteq Members /\ worker'[t].packet = x /\ x[2] # 0
    BY <1>t, <1>4, <2>3 DEF Types
  <2> QED BY <2>1, <2>4, <2>5 DEF TodoInv
<1> QED BY <1>5, <1>6, <1>7, <1>8, <1>9, <1>10, <1>12, <1>13 DEF Rest

-----------------------------------------------------------------------------
\* The types of a session.
SendPath == [connected : BOOLEAN, sendRegistered : BOOLEAN,
             sendQueue : Seq(Packets), sendEvent : Seq(Packets), io : BOOLEAN]

\* A step gives s the new state p and leaves the other sessions alone.
LEMMA SessionEffect ==
  ASSUME Types, NEW s \in Members, NEW p \in SendPath,
         session' = [session EXCEPT ![s] = p]
  PROVE  /\ session' \in [Members -> SendPath]
         /\ session'[s] = p
         /\ \A r \in Members : r # s => session'[r] = session[r]
  BY DEF Types, SendPath

\* Thread t has the new locals w.
LEMMA WorkerEffect ==
  ASSUME Types, NEW t \in Threads, NEW w \in Locals,
         worker' = [worker EXCEPT ![t] = w]
  PROVE  /\ worker' \in [Threads -> Locals]
         /\ worker'[t] = w
         /\ \A u \in Threads : u # t => worker'[u] = worker[u]
  BY DEF Types, Locals, Labels

\* The queue, wire and buffers of a session are sequences of packets.
LEMMA PathTypes ==
  ASSUME Types, NEW s \in Members
  PROVE  /\ session[s] \in SendPath
         /\ session[s].sendQueue \in Seq(Packets)
         /\ session[s].sendEvent \in Seq(Packets)
         /\ wire[s] \in Seq(Packets) /\ lost[s] \in Seq(Packets)
  BY DEF Types, SendPath

\* Thread t has sent the packet x to s.
SentTo(t, s, x) ==
  /\ worker[t].pc = "Send" /\ s \in room /\ x = worker[t].packet
  /\ holder[s] = NoThread
  /\ UNCHANGED <<room, log, since, wire, lost, said>>
  /\ session'[s].sendQueue = Append(session[s].sendQueue, x)
  /\ session'[s].sendEvent = session[s].sendEvent
  /\ session'[s].io = session[s].io
  /\ \A r \in Members : r # s => session'[r] = session[r]
  /\ session' \in [Members -> SendPath]
  /\ worker' \in [Threads -> Locals]
  /\ worker'[t].pc \in {"Send", "RegisterSend"}
  /\ worker'[t].by = worker[t].by /\ worker'[t].packet = x
  /\ worker'[t].todo = worker[t].todo \ {s}
  /\ worker'[t].pc = "RegisterSend" =>
       worker'[t].to = s /\ holder'[s] = t
  /\ \A u \in Threads : u # t => worker'[u] = worker[u]
  /\ holder' \in [Locks -> Threads \cup {NoThread}]
  /\ \A l \in Locks : l # s => holder'[l] = holder[l]
  /\ Path(s) \in Seq(Packets) /\ Path(s)' = Append(Path(s), x)
  /\ \A r \in Members : r # s => Path(r)' = Path(r)

\* What Send does to the session, the thread and the paths.
LEMMA SendEffect ==
  ASSUME IInv, NEW t \in Threads, Send(t)
  PROVE  \E s \in worker[t].todo, x \in Packets : SentTo(t, s, x)
<1>t. Types
  BY DEF IInv
<1>1. PICK s \in worker[t].todo : s = NextMember(t)
  BY <1>t, NextMemberIsLeft DEF Send
<1>2. /\ s \in Members /\ s \in room
      /\ worker[t].pc = "Send" /\ holder[s] = NoThread
      /\ UNCHANGED <<room, log, since, wire, lost, said>>
  BY <1>t, <1>1 DEF Send, Types, histVars, IInv, LocalsInv
<1>3. PICK x \in Packets : x = worker[t].packet
  BY <1>t, <1>1 DEF IInv, LocalsInv, Types
<1>4. /\ session[s].sendQueue \in Seq(Packets)
      /\ session[s].sendEvent \in Seq(Packets)
      /\ wire[s] \in Seq(Packets)
  BY <1>t, <1>2 DEF Types
<1> DEFINE queue == Append(session[s].sendQueue, x)
<1>5. queue \in Seq(Packets) /\ queue # <<>>
  BY <1>4
<1>6. /\ session'[s].sendQueue = queue
      /\ session'[s].sendEvent = session[s].sendEvent
      /\ session'[s].io = session[s].io
      /\ \A r \in Members : r # s => session'[r] = session[r]
      /\ session' \in [Members -> SendPath]
  <2>1. PICK p : p = [session[s] EXCEPT !.sendQueue = queue,
                                        !.sendRegistered = TRUE]
    OBVIOUS
  <2>2. session[s] \in SendPath
    BY <1>t, <1>2 DEF Types, SendPath
  <2> HIDE DEF queue
  <2>3. /\ p \in SendPath /\ p.sendQueue = queue
        /\ p.sendEvent = session[s].sendEvent /\ p.io = session[s].io
    BY <1>5, <2>1, <2>2 DEF SendPath
  <2>4. session' = [session EXCEPT ![s].sendQueue = queue,
                                   ![s].sendRegistered = TRUE]
    BY <1>1, <1>3 DEF Send, queue
  <2>5. session' = [session EXCEPT ![s] = p]
    BY <1>t, <1>2, <2>1, <2>4 DEF Types
  <2> QED BY <1>t, <1>2, <2>3, <2>5, SessionEffect
<1> HIDE DEF queue
<1>7. /\ worker' \in [Threads -> Locals]
      /\ worker'[t].pc \in {"Send", "RegisterSend"}
      /\ worker'[t].by = worker[t].by /\ worker'[t].packet = x
      /\ worker'[t].todo = worker[t].todo \ {s}
      /\ worker'[t].pc = "RegisterSend" =>
           worker'[t].to = s /\ holder'[s] = t
      /\ \A u \in Threads : u # t => worker'[u] = worker[u]
      /\ holder' \in [Locks -> Threads \cup {NoThread}]
      /\ \A l \in Locks : l # s => holder'[l] = holder[l]
  <2>1. CASE session[s].sendRegistered
    <3>1. SendTo(t, worker[t].todo \ {s}) /\ UNCHANGED holder
      BY <1>1, <2>1 DEF Send
    <3>2. worker[t].todo \ {s} \in SUBSET Members
      BY <1>t DEF Types
    <3>3. /\ worker'[t] = [pc |-> "Send", by |-> worker[t].by,
                           packet |-> worker[t].packet,
                           todo |-> worker[t].todo \ {s}, to |-> worker[t].to]
          /\ \A u \in Threads : u # t => worker'[u] = worker[u]
          /\ worker' \in [Threads -> Locals]
      BY <1>t, <3>1, <3>2, SendToEffect
    <3>4. holder \in [Locks -> Threads \cup {NoThread}]
      BY <1>t DEF Types
    <3> QED BY <1>3, <3>1, <3>3, <3>4
  <2>2. CASE ~session[s].sendRegistered
    <3>1. /\ holder' = [holder EXCEPT ![s] = t]
          /\ worker' = [worker EXCEPT ![t].todo = @ \ {s},
                                      ![t].pc = "RegisterSend", ![t].to = s]
      BY <1>1, <2>2 DEF Send
    <3>2. PICK w : w = [worker[t] EXCEPT !.todo = @ \ {s},
                                         !.pc = "RegisterSend", !.to = s]
      OBVIOUS
    <3>3. worker[t] \in Locals
      BY <1>t DEF Types, Locals, Labels
    <3>4. /\ w \in Locals /\ w.pc = "RegisterSend" /\ w.to = s
          /\ w.by = worker[t].by /\ w.packet = worker[t].packet
          /\ w.todo = worker[t].todo \ {s}
      BY <1>2, <3>2, <3>3 DEF Locals, Labels
    <3>5. worker' = [worker EXCEPT ![t] = w]
      BY <1>t, <3>1, <3>2 DEF Types
    <3>6. /\ worker'[t] = w /\ worker' \in [Threads -> Locals]
          /\ \A u \in Threads : u # t => worker'[u] = worker[u]
      BY <1>t, <3>4, <3>5, WorkerEffect
    <3>7. /\ holder'[s] = t /\ \A l \in Locks : l # s => holder'[l] = holder[l]
          /\ holder' \in [Locks -> Threads \cup {NoThread}]
      BY <1>t, <1>2, <3>1 DEF Types, Locks
    <3> QED BY <1>3, <3>4, <3>6, <3>7
  <2> QED BY <2>1, <2>2
<1>8. \A r \in Members : r # s => Path(r)' = Path(r)
  BY <1>2, <1>6, PathsUnchanged
<1>9. Path(s) \in Seq(Packets) /\ Path(s)' = Append(Path(s), x)
  <2> DEFINE e == wire[s] \o session[s].sendEvent
  <2>1. e \in Seq(Packets)
    BY <1>4
  <2>2. Path(s)' = e \o queue /\ Path(s) = e \o session[s].sendQueue
    BY <1>2, <1>6 DEF Path
  <2> HIDE DEF e
  <2>3. e \o queue = Append(e \o session[s].sendQueue, x)
    BY <1>4, <2>1, ConcatAppend DEF queue
  <2>4. e \o session[s].sendQueue \in Seq(Packets)
    BY <1>4, <2>1
  <2> QED BY <2>2, <2>3, <2>4
<1>10. SentTo(t, s, x)
  BY <1>2, <1>3, <1>6, <1>7, <1>8, <1>9 DEF SentTo, queue
<1> QED BY <1>1, <1>10

\* A packet is sent to the next member.
LEMMA SendKeeps ==
  ASSUME IInv, NEW t \in Threads, Send(t)
  PROVE  Rest' /\ PathInv' /\ TodoInv'
<1>t. Types
  BY DEF IInv
<1>1. PICK s \in worker[t].todo, x \in Packets : SentTo(t, s, x)
  BY SendEffect
<1>2. /\ s \in Members /\ s \in room
      /\ worker[t].pc = "Send" /\ holder[s] = NoThread
      /\ UNCHANGED <<room, log, since, wire, lost, said>>
  BY <1>t, <1>1 DEF SentTo, Types
<1>3. x = worker[t].packet
  BY <1>1 DEF SentTo
<1> DEFINE queue == Append(session[s].sendQueue, x)
<1>5. queue # <<>>
  BY <1>t, <1>2, PathTypes, AppendIndex
<1>6. /\ session'[s].sendQueue = queue
      /\ session'[s].sendEvent = session[s].sendEvent
      /\ session'[s].io = session[s].io
      /\ \A r \in Members : r # s => session'[r] = session[r]
      /\ session' \in [Members -> SendPath]
  BY <1>1 DEF SentTo
<1> HIDE DEF queue
<1>7. /\ worker' \in [Threads -> Locals]
      /\ worker'[t].pc \in {"Send", "RegisterSend"}
      /\ worker'[t].by = worker[t].by /\ worker'[t].packet = x
      /\ worker'[t].todo = worker[t].todo \ {s}
      /\ worker'[t].pc = "RegisterSend" =>
           worker'[t].to = s /\ holder'[s] = t
      /\ \A u \in Threads : u # t => worker'[u] = worker[u]
      /\ holder' \in [Locks -> Threads \cup {NoThread}]
      /\ \A l \in Locks : l # s => holder'[l] = holder[l]
  BY <1>1 DEF SentTo
<1>8. RoomLock \in Locks /\ RoomLock # s
  BY <1>2, Apart DEF Locks, RoomLock
<1>9. Types'
  BY <1>t, <1>2, <1>6, <1>7 DEF Types, Locals, Labels, SendPath
<1>10. LocalsInv'
  <2>1. worker[t].todo \subseteq room /\ x # <<>>
    BY <1>1, <1>3 DEF IInv, LocalsInv
  <2>2. x[1] = worker[t].by /\ x[2] <= said
    BY <1>1, <1>3 DEF IInv, LocalsInv
  <2>3. x[2] = 0 => worker'[t].todo = {}
    BY <1>1, <1>3, <1>7 DEF IInv, LocalsInv
  <2> QED BY <1>2, <1>7, <2>1, <2>2, <2>3 DEF IInv, LocalsInv
<1>11. HandlerInv'
  BY <1>7 DEF IInv, HandlerInv
<1>12. RoomLockInv'
  BY <1>1, <1>2, <1>3, <1>7, <1>8 DEF IInv, RoomLockInv
<1>13. EventInv'
  <2>1. ASSUME NEW u \in Threads, worker'[u].pc = "RegisterSend"
        PROVE  /\ holder'[worker'[u].to] = u
               /\ session'[worker'[u].to].sendQueue # <<>>
    <3>1. CASE u = t
      BY <1>5, <1>6, <1>7, <2>1, <3>1
    <3>2. CASE u # t
      <4>1. /\ worker[u].pc = "RegisterSend" /\ worker'[u] = worker[u]
            /\ worker[u].to \in Members /\ holder[worker[u].to] = u
            /\ session[worker[u].to].sendQueue # <<>>
        BY <1>7, <2>1, <3>2 DEF IInv, EventInv, LocalsInv
      <4>2. worker[u].to # s
        BY <1>2, <4>1, Apart
      <4> QED BY <1>6, <1>7, <4>1, <4>2 DEF Locks
    <3> QED BY <3>1, <3>2
  <2>2. \A r \in Members : /\ session'[r].io <=> session'[r].sendEvent # <<>>
                           /\ since'[r] <= Len(log')
    BY <1>2, <1>6 DEF IInv, EventInv
  <2> QED BY <2>1, <2>2 DEF EventInv
<1>14. LogInv'
  <2>1. \A u \in Threads : worker'[u].pc = "Broadcast" =>
          worker[u].pc = "Broadcast" /\ worker'[u] = worker[u]
    BY <1>7
  <2> QED BY <1>2, <2>1 DEF IInv, LogInv
<1>15. \A r \in Members : r # s => Path(r)' = Path(r)
  BY <1>1 DEF SentTo
<1>16. Path(s) \in Seq(Packets) /\ Path(s)' = Append(Path(s), x)
  BY <1>1 DEF SentTo
<1>n. /\ \A p \in Packets : Has(Path(s)', p) <=> Has(Path(s), p) \/ p = x
      /\ \A p, q \in Packets : Before(Path(s)', p, q)
           <=> Before(Path(s), p, q) \/ (Has(Path(s), p) /\ q = x)
  BY <1>16, HasAppend, BeforeAppend
<1>17. /\ ~Has(Path(s), x)
       /\ x[2] = 0 => /\ \A p \in Packets : Has(Path(s), p) => p[1] # s
                      /\ worker[t].todo = {s} /\ x[1] = s
       /\ x[2] > 0 => Has(log, x) /\ \A p \in Packets :
                        Has(log, p) => p = x \/ Before(log, p, x)
  <2>1. ~Has(Path(s), x)
    BY <1>1, <1>3 DEF IInv, TodoInv
  <2>2. x[2] = 0 => /\ \A p \in Packets : Has(Path(s), p) => p[1] # s
                    /\ worker[t].todo = {s} /\ x[1] = s
    BY <1>1, <1>3 DEF IInv, TodoInv, LocalsInv
  <2>3. ASSUME x[2] > 0
        PROVE  Has(log, x) /\ \A p \in Packets :
                 Has(log, p) => p = x \/ Before(log, p, x)
    <3>1. log # <<>> /\ log[Len(log)] = x
      BY <1>1, <1>3, <2>3 DEF IInv, RoomLockInv, LocalsInv
    <3>2. log \in Seq(Packets)
      BY <1>t DEF Types
    <3> QED BY <3>1, <3>2 DEF Has, Before
  <2> QED BY <2>1, <2>2, <2>3
<1>x. x[2] = 0 \/ x[2] > 0
  BY DEF Packets
<1>18. PathInv'
  <2>1. ASSUME NEW p \in Packets, Has(Path(s)', p)
        PROVE  s \in room /\ (p[2] = 0 => p[1] = s) /\ (p[2] > 0 => Has(log, p))
    BY <1>2, <1>n, <1>17, <2>1 DEF IInv, PathInv
  <2>2. ASSUME NEW p \in Packets, NEW q \in Packets, Before(Path(s)', p, q)
        PROVE  /\ p # q
               /\ p[2] > 0 /\ q[2] > 0 => Before(log, p, q)
               /\ ~(p[1] = s /\ q[2] = 0)
    <3>1. CASE Before(Path(s), p, q)
      BY <1>2, <3>1 DEF IInv, PathInv
    <3>2. CASE Has(Path(s), p) /\ q = x
      <4>1. p # x /\ (p[2] > 0 => Has(log, p))
        BY <1>2, <1>17, <3>2 DEF IInv, PathInv
      <4> QED BY <1>17, <3>2, <4>1
    <3> QED BY <1>n, <2>2, <3>1, <3>2
  <2> QED BY <1>2, <1>15, <2>1, <2>2 DEF IInv, PathInv
<1>19. TodoInv'
  <2>1. ASSUME NEW u \in Threads, NEW r \in worker'[u].todo
        PROVE  /\ ~Has(Path(r)', worker'[u].packet)
               /\ worker'[u].packet[2] = 0 =>
                    \A p \in Packets : Has(Path(r)', p) => p[1] # r
    <3>1. /\ r \in worker[u].todo /\ r \in Members
          /\ worker'[u].packet = worker[u].packet
          /\ worker[u].packet \in Packets
      BY <1>t, <1>3, <1>7, <2>1 DEF Types, IInv, LocalsInv
    <3>2. CASE r # s
      BY <1>15, <3>1, <3>2 DEF IInv, TodoInv
    <3>3. CASE r = s
      <4>1. u # t
        BY <1>7, <2>1, <3>3
      <4>2. worker[u].packet[1] = worker[u].by /\ x[1] = worker[t].by
              /\ worker[u].by \in Members
        BY <1>t, <1>1, <1>3, <3>1 DEF IInv, LocalsInv, Types, Packets
      <4>3. worker[u].packet[1] # x[1]
        BY <4>1, <4>2, Apart DEF IInv, HandlerInv
      <4>4. worker[u].packet[2] = 0 => worker[u].by = s
        BY <3>1, <3>3 DEF IInv, LocalsInv
      <4> QED BY <1>n, <3>1, <3>3, <4>2, <4>3, <4>4 DEF IInv, TodoInv
    <3> QED BY <3>2, <3>3
  <2> QED BY <2>1 DEF TodoInv
<1> QED BY <1>9, <1>10, <1>11, <1>12, <1>13, <1>14, <1>18, <1>19 DEF Rest

-----------------------------------------------------------------------------
(* The steps that follow bring nothing to a path.  Thread t has nothing    *)
(* more to send after them, or goes on where it was.                       *)
Returns(t) ==
  \/ /\ worker'[t].packet = <<>> /\ worker'[t].todo = {}
     /\ worker'[t].by \in {worker[t].by, 0}
     /\ worker'[t].pc \in {"idle", "RegisterSend", "ProcessSend"}
     /\ worker'[t].pc # "idle" => worker'[t].to \in Members
     /\ holder'[RoomLock] # t
  \/ /\ worker[t].pc = "RegisterSend" /\ worker'[t].pc = "Send"
     /\ worker'[t].packet = worker[t].packet
     /\ worker'[t].todo = worker[t].todo /\ worker'[t].by = worker[t].by
     /\ holder'[RoomLock] = holder[RoomLock]

LEMMA ReturnsKeeps ==
  ASSUME IInv, NEW t \in Threads, Returns(t),
         \A u \in Threads : u # t =>
           /\ worker'[u] = worker[u]
           /\ holder'[RoomLock] = u <=> holder[RoomLock] = u,
         \A s \in Members : Left(Path(s)', Path(s)),
         UNCHANGED <<room, log, since, said>>
  PROVE  /\ LocalsInv' /\ HandlerInv' /\ RoomLockInv' /\ LogInv'
         /\ PathInv' /\ TodoInv'
<1>1. LocalsInv'
  BY DEF IInv, LocalsInv, Returns
<1>2. HandlerInv'
  BY DEF IInv, HandlerInv, Returns
<1>3. RoomLockInv'
  BY DEF IInv, RoomLockInv, Returns
<1>4. LogInv'
  <2>1. \A u \in Threads : worker'[u].pc = "Broadcast" =>
          worker[u].pc = "Broadcast" /\ worker'[u] = worker[u]
    BY DEF Returns
  <2> QED BY <2>1 DEF IInv, LogInv
<1>5. \A u \in Threads : worker'[u].todo # {} =>
        /\ worker'[u].todo \subseteq worker[u].todo
        /\ worker'[u].packet = worker[u].packet
  BY DEF Returns
<1>6. PathInv' /\ TodoInv'
  BY <1>5, LossKeepsPaths
<1> QED BY <1>1, <1>2, <1>3, <1>4, <1>6

\* A thread outside the send paths, or at the end of one, has no packet.
LEMMA NoPacket ==
  ASSUME IInv, NEW t \in Threads, worker[t].pc \in {"idle", "ProcessSend"}
  PROVE  /\ worker[t].packet = <<>> /\ worker[t].todo = {}
         /\ holder[RoomLock] # t
  BY DEF IInv, LocalsInv, RoomLockInv

\* The handler returns.
LEMMA EndSendKeeps ==
  ASSUME IInv, NEW t \in Threads, EndSend(t)
  PROVE  Rest' /\ PathInv' /\ TodoInv'
<1>t. Types
  BY DEF IInv
<1>1. UNCHANGED <<room, session, log, since, wire, lost, said>>
  BY DEF EndSend, histVars
<1>2. /\ worker'[t] = Idle /\ \A u \in Threads : u # t => worker'[u] = worker[u]
      /\ worker' \in [Threads -> Locals]
  <2>1. Idle \in Locals
    BY DEF Idle, Locals, Labels
  <2>2. worker' = [worker EXCEPT ![t] = Idle]
    BY DEF EndSend
  <2> QED BY <1>t, <2>1, <2>2, WorkerEffect
<1>3. /\ \A l \in Locks : holder'[l] = IF holder[l] = t THEN NoThread
                                                     ELSE holder[l]
      /\ holder' \in [Locks -> Threads \cup {NoThread}]
      /\ RoomLock \in Locks
  BY <1>t DEF EndSend, Types, Locks
<1>4. Types'
  BY <1>t, <1>1, <1>2, <1>3 DEF Types, Locals, Labels
<1>5. /\ holder'[RoomLock] # t
      /\ \A u \in Threads : u # t =>
           (holder'[RoomLock] = u <=> holder[RoomLock] = u)
  BY <1>3, Apart
<1>6. Returns(t)
  BY <1>2, <1>5 DEF Returns, Idle
<1>7. \A r \in Members : Left(Path(r)', Path(r))
  BY <1>1, PathsUnchanged, SameIsLeft
<1>8. /\ LocalsInv' /\ HandlerInv' /\ RoomLockInv' /\ LogInv'
      /\ PathInv' /\ TodoInv'
  BY <1>1, <1>2, <1>5, <1>6, <1>7, ReturnsKeeps
<1>9. EventInv'
  <2>1. ASSUME NEW u \in Threads, worker'[u].pc = "RegisterSend"
        PROVE  /\ holder'[worker'[u].to] = u
               /\ session'[worker'[u].to].sendQueue # <<>>
    <3>1. u # t /\ worker'[u] = worker[u] /\ worker[u].pc = "RegisterSend"
      BY <1>2, <2>1 DEF Idle
    <3>2. worker[u].to \in Locks /\ holder[worker[u].to] = u
            /\ session[worker[u].to].sendQueue # <<>>
      BY <3>1 DEF IInv, EventInv, LocalsInv, Locks
    <3> QED BY <1>1, <1>3, <3>1, <3>2
  <2> QED BY <1>1, <2>1 DEF IInv, EventInv
<1> QED BY <1>4, <1>8, <1>9 DEF Rest

-----------------------------------------------------------------------------
\* What ReturnFrom does.
LEMMA ReturnFromEffect ==
  ASSUME IInv, NEW t \in Threads, worker[t].pc = "RegisterSend",
         ReturnFrom(t, worker[t].to)
  PROVE  /\ Returns(t) /\ worker[t].to \in Members
         /\ worker'[t].pc = "Send"
         /\ \A u \in Threads : u # t =>
              /\ worker'[u] = worker[u]
              /\ holder'[RoomLock] = u <=> holder[RoomLock] = u
         /\ worker' \in [Threads -> Locals]
         /\ holder' \in [Locks -> Threads \cup {NoThread}]
         /\ \A l \in Locks : l # worker[t].to => holder'[l] = holder[l]
<1>t. Types
  BY DEF IInv
<1>1. PICK s \in Members : s = worker[t].to
  BY DEF IInv, LocalsInv
<1>2. /\ holder' = [holder EXCEPT ![s] = NoThread]
      /\ SendTo(t, worker[t].todo) /\ worker[t].todo \in SUBSET Members
  BY <1>t, <1>1 DEF ReturnFrom, Types
<1>3. /\ worker'[t] = [pc |-> "Send", by |-> worker[t].by,
                       packet |-> worker[t].packet, todo |-> worker[t].todo,
                       to |-> worker[t].to]
      /\ \A u \in Threads : u # t => worker'[u] = worker[u]
      /\ worker' \in [Threads -> Locals]
  BY <1>t, <1>2, SendToEffect
<1>4. /\ holder' \in [Locks -> Threads \cup {NoThread}]
      /\ \A l \in Locks : l # s => holder'[l] = holder[l]
      /\ holder'[RoomLock] = holder[RoomLock]
  BY <1>t, <1>1, <1>2, Apart DEF Types, Locks, RoomLock
<1> QED BY <1>1, <1>3, <1>4 DEF Returns

\* Who is in RegisterSend after t has left it had its lock before.
LEMMA OthersRegister ==
  ASSUME IInv, NEW t \in Threads, NEW u \in Threads, NEW s \in Members,
         u # t, worker'[u] = worker[u], worker'[u].pc = "RegisterSend",
         holder[s] \in {t, NoThread},
         \A l \in Locks : l # s => holder'[l] = holder[l],
         \A r \in Members : r # s => session'[r] = session[r]
  PROVE  /\ holder'[worker'[u].to] = u
         /\ session'[worker'[u].to].sendQueue # <<>>
<1>1. /\ worker[u].to \in Members /\ holder[worker[u].to] = u
      /\ session[worker[u].to].sendQueue # <<>>
  BY DEF IInv, EventInv, LocalsInv
<1>2. worker[u].to # s
  BY <1>1, Apart
<1> QED BY <1>1, <1>2 DEF Locks

\* WSASend takes the queue, or the session is not connected.
LEMMA RegisterSendKeeps ==
  ASSUME IInv, NEW t \in Threads, RegisterSend(t)
  PROVE  Rest' /\ PathInv' /\ TodoInv'
<1>t. Types
  BY DEF IInv
<1>1. /\ worker[t].pc = "RegisterSend" /\ ReturnFrom(t, worker[t].to)
      /\ UNCHANGED <<room, log, since, wire, lost, said>>
  BY DEF RegisterSend, histVars
<1>2. PICK s \in Members : s = worker[t].to /\ holder[s] = t
                           /\ session[s].sendQueue # <<>>
  BY <1>1, ReturnFromEffect DEF IInv, EventInv
<1>3. /\ Returns(t) /\ worker'[t].pc = "Send"
      /\ \A u \in Threads : u # t =>
           /\ worker'[u] = worker[u]
           /\ holder'[RoomLock] = u <=> holder[RoomLock] = u
      /\ worker' \in [Threads -> Locals]
      /\ holder' \in [Locks -> Threads \cup {NoThread}]
      /\ \A l \in Locks : l # s => holder'[l] = holder[l]
  BY <1>1, <1>2, ReturnFromEffect
<1>4. /\ session' \in [Members -> SendPath]
      /\ \A r \in Members : r # s => session'[r] = session[r]
      /\ session'[s].io <=> session'[s].sendEvent # <<>>
      /\ Left(Path(s)', Path(s))
  <2>1. CASE session[s].connected
    <3>1. session' = [session EXCEPT ![s].sendEvent = session[s].sendQueue,
                                     ![s].sendQueue = <<>>, ![s].io = TRUE]
      BY <1>2, <2>1 DEF RegisterSend
    <3>2. PICK p : p = [session[s] EXCEPT !.sendEvent = session[s].sendQueue,
                                          !.sendQueue = <<>>, !.io = TRUE]
      OBVIOUS
    <3>3. /\ p \in SendPath /\ p.sendEvent = session[s].sendQueue
          /\ p.sendQueue = <<>> /\ p.io = TRUE
      <4>1. /\ session[s] \in SendPath
            /\ session[s].sendQueue \in Seq(Packets)
            /\ <<>> \in Seq(Packets)
        BY <1>t, PathTypes
      <4> QED BY <3>2, <4>1 DEF SendPath
    <3>4. session' = [session EXCEPT ![s] = p]
      BY <1>t, <3>1, <3>2 DEF Types
    <3>5. /\ session'[s] = p /\ session' \in [Members -> SendPath]
          /\ \A r \in Members : r # s => session'[r] = session[r]
      BY <1>t, <3>3, <3>4, SessionEffect
    <3>6. Left(Path(s)', Path(s))
      <4> DEFINE a == wire[s]
                 b == session[s].sendEvent
                 c == session[s].sendQueue
      <4>1. a \in Seq(Packets) /\ b \in Seq(Packets) /\ c \in Seq(Packets)
        BY <1>t, PathTypes
      <4>2. Path(s)' = (a \o c) \o <<>> /\ Path(s) = (a \o b) \o c
        BY <1>1, <3>3, <3>5 DEF Path
      <4> HIDE DEF a, b, c
      <4>3. a \o c \in Seq(Packets)
        BY <4>1, ConcatIndex
      <4>4. (a \o c) \o <<>> = a \o c
        BY <4>1, <4>3, EmptyConcat
      <4>5. (a \o SubSeq(b, 1, 0)) \o c = a \o c
        <5>1. SubSeq(b, 1, 0) = <<>> /\ a \o <<>> = a
          BY <4>1, EmptyConcat
        <5> QED BY <5>1
      <4>6. Left((a \o SubSeq(b, 1, 0)) \o c, (a \o b) \o c)
        BY <4>1, EmptyConcat, LeftOfThree
      <4> QED BY <4>2, <4>4, <4>5, <4>6
    <3> QED BY <1>2, <3>3, <3>5, <3>6
  <2>2. CASE ~session[s].connected
    <3>1. session' = session
      BY <1>2, <2>2 DEF RegisterSend
    <3>2. Left(Path(s)', Path(s))
      BY <1>1, <3>1, PathsUnchanged, SameIsLeft
    <3> QED BY <1>t, <3>1, <3>2 DEF IInv, EventInv, Types, SendPath
  <2> QED BY <2>1, <2>2
<1>5. Types'
  BY <1>t, <1>1, <1>3, <1>4 DEF Types, Locals, Labels, SendPath
<1>6. \A r \in Members : Left(Path(r)', Path(r))
  BY <1>1, <1>4, PathsUnchanged, SameIsLeft
<1>7. /\ LocalsInv' /\ HandlerInv' /\ RoomLockInv' /\ LogInv'
      /\ PathInv' /\ TodoInv'
  BY <1>1, <1>3, <1>6, ReturnsKeeps
<1>8. EventInv'
  <2>1. ASSUME NEW u \in Threads, worker'[u].pc = "RegisterSend"
        PROVE  /\ holder'[worker'[u].to] = u
               /\ session'[worker'[u].to].sendQueue # <<>>
    <3>1. u # t
      BY <1>3, <2>1
    <3> QED BY <1>2, <1>3, <1>4, <2>1, <3>1, OthersRegister
  <2> QED BY <1>1, <1>4, <2>1 DEF IInv, EventInv
<1> QED BY <1>5, <1>7, <1>8 DEF Rest

\* WSASend is refused: the queue is dropped.
LEMMA SendRefusedKeeps ==
  ASSUME IInv, NEW t \in Threads, SendRefused(t)
  PROVE  Rest' /\ PathInv' /\ TodoInv'
<1>t. Types
  BY DEF IInv
<1>1. /\ worker[t].pc = "RegisterSend" /\ ReturnFrom(t, worker[t].to)
      /\ UNCHANGED <<room, log, since, wire, said>>
  BY DEF SendRefused
<1>2. PICK s \in Members : s = worker[t].to /\ holder[s] = t
  BY <1>1, ReturnFromEffect DEF IInv, EventInv
<1>3. /\ Returns(t) /\ worker'[t].pc = "Send"
      /\ \A u \in Threads : u # t =>
           /\ worker'[u] = worker[u]
           /\ holder'[RoomLock] = u <=> holder[RoomLock] = u
      /\ worker' \in [Threads -> Locals]
      /\ holder' \in [Locks -> Threads \cup {NoThread}]
      /\ \A l \in Locks : l # s => holder'[l] = holder[l]
  BY <1>1, <1>2, ReturnFromEffect
<1>4. /\ session' \in [Members -> SendPath]
      /\ \A r \in Members : r # s => session'[r] = session[r]
      /\ session'[s].io = session[s].io
      /\ session'[s].sendEvent = session[s].sendEvent
      /\ session'[s].sendQueue = <<>>
  <2>1. PICK c \in BOOLEAN :
          session' = [session EXCEPT ![s].sendQueue = <<>>,
                                     ![s].connected = c,
                                     ![s].sendRegistered = FALSE]
    BY <1>2 DEF SendRefused
  <2>2. PICK p : p = [session[s] EXCEPT !.sendQueue = <<>>, !.connected = c,
                                        !.sendRegistered = FALSE]
    OBVIOUS
  <2>3. /\ p \in SendPath /\ p.sendQueue = <<>> /\ p.io = session[s].io
        /\ p.sendEvent = session[s].sendEvent
    <3>1. session[s] \in SendPath /\ <<>> \in Seq(Packets)
      BY <1>t, PathTypes
    <3> QED BY <2>2, <3>1 DEF SendPath
  <2>4. session' = [session EXCEPT ![s] = p]
    BY <1>t, <2>1, <2>2 DEF Types
  <2> QED BY <1>t, <2>3, <2>4, SessionEffect
<1>5. Left(Path(s)', Path(s))
  <2> DEFINE a == wire[s] \o session[s].sendEvent
             b == session[s].sendQueue
  <2>1. a \in Seq(Packets) /\ b \in Seq(Packets)
    BY <1>t, PathTypes, ConcatIndex
  <2>2. Path(s)' = a \o <<>> /\ Path(s) = a \o b
    BY <1>1, <1>4 DEF Path
  <2> HIDE DEF a, b
  <2>3. a \o <<>> = a /\ (a \o b) \o <<>> = a \o b
    <3>1. a \o b \in Seq(Packets)
      BY <2>1, ConcatIndex
    <3> QED BY <2>1, <3>1, EmptyConcat
  <2>4. Left(a, (a \o b) \o <<>>)
    BY <2>1, EmptyConcat, FrontIsLeft
  <2> QED BY <2>2, <2>3, <2>4
<1>6. lost' \in [Members -> Seq(Packets)]
  <2>1. lost[s] \o session[s].sendQueue \in Seq(Packets)
    BY <1>t, PathTypes, ConcatIndex
  <2>2. lost' = [lost EXCEPT ![s] = lost[s] \o session[s].sendQueue]
    BY <1>2 DEF SendRefused
  <2> QED BY <1>t, <2>1, <2>2 DEF Types
<1>7. Types'
  BY <1>t, <1>1, <1>3, <1>4, <1>6 DEF Types, Locals, Labels, SendPath
<1>8. \A r \in Members : Left(Path(r)', Path(r))
  BY <1>1, <1>4, <1>5, PathsUnchanged, SameIsLeft
<1>9. /\ LocalsInv' /\ HandlerInv' /\ RoomLockInv' /\ LogInv'
      /\ PathInv' /\ TodoInv'
  BY <1>1, <1>3, <1>8, ReturnsKeeps
<1>10. EventInv'
  <2>1. ASSUME NEW u \in Threads, worker'[u].pc = "RegisterSend"
        PROVE  /\ holder'[worker'[u].to] = u
               /\ session'[worker'[u].to].sendQueue # <<>>
    <3>1. u # t
      BY <1>3, <2>1
    <3> QED BY <1>2, <1>3, <1>4, <2>1, <3>1, OthersRegister
  <2> QED BY <1>1, <1>4, <2>1 DEF IInv, EventInv
<1> QED BY <1>7, <1>9, <1>10 DEF Rest
-----------------------------------------------------------------------------
\* A WSASend has completed.
LEMMA DispatchSendKeeps ==
  ASSUME IInv, NEW t \in Threads, NEW s \in Members, DispatchSend(t, s)
  PROVE  Rest' /\ PathInv' /\ TodoInv'
<1>t. Types
  BY DEF IInv
<1>1. /\ worker[t] = Idle /\ session[s].io
      /\ UNCHANGED <<room, holder, log, since, lost, said>>
  BY DEF DispatchSend
<1>2. /\ worker'[t] = [Idle EXCEPT !.pc = "ProcessSend", !.to = s]
      /\ worker' \in [Threads -> Locals]
      /\ \A u \in Threads : u # t => worker'[u] = worker[u]
  <2>1. PICK w : w = [Idle EXCEPT !.pc = "ProcessSend", !.to = s]
    OBVIOUS
  <2>2. w \in Locals
    BY <2>1 DEF Idle, Locals, Labels
  <2>3. worker' = [worker EXCEPT ![t] = w]
    BY <2>1 DEF DispatchSend
  <2> QED BY <1>t, <2>1, <2>2, <2>3, WorkerEffect
<1>3. /\ worker'[t].pc = "ProcessSend" /\ worker'[t].to = s
      /\ worker'[t].by = 0 /\ worker'[t].packet = <<>> /\ worker'[t].todo = {}
  BY <1>2 DEF Idle
<1>4. /\ session' \in [Members -> SendPath]
      /\ \A r \in Members : r # s => session'[r] = session[r]
      /\ session'[s].io = FALSE /\ session'[s].sendEvent = <<>>
      /\ session'[s].sendQueue = session[s].sendQueue
  <2>1. PICK p : p = [session[s] EXCEPT !.sendEvent = <<>>, !.io = FALSE]
    OBVIOUS
  <2>2. /\ p \in SendPath /\ p.io = FALSE /\ p.sendEvent = <<>>
        /\ p.sendQueue = session[s].sendQueue
    <3>1. session[s] \in SendPath /\ <<>> \in Seq(Packets)
      BY <1>t, PathTypes
    <3> QED BY <2>1, <3>1 DEF SendPath
  <2>3. session' = [session EXCEPT ![s] = p]
    BY <1>t, <2>1 DEF DispatchSend, Types
  <2> QED BY <1>t, <2>2, <2>3, SessionEffect
<1>5. /\ wire' \in [Members -> Seq(Packets)]
      /\ \A r \in Members : r # s => wire'[r] = wire[r]
      /\ wire'[s] = wire[s] \o session[s].sendEvent
  <2>1. wire[s] \o session[s].sendEvent \in Seq(Packets)
    BY <1>t, PathTypes, ConcatIndex
  <2> QED BY <1>t, <2>1 DEF DispatchSend, Types
<1>6. Path(s)' = Path(s)
  <2> DEFINE a == wire[s] \o session[s].sendEvent
  <2>1. a \in Seq(Packets)
    BY <1>t, PathTypes, ConcatIndex
  <2>2. Path(s)' = (a \o <<>>) \o session[s].sendQueue
          /\ Path(s) = a \o session[s].sendQueue
    BY <1>4, <1>5 DEF Path
  <2> HIDE DEF a
  <2>3. a \o <<>> = a
    BY <2>1, EmptyConcat
  <2> QED BY <2>2, <2>3
<1>7. Types'
  BY <1>t, <1>1, <1>2, <1>4, <1>5 DEF Types, Locals, Labels, SendPath
<1>8. \A r \in Members : Left(Path(r)', Path(r))
  BY <1>4, <1>5, <1>6, SameIsLeft DEF Path
<1>9. holder[RoomLock] # t
  BY <1>1, NoPacket DEF Idle
<1>10. Returns(t)
  BY <1>1, <1>3, <1>9 DEF Returns
<1>11. /\ LocalsInv' /\ HandlerInv' /\ RoomLockInv' /\ LogInv'
       /\ PathInv' /\ TodoInv'
  BY <1>1, <1>2, <1>8, <1>10, ReturnsKeeps
<1>12. EventInv'
  <2>1. ASSUME NEW u \in Threads, worker'[u].pc = "RegisterSend"
        PROVE  /\ worker'[u] = worker[u] /\ worker[u].to \in Members
               /\ holder[worker[u].to] = u
               /\ session[worker[u].to].sendQueue # <<>>
    <3>1. u # t
      BY <1>3, <2>1
    <3> QED BY <1>2, <2>1, <3>1 DEF IInv, EventInv, LocalsInv
  <2>2. \A r \in Members : session'[r].sendQueue = session[r].sendQueue
    BY <1>4
  <2>3. \A r \in Members : session'[r].io <=> session'[r].sendEvent # <<>>
    BY <1>4 DEF IInv, EventInv
  <2> QED BY <1>1, <2>1, <2>2, <2>3 DEF IInv, EventInv
<1> QED BY <1>7, <1>11, <1>12 DEF Rest

\* A WSASend has failed.
LEMMA Send0Keeps ==
  ASSUME IInv, NEW t \in Threads, NEW s \in Members, Send0(t, s)
  PROVE  Rest' /\ PathInv' /\ TodoInv'
<1>t. Types
  BY DEF IInv
<1>1. UNCHANGED <<room, holder, worker, log, since, said>>
  BY DEF Send0
<1> DEFINE event == session[s].sendEvent
<1>2. event \in Seq(Packets) /\ wire[s] \in Seq(Packets)
        /\ lost[s] \in Seq(Packets) /\ session[s].sendQueue \in Seq(Packets)
  BY <1>t, PathTypes
<1>3. PICK k \in 0..Len(event) :
        /\ wire' = [wire EXCEPT ![s] = @ \o SubSeq(event, 1, k)]
        /\ lost' = [lost EXCEPT ![s] = @ \o SubSeq(event, k + 1, Len(event))]
  BY DEF Send0
<1>4. /\ session' \in [Members -> SendPath]
      /\ \A r \in Members : r # s => session'[r] = session[r]
      /\ session'[s].io = FALSE /\ session'[s].sendEvent = <<>>
      /\ session'[s].sendQueue = session[s].sendQueue
  <2>1. PICK p : p = [session[s] EXCEPT !.sendEvent = <<>>, !.io = FALSE,
                                        !.connected = FALSE]
    OBVIOUS
  <2>2. /\ p \in SendPath /\ p.io = FALSE /\ p.sendEvent = <<>>
        /\ p.sendQueue = session[s].sendQueue
    <3>1. session[s] \in SendPath /\ <<>> \in Seq(Packets)
      BY <1>t, PathTypes
    <3> QED BY <2>1, <3>1 DEF SendPath
  <2>3. session' = [session EXCEPT ![s] = p]
    BY <1>t, <2>1 DEF Send0, Types
  <2> QED BY <1>t, <2>2, <2>3, SessionEffect
<1> HIDE DEF event
<1>5. /\ wire' \in [Members -> Seq(Packets)]
      /\ lost' \in [Members -> Seq(Packets)]
      /\ \A r \in Members : r # s => wire'[r] = wire[r]
      /\ wire'[s] = wire[s] \o SubSeq(event, 1, k)
  <2>1. /\ wire[s] \o SubSeq(event, 1, k) \in Seq(Packets)
        /\ lost[s] \o SubSeq(event, k + 1, Len(event)) \in Seq(Packets)
    BY <1>2, PartOfSeq, ConcatIndex
  <2> QED BY <1>t, <1>3, <2>1 DEF Types
<1>6. Left(Path(s)', Path(s))
  <2> DEFINE a == wire[s]
             c == session[s].sendQueue
             d == a \o SubSeq(event, 1, k)
  <2>1. d \in Seq(Packets)
    BY <1>2, PartOfSeq, ConcatIndex
  <2>2. Path(s)' = (d \o <<>>) \o c /\ Path(s) = (a \o event) \o c
    BY <1>4, <1>5 DEF Path, event
  <2>3. Left(d \o c, (a \o event) \o c)
    BY <1>2, LeftOfThree
  <2> HIDE DEF a, c, d
  <2>4. d \o <<>> = d
    BY <2>1, EmptyConcat
  <2> QED BY <2>2, <2>3, <2>4
<1>7. Types'
  BY <1>t, <1>1, <1>4, <1>5 DEF Types, SendPath
<1>8. \A r \in Members : Left(Path(r)', Path(r))
  BY <1>4, <1>5, <1>6, SameIsLeft DEF Path
<1>9. PathInv' /\ TodoInv'
  BY <1>1, <1>8, LossKeepsPaths
<1>10. LocalsInv' /\ HandlerInv' /\ RoomLockInv' /\ LogInv'
  BY <1>1 DEF IInv, LocalsInv, HandlerInv, RoomLockInv, LogInv
<1>11. EventInv'
  BY <1>1, <1>4 DEF IInv, EventInv, LocalsInv
<1> QED BY <1>7, <1>9, <1>10, <1>11 DEF Rest

\* The end of ProcessSend.
LEMMA ProcessSendKeeps ==
  ASSUME IInv, NEW t \in Threads, ProcessSend(t)
  PROVE  Rest' /\ PathInv' /\ TodoInv'
<1>t. Types
  BY DEF IInv
<1>1. PICK s \in Members : s = worker[t].to
  BY DEF ProcessSend, IInv, LocalsInv
<1>2. /\ worker[t].pc = "ProcessSend" /\ holder[s] = NoThread
      /\ UNCHANGED <<room, log, since, wire, lost, said>>
  BY <1>1 DEF ProcessSend, histVars
<1>3. /\ worker[t].packet = <<>> /\ worker[t].todo = {}
      /\ holder[RoomLock] # t
  BY <1>2, NoPacket
<1>4. RoomLock # s /\ RoomLock \in Locks /\ s \in Locks
  BY Apart DEF RoomLock, Locks
<1>5. CASE session[s].sendQueue = <<>>
  <2>1. /\ session' = [session EXCEPT ![s].sendRegistered = FALSE]
        /\ worker' = [worker EXCEPT ![t] = Idle] /\ holder' = holder
    BY <1>1, <1>5 DEF ProcessSend
  <2>2. Idle \in Locals
    BY DEF Idle, Locals, Labels
  <2>3. /\ worker'[t] = Idle /\ worker' \in [Threads -> Locals]
        /\ \A u \in Threads : u # t => worker'[u] = worker[u]
    BY <1>t, <2>1, <2>2, WorkerEffect
  <2>4. /\ session' \in [Members -> SendPath]
        /\ \A r \in Members : /\ session'[r].io = session[r].io
                               /\ session'[r].sendEvent = session[r].sendEvent
                               /\ session'[r].sendQueue = session[r].sendQueue
    <3>1. PICK p : p = [session[s] EXCEPT !.sendRegistered = FALSE]
      OBVIOUS
    <3>2. /\ p \in SendPath /\ p.io = session[s].io
          /\ p.sendEvent = session[s].sendEvent
          /\ p.sendQueue = session[s].sendQueue
      <4>1. session[s] \in SendPath
        BY <1>t, PathTypes
      <4> QED BY <3>1, <4>1 DEF SendPath
    <3>3. session' = [session EXCEPT ![s] = p]
      BY <1>t, <2>1, <3>1 DEF Types
    <3> QED BY <1>t, <3>2, <3>3, SessionEffect
  <2>5. Types'
    BY <1>t, <1>2, <2>1, <2>3, <2>4 DEF Types, Locals, Labels, SendPath
  <2>6. \A r \in Members : Left(Path(r)', Path(r))
    BY <1>2, <2>4, PathsUnchanged, SameIsLeft
  <2>7. Returns(t)
    BY <1>3, <2>1, <2>3 DEF Returns, Idle
  <2>8. /\ LocalsInv' /\ HandlerInv' /\ RoomLockInv' /\ LogInv'
        /\ PathInv' /\ TodoInv'
    BY <1>2, <2>1, <2>3, <2>6, <2>7, ReturnsKeeps
  <2>9. EventInv'
    <3>1. ASSUME NEW u \in Threads, worker'[u].pc = "RegisterSend"
          PROVE  /\ worker'[u] = worker[u] /\ worker[u].to \in Members
                 /\ holder[worker[u].to] = u
                 /\ session[worker[u].to].sendQueue # <<>>
      BY <2>3, <3>1 DEF Idle, IInv, EventInv, LocalsInv
    <3> QED BY <1>2, <2>1, <2>4, <3>1 DEF IInv, EventInv
  <2> QED BY <2>5, <2>8, <2>9 DEF Rest
<1>6. CASE session[s].sendQueue # <<>>
  <2>1. /\ holder' = [holder EXCEPT ![s] = t] /\ session' = session
        /\ worker' = [worker EXCEPT ![t].pc = "RegisterSend"]
    BY <1>1, <1>6 DEF ProcessSend
  <2>2. PICK w : w = [worker[t] EXCEPT !.pc = "RegisterSend"]
    OBVIOUS
  <2>3. /\ w \in Locals /\ w.pc = "RegisterSend" /\ w.by = worker[t].by
        /\ w.packet = <<>> /\ w.todo = {} /\ w.to = s
    <3>1. worker[t] \in Locals
      BY <1>t DEF Types, Locals, Labels
    <3> QED BY <1>1, <1>3, <2>2, <3>1 DEF Locals, Labels
  <2>4. worker' = [worker EXCEPT ![t] = w]
    BY <1>t, <2>1, <2>2 DEF Types
  <2>5. /\ worker'[t] = w /\ worker' \in [Threads -> Locals]
        /\ \A u \in Threads : u # t => worker'[u] = worker[u]
    BY <1>t, <2>3, <2>4, WorkerEffect
  <2>6. /\ holder'[s] = t /\ \A l \in Locks : l # s => holder'[l] = holder[l]
        /\ holder' \in [Locks -> Threads \cup {NoThread}]
    BY <1>t, <1>4, <2>1 DEF Types
  <2>7. Types'
    BY <1>t, <1>2, <2>1, <2>5, <2>6 DEF Types, Locals, Labels
  <2>8. \A r \in Members : Left(Path(r)', Path(r))
    BY <1>2, <2>1, PathsUnchanged, SameIsLeft
  <2>9. Returns(t)
    BY <1>3, <1>4, <2>3, <2>5, <2>6 DEF Returns
  <2>10. /\ LocalsInv' /\ HandlerInv' /\ RoomLockInv' /\ LogInv'
         /\ PathInv' /\ TodoInv'
    BY <1>2, <1>4, <2>5, <2>6, <2>8, <2>9, ReturnsKeeps
  <2>11. EventInv'
    <3>1. ASSUME NEW u \in Threads, worker'[u].pc = "RegisterSend"
          PROVE  /\ holder'[worker'[u].to] = u
                 /\ session'[worker'[u].to].sendQueue # <<>>
      <4>1. CASE u = t
        BY <1>6, <2>1, <2>3, <2>5, <2>6, <4>1
      <4>2. CASE u # t
        BY <1>2, <2>1, <2>5, <2>6, <3>1, <4>2, OthersRegister
      <4> QED BY <4>1, <4>2
    <3> QED BY <1>2, <2>1, <3>1 DEF IInv, EventInv
  <2> QED BY <2>7, <2>10, <2>11 DEF Rest
<1> QED BY <1>5, <1>6
-----------------------------------------------------------------------------
\* IInv is inductive.
LEMMA NextIInv == IInv /\ [Next]_vars => IInv'
<1> SUFFICES ASSUME IInv, [Next]_vars PROVE IInv'
  OBVIOUS
<1> SUFFICES Rest' /\ PathInv' /\ TodoInv'
  BY DEF IInv, Rest
<1>1. CASE \E t \in Threads : Step(t)
  <2>1. PICK t \in Threads : Step(t)
    BY <1>1
  <2> QED BY <2>1, EnterKeeps, BroadcastKeeps, SendKeeps, EndSendKeeps,
             RegisterSendKeeps, SendRefusedKeeps, ProcessSendKeeps DEF Step
<1>2. CASE \E t \in Threads, s \in Members : HandleEnterGame(t, s)
  <2>1. PICK t \in Threads, s \in Members : HandleEnterGame(t, s)
    BY <1>2
  <2>2. /\ HandlePacket(t, s, "Enter", 0) /\ s \notin room /\ said' = said
        /\ UNCHANGED <<room, holder, session, histVars>>
    BY <2>1 DEF HandleEnterGame
  <2>3. 0 \in 0..MaxChats
    BY Apart
  <2>4. Rest'
    BY <2>2, <2>3, HandlePacketKeeps
  <2>5. PathInv' /\ TodoInv'
    BY <2>2, HandlerKeepsPaths
  <2> QED BY <2>4, <2>5
<1>3. CASE \E t \in Threads, s \in Members : HandleChat(t, s)
  <2>1. PICK t \in Threads, s \in Members : HandleChat(t, s)
    BY <1>3
  <2>2. /\ HandlePacket(t, s, "Broadcast", said + 1) /\ said' = said + 1
        /\ said < MaxChats /\ UNCHANGED <<room, holder, session, histVars>>
    BY <2>1 DEF HandleChat
  <2>3. said + 1 \in 0..MaxChats
    BY <2>2, Apart DEF IInv, Types
  <2>4. Rest'
    BY <2>2, <2>3, HandlePacketKeeps
  <2>5. PathInv' /\ TodoInv'
    BY <2>2, HandlerKeepsPaths
  <2> QED BY <2>4, <2>5
<1>4. CASE \E t \in Threads, s \in Members :
             Recv0(t, s) \/ DispatchSend(t, s) \/ Send0(t, s)
  BY <1>4, Recv0Keeps, DispatchSendKeeps, Send0Keeps
<1>5. CASE UNCHANGED vars
  <2>1. UNCHANGED <<room, holder, session, worker, said, log, since, wire,
                    lost>>
    BY <1>5 DEF vars, histVars
  <2>2. \A r \in Members : Left(Path(r)', Path(r))
    BY <2>1, PathsUnchanged, SameIsLeft
  <2>3. PathInv' /\ TodoInv'
    BY <2>1, <2>2, LossKeepsPaths
  <2>4. Rest'
    BY <2>1 DEF Rest, IInv, Types, LocalsInv, HandlerInv, RoomLockInv,
                EventInv, LogInv
  <2> QED BY <2>3, <2>4
<1> QED BY <1>1, <1>2, <1>3, <1>4, <1>5 DEF Next, Quiescent

(* The inductive invariant: how the packets of a path are ordered, and     *)
(* what the threads that have still to send are about to add to it         *)
(* (Room.cpp:8-27, Session.cpp:60-72, 148-196, 256-276).                   *)
THEOREM Invariance == Spec => []IInv
<1>1. Init => IInv
  BY InitIInv
<1>2. IInv /\ [Next]_vars => IInv'
  BY NextIInv
<1> QED BY <1>1, <1>2, PTL DEF Spec

(* Every state of sessions, workers and locks has its type, and a send is  *)
(* pending exactly while its event has packets                             *)
(* (Room.h:10-12, Session.h:57-75).                                        *)
THEOREM TypeCorrect == Spec => []TypeOK
<1>1. IInv => TypeOK
  <2> SUFFICES ASSUME IInv PROVE TypeOK
    OBVIOUS
  <2>1. \A s \in Members :
          /\ {session[s].connected, session[s].sendRegistered, session[s].io}
               \subseteq BOOLEAN
          /\ {session[s].sendQueue, session[s].sendEvent, wire[s], lost[s]}
               \subseteq Seq(Packets)
          /\ session[s].io <=> session[s].sendEvent # <<>>
    BY DEF IInv, Types, EventInv
  <2>2. \A s \in Members : since[s] \in 0..Len(log)
    BY DEF IInv, Types, EventInv
  <2>3. \A t \in Threads :
          /\ worker[t].pc \in {"idle", "Enter", "Broadcast", "Send",
                               "RegisterSend", "ProcessSend"}
          /\ worker[t].packet \in Packets \cup {<<>>}
          /\ {worker[t].by, worker[t].to} \subseteq Members \cup {0}
          /\ worker[t].todo \subseteq room
    <3> TAKE t \in Threads
    <3>1. worker[t] \in Locals
      BY DEF IInv, Types, Locals, Labels
    <3>2. worker[t].todo \subseteq room
      BY DEF IInv, LocalsInv
    <3> QED BY <3>1, <3>2 DEF Locals, Labels
  <2> QED BY <2>1, <2>2, <2>3 DEF TypeOK, IInv, Types
<1> QED BY <1>1, Invariance, PTL

\* What is before another packet is there, and so is the other.
LEMMA BeforeHas ==
  ASSUME NEW w, NEW p, NEW q, Before(w, p, q)
  PROVE  Has(w, p) /\ Has(w, q)
  BY DEF Before, Has

(* Clients see one conversation, for any number of threads, members, chats *)
(* and failed sends: no two of them hear two chats in different orders,    *)
(* and what one client says comes in the order it was said                 *)
(* (Room.cpp:20-27, ServerPacketHandler.cpp:66-95, Session.cpp:60-72).     *)
THEOREM ClientsSeeOneConversation == Spec => []OneConversation
<1>1. IInv => OneConversation
  <2> SUFFICES ASSUME IInv, NEW p \in Packets, NEW q \in Packets,
                      NEW s \in Members, Before(wire[s], p, q)
               PROVE  /\ \A r \in Members : ~Before(wire[r], q, p)
                      /\ p[1] = q[1] => p[2] < q[2]
    BY DEF OneConversation
  <2>1. p[2] \in Nat /\ q[2] \in Nat /\ p[1] \in Members /\ q[1] \in Members
    BY DEF Packets
  <2>2. \A r \in Members : /\ wire[r] \in Seq(Packets)
                           /\ session[r].sendEvent \in Seq(Packets)
                           /\ session[r].sendQueue \in Seq(Packets)
    BY PathTypes DEF IInv
  <2>3. ASSUME NEW r \in Members
        PROVE  Left(wire[r], Path(r)) /\ Path(r) \in Seq(Packets)
    <3>1. Left(wire[r], Path(r))
      BY <2>2, FrontIsLeft DEF Path
    <3>2. wire[r] \o session[r].sendEvent \in Seq(Packets)
      BY <2>2, ConcatIndex
    <3> QED BY <2>2, <3>1, <3>2, ConcatIndex DEF Path
  <2>4. Before(Path(s), p, q) /\ Has(Path(s), p) /\ Has(Path(s), q)
    BY <2>3, BeforeHas DEF Left
  <2>5. /\ p # q /\ (p[2] > 0 /\ q[2] > 0 => Before(log, p, q))
        /\ ~(p[1] = s /\ q[2] = 0)
        /\ (p[2] = 0 => p[1] = s) /\ (q[2] = 0 => q[1] = s)
    BY <2>4 DEF IInv, PathInv
  <2>6. p[1] = q[1] => p[2] < q[2]
    <3>1. CASE p[2] > 0 /\ q[2] > 0
      BY <2>5, <3>1 DEF IInv, LogInv
    <3>2. CASE q[2] = 0
      BY <2>5, <3>2
    <3>3. CASE p[2] = 0 /\ q[2] > 0
      BY <3>3
    <3> QED BY <2>1, <3>1, <3>2, <3>3
  <2>7. ASSUME NEW r \in Members, Before(wire[r], q, p) PROVE FALSE
    <3>1. Before(Path(r), q, p) /\ Has(Path(r), p) /\ Has(Path(r), q)
      BY <2>3, <2>7, BeforeHas DEF Left
    <3>2. CASE p[2] > 0 /\ q[2] > 0
      <4>1. Before(log, p, q) /\ Before(log, q, p)
        BY <2>5, <3>1, <3>2 DEF IInv, PathInv
      <4>2. /\ log \in Seq(Packets)
            /\ \A x, y \in Packets : Before(log, x, y) => x # y
        BY DEF IInv, Types, LogInv
      <4> QED BY <4>1, <4>2, BeforeAsymmetric
    <3>3. CASE p[2] = 0 \/ q[2] = 0
      <4>1. r = s
        BY <2>5, <3>1, <3>3 DEF IInv, PathInv
      <4>2. \A x, y \in Packets : Before(Path(s), x, y) => x # y
        BY DEF IInv, PathInv
      <4> QED BY <2>3, <2>4, <3>1, <4>1, <4>2, BeforeAsymmetric
    <3> QED BY <2>1, <3>2, <3>3
  <2> QED BY <2>6, <2>7
<1> QED BY <1>1, Invariance, PTL

-----------------------------------------------------------------------------
\* Thread t is in the send path of s, with the right to send.
Uses(t, s) ==
  worker[t].pc \in {"RegisterSend", "ProcessSend"} /\ worker[t].to = s

(* Who sends to a session: _sendRegistered is set while a WSASend is       *)
(* pending or one thread, and only one, uses the send path; a queue that   *)
(* is not empty has somebody to send it while the session is connected;    *)
(* and a session's lock is with a thread that waits for nothing.           *)
RightOf(s) ==
  /\ session[s].io => session[s].sendRegistered
  /\ session[s].sendQueue # <<>> => session[s].sendRegistered
  /\ session[s].connected /\ session[s].sendRegistered =>
       session[s].io \/ \E t \in Threads : Uses(t, s)
  /\ \A t \in Threads : holder[s] = t =>
       worker[t].pc = "RegisterSend" /\ worker[t].to = s
  /\ \A t \in Threads : Uses(t, s) =>
       /\ session[s].sendRegistered /\ ~session[s].io
       /\ \A u \in Threads : Uses(u, s) => u = t

SendRightInv == \A s \in Members : RightOf(s)

\* A step that does not come to the send path of r keeps its right to send.
LEMMA OthersRight ==
  ASSUME NEW r \in Members, RightOf(r), holder'[r] = holder[r],
         session'[r].io = session[r].io,
         session'[r].sendRegistered = session[r].sendRegistered,
         session'[r].sendQueue = session[r].sendQueue,
         session'[r].connected => session[r].connected,
         \A u \in Threads : \/ worker'[u].pc = worker[u].pc
                               /\ worker'[u].to = worker[u].to
                            \/ ~Uses(u, r) /\ ~Uses(u, r)'
  PROVE  RightOf(r)'
<1>1. \A u \in Threads : Uses(u, r)' <=> Uses(u, r)
  BY DEF Uses
<1>2. \A u \in Threads : holder[r] = u =>
        worker'[u].pc = "RegisterSend" /\ worker'[u].to = r
  BY DEF RightOf, Uses
<1> QED BY <1>1, <1>2 DEF RightOf

\* Nobody sends initially.
LEMMA InitRight == Init => SendRightInv
  BY Apart DEF Init, Idle, SendRightInv, RightOf, Uses, Locks

\* What a step does to the workers and the locks, without the sessions.
\* A step of a thread that is in no send path, before it and after it.
LEMMA QuietKeepsRight ==
  ASSUME IInv, SendRightInv, NEW t \in Threads, ~\E s \in Members : Uses(t, s),
         worker'[t].pc \notin {"RegisterSend", "ProcessSend"},
         \A u \in Threads : u # t => worker'[u] = worker[u],
         \A s \in Members : holder'[s] = holder[s],
         session' = session
  PROVE  SendRightInv'
<1>1. ASSUME NEW s \in Members PROVE RightOf(s)'
  <2>1. ~Uses(t, s) /\ ~Uses(t, s)'
    BY DEF Uses
  <2> QED BY <2>1, OthersRight DEF SendRightInv
<1> QED BY <1>1 DEF SendRightInv

\* A worker takes a packet.
LEMMA HandlerRight ==
  ASSUME IInv, SendRightInv, NEW t \in Threads, NEW s \in Members, NEW k,
         NEW label, label \in {"Enter", "Broadcast"},
         HandlePacket(t, s, label, k), UNCHANGED <<holder, session>>
  PROVE  SendRightInv'
<1>1. /\ worker[t].pc = "idle" /\ worker'[t].pc = label
      /\ \A u \in Threads : u # t => worker'[u] = worker[u]
  BY DEF HandlePacket, Idle, IInv, Types
<1> QED BY <1>1, QuietKeepsRight DEF Uses

\* A player enters the room.
LEMMA EnterRight ==
  ASSUME IInv, SendRightInv, NEW t \in Threads, Enter(t)
  PROVE  SendRightInv'
<1>1. worker[t].pc = "Enter" /\ UNCHANGED <<holder, session>>
        /\ worker[t].by \in Members
  BY DEF Enter, IInv, LocalsInv, Types, Packets
<1>2. /\ worker'[t].pc = "Send"
      /\ \A u \in Threads : u # t => worker'[u] = worker[u]
  <2>1. {worker[t].by} \in SUBSET Members /\ SendTo(t, {worker[t].by})
    BY <1>1 DEF Enter
  <2>2. Types
    BY DEF IInv
  <2>3. PICK todo \in SUBSET Members : SendTo(t, todo)
    BY <2>1
  <2>4. /\ worker'[t] = [pc |-> "Send", by |-> worker[t].by,
                         packet |-> worker[t].packet, todo |-> todo,
                         to |-> worker[t].to]
        /\ \A u \in Threads : u # t => worker'[u] = worker[u]
    BY <2>2, <2>3, SendToEffect
  <2> QED BY <2>4
<1> QED BY <1>1, <1>2, QuietKeepsRight DEF Uses

\* A broadcast takes the room's lock, which is none of a session.
LEMMA BroadcastRight ==
  ASSUME IInv, SendRightInv, NEW t \in Threads, Broadcast(t)
  PROVE  SendRightInv'
<1>1. worker[t].pc = "Broadcast" /\ session' = session
        /\ holder' = [holder EXCEPT ![RoomLock] = t]
  BY DEF Broadcast
<1>2. /\ worker'[t].pc = "Send"
      /\ \A u \in Threads : u # t => worker'[u] = worker[u]
  <2>1. room \in SUBSET Members /\ SendTo(t, room)
    BY DEF Broadcast, IInv, Types
  <2>2. Types
    BY DEF IInv
  <2>3. PICK todo \in SUBSET Members : SendTo(t, todo)
    BY <2>1
  <2>4. /\ worker'[t] = [pc |-> "Send", by |-> worker[t].by,
                         packet |-> worker[t].packet, todo |-> todo,
                         to |-> worker[t].to]
        /\ \A u \in Threads : u # t => worker'[u] = worker[u]
    BY <2>2, <2>3, SendToEffect
  <2> QED BY <2>4
<1>3. \A s \in Members : holder'[s] = holder[s]
  BY <1>1, Apart DEF IInv, Types, Locks, RoomLock
<1> QED BY <1>1, <1>2, <1>3, QuietKeepsRight DEF Uses

\* The handler returns: it has no session's lock.
LEMMA EndSendRight ==
  ASSUME IInv, SendRightInv, NEW t \in Threads, EndSend(t)
  PROVE  SendRightInv'
<1>1. worker[t].pc = "Send" /\ session' = session
  BY DEF EndSend
<1>2. /\ worker'[t].pc = "idle"
      /\ \A u \in Threads : u # t => worker'[u] = worker[u]
  BY DEF EndSend, Idle, IInv, Types
<1>3. \A s \in Members : holder'[s] = holder[s]
  <2>1. \A s \in Members : holder[s] # t
    BY <1>1 DEF SendRightInv, RightOf
  <2> QED BY <2>1 DEF EndSend, Locks
<1> QED BY <1>1, <1>2, <1>3, QuietKeepsRight DEF Uses

\* The peer goes.
LEMMA Recv0Right ==
  ASSUME IInv, SendRightInv, NEW t \in Threads, NEW s \in Members, Recv0(t, s)
  PROVE  SendRightInv'
<1>1. /\ UNCHANGED <<holder, worker>>
      /\ session' = [session EXCEPT ![s].connected = FALSE]
  BY DEF Recv0
<1>2. ASSUME NEW r \in Members PROVE RightOf(r)'
  <2>1. /\ session'[r].io = session[r].io
        /\ session'[r].sendRegistered = session[r].sendRegistered
        /\ session'[r].sendQueue = session[r].sendQueue
        /\ session'[r].connected => session[r].connected
    BY <1>1 DEF IInv, Types
  <2> QED BY <1>1, <2>1, OthersRight DEF SendRightInv
<1> QED BY <1>2 DEF SendRightInv

\* Only s and t are concerned: what is left to show is the right of s.
LEMMA OnlyRightOf ==
  ASSUME SendRightInv, NEW t \in Threads, NEW s \in Members,
         \A r \in Members : r # s => ~Uses(t, r) /\ ~Uses(t, r)',
         \A u \in Threads : u # t => worker'[u] = worker[u],
         \A r \in Members : r # s =>
           session'[r] = session[r] /\ holder'[r] = holder[r],
         RightOf(s)'
  PROVE  SendRightInv'
<1>1. ASSUME NEW r \in Members, r # s PROVE RightOf(r)'
  BY <1>1, OthersRight DEF SendRightInv
<1> QED BY <1>1 DEF SendRightInv

\* Send takes the right to send when nobody has it.
LEMMA SendRight ==
  ASSUME IInv, SendRightInv, NEW t \in Threads, Send(t)
  PROVE  SendRightInv'
<1>t. Types
  BY DEF IInv
<1>1. PICK s \in worker[t].todo : s = NextMember(t)
  BY <1>t, NextMemberIsLeft DEF Send
<1>2. s \in Members /\ worker[t].pc = "Send" /\ holder[s] = NoThread
  BY <1>t, <1>1 DEF Send, Types
<1>3. /\ session'[s].sendRegistered = TRUE
      /\ session'[s].io = session[s].io
      /\ session'[s].connected = session[s].connected
      /\ \A r \in Members : r # s => session'[r] = session[r]
  <2>1. PICK p : p = [session[s] EXCEPT
                        !.sendQueue = Append(@, worker[t].packet),
                        !.sendRegistered = TRUE]
    OBVIOUS
  <2>2. session[s] \in SendPath
    BY <1>t, <1>2, PathTypes
  <2>3. /\ p.sendRegistered = TRUE /\ p.io = session[s].io
        /\ p.connected = session[s].connected
    BY <2>1, <2>2 DEF SendPath
  <2>4. session' = [session EXCEPT ![s] = p]
    BY <1>t, <1>1, <1>2, <2>1 DEF Send, Types
  <2> QED BY <1>t, <1>2, <2>3, <2>4 DEF Types
<1>4. CASE session[s].sendRegistered
  <2>1. PICK todo \in SUBSET Members : SendTo(t, todo)
    <3>1. SendTo(t, worker[t].todo \ {s})
      BY <1>1, <1>4 DEF Send
    <3> QED BY <1>t, <3>1 DEF Types
  <2>2. /\ worker'[t] = [pc |-> "Send", by |-> worker[t].by,
                         packet |-> worker[t].packet, todo |-> todo,
                         to |-> worker[t].to]
        /\ \A u \in Threads : u # t => worker'[u] = worker[u]
    BY <1>t, <2>1, SendToEffect
  <2>3. holder' = holder /\ worker'[t].pc = "Send"
    BY <1>1, <1>4, <2>2 DEF Send
  <2>4. \A r \in Members : ~Uses(t, r) /\ ~Uses(t, r)'
    BY <1>2, <2>3 DEF Uses
  <2>5. RightOf(s)'
    <3>1. \A u \in Threads : Uses(u, s)' <=> Uses(u, s)
      BY <1>2, <2>2, <2>4 DEF Uses
    <3>2. \A u \in Threads : holder'[s] # u
      BY <1>2, <2>3, Apart
    <3> QED BY <1>2, <1>3, <1>4, <3>1, <3>2 DEF SendRightInv, RightOf
  <2> QED BY <1>2, <1>3, <2>2, <2>3, <2>4, <2>5, OnlyRightOf
<1>5. CASE ~session[s].sendRegistered
  <2>1. /\ holder' = [holder EXCEPT ![s] = t]
        /\ worker' = [worker EXCEPT ![t].todo = @ \ {s},
                                    ![t].pc = "RegisterSend", ![t].to = s]
    BY <1>1, <1>5 DEF Send
  <2>2. /\ worker'[t].pc = "RegisterSend" /\ worker'[t].to = s
        /\ \A u \in Threads : u # t => worker'[u] = worker[u]
    <3>1. PICK w : w = [worker[t] EXCEPT !.todo = @ \ {s},
                                         !.pc = "RegisterSend", !.to = s]
      OBVIOUS
    <3>2. worker[t] \in Locals
      BY <1>t DEF Types, Locals, Labels
    <3>3. w.pc = "RegisterSend" /\ w.to = s
      BY <3>1, <3>2 DEF Locals
    <3>4. worker' = [worker EXCEPT ![t] = w]
      BY <1>t, <2>1, <3>1 DEF Types
    <3> QED BY <1>t, <3>3, <3>4 DEF Types
  <2>3. /\ holder'[s] = t
        /\ \A r \in Members : r # s => holder'[r] = holder[r]
    BY <1>t, <1>2, <2>1 DEF Types, Locks
  <2>4. \A r \in Members : r # s => ~Uses(t, r) /\ ~Uses(t, r)'
    BY <1>2, <2>2 DEF Uses
  <2>5. RightOf(s)'
    <3>1. ~session[s].io /\ \A u \in Threads : ~Uses(u, s)
      BY <1>2, <1>5 DEF SendRightInv, RightOf
    <3>2. \A u \in Threads : Uses(u, s)' <=> u = t
      BY <2>2, <3>1 DEF Uses
    <3> QED BY <1>3, <2>2, <2>3, <3>1, <3>2 DEF RightOf
  <2> QED BY <1>2, <1>3, <2>2, <2>3, <2>4, <2>5, OnlyRightOf
<1> QED BY <1>4, <1>5

\* RegisterSend has returned, and the right was given to a pending WSASend,
\* given back or lost with the connection.
LEMMA ReturnRight ==
  ASSUME IInv, SendRightInv, NEW t \in Threads, worker[t].pc = "RegisterSend",
         NEW s \in Members, s = worker[t].to, ReturnFrom(t, s),
         \A r \in Members : r # s => session'[r] = session[r],
         session'[s].io => session'[s].sendRegistered,
         session'[s].sendQueue # <<>> => session'[s].sendRegistered,
         session'[s].connected /\ session'[s].sendRegistered => session'[s].io
  PROVE  SendRightInv'
<1>t. Types
  BY DEF IInv
<1>1. /\ worker'[t].pc = "Send"
      /\ \A u \in Threads : u # t => worker'[u] = worker[u]
      /\ \A r \in Members : r # s => holder'[r] = holder[r]
  BY ReturnFromEffect DEF Locks
<1>2. holder'[s] = NoThread
  BY <1>t DEF ReturnFrom, Types, Locks
<1>3. \A u \in Threads : ~Uses(u, s)'
  <2>1. \A u \in Threads : Uses(u, s) => u = t
    BY DEF SendRightInv, RightOf, Uses
  <2> QED BY <1>1, <2>1 DEF Uses
<1>4. RightOf(s)'
  BY <1>2, <1>3, Apart DEF RightOf
<1>5. \A r \in Members : r # s => ~Uses(t, r) /\ ~Uses(t, r)'
  BY <1>1 DEF Uses
<1> QED BY <1>1, <1>4, <1>5, OnlyRightOf

\* The pending WSASend has the right now.
LEMMA RegisterSendRight ==
  ASSUME IInv, SendRightInv, NEW t \in Threads, RegisterSend(t)
  PROVE  SendRightInv'
<1>t. Types
  BY DEF IInv
<1>1. worker[t].pc = "RegisterSend" /\ ReturnFrom(t, worker[t].to)
  BY DEF RegisterSend
<1>2. PICK s \in Members : s = worker[t].to
  BY <1>1 DEF IInv, LocalsInv
<1>3. session[s].sendRegistered /\ ~session[s].io
  BY <1>1, <1>2 DEF SendRightInv, RightOf, Uses
<1>4. CASE session[s].connected
  <2>1. PICK p : p = [session[s] EXCEPT !.sendEvent = session[s].sendQueue,
                                        !.sendQueue = <<>>, !.io = TRUE]
    OBVIOUS
  <2>2. session' = [session EXCEPT ![s] = p]
    BY <1>t, <1>2, <1>4, <2>1 DEF RegisterSend, Types
  <2>3. p.sendRegistered /\ p.io
    <3>1. session[s] \in SendPath
      BY <1>t, PathTypes
    <3> QED BY <1>3, <2>1, <3>1 DEF SendPath
  <2>4. /\ session'[s] = p
        /\ \A r \in Members : r # s => session'[r] = session[r]
    BY <1>t, <2>2 DEF Types
  <2> QED BY <1>1, <1>2, <2>3, <2>4, ReturnRight
<1>5. CASE ~session[s].connected
  <2>1. session' = session
    BY <1>2, <1>5 DEF RegisterSend
  <2> QED BY <1>1, <1>2, <1>3, <1>5, <2>1, ReturnRight
<1> QED BY <1>4, <1>5

\* The right to send is given back with the empty queue.
LEMMA SendRefusedRight ==
  ASSUME IInv, SendRightInv, NEW t \in Threads, SendRefused(t)
  PROVE  SendRightInv'
<1>t. Types
  BY DEF IInv
<1>1. worker[t].pc = "RegisterSend" /\ ReturnFrom(t, worker[t].to)
  BY DEF SendRefused
<1>2. PICK s \in Members : s = worker[t].to
  BY <1>1 DEF IInv, LocalsInv
<1>3. PICK c \in BOOLEAN :
        session' = [session EXCEPT ![s].sendQueue = <<>>,
                                   ![s].connected = c,
                                   ![s].sendRegistered = FALSE]
  BY <1>2 DEF SendRefused
<1>4. PICK p : p = [session[s] EXCEPT !.sendQueue = <<>>, !.connected = c,
                                      !.sendRegistered = FALSE]
  OBVIOUS
<1>5. p.sendQueue = <<>> /\ p.io = session[s].io /\ p.sendRegistered = FALSE
  <2>1. session[s] \in SendPath
    BY <1>t, PathTypes
  <2> QED BY <1>4, <2>1 DEF SendPath
<1>6. session' = [session EXCEPT ![s] = p]
  BY <1>t, <1>3, <1>4 DEF Types
<1>7. /\ session'[s] = p
      /\ \A r \in Members : r # s => session'[r] = session[r]
  BY <1>t, <1>6 DEF Types
<1>8. ~session[s].io
  BY <1>1, <1>2 DEF SendRightInv, RightOf, Uses
<1> QED BY <1>1, <1>2, <1>5, <1>7, <1>8, ReturnRight

\* The completion has the right that the WSASend had.
LEMMA DispatchSendRight ==
  ASSUME IInv, SendRightInv, NEW t \in Threads, NEW s \in Members,
         DispatchSend(t, s)
  PROVE  SendRightInv'
<1>t. Types
  BY DEF IInv
<1>1. worker[t].pc = "idle" /\ session[s].io /\ holder' = holder
  BY DEF DispatchSend, Idle
<1>2. /\ worker'[t].pc = "ProcessSend" /\ worker'[t].to = s
      /\ \A u \in Threads : u # t => worker'[u] = worker[u]
  <2>1. PICK w : w = [Idle EXCEPT !.pc = "ProcessSend", !.to = s]
    OBVIOUS
  <2>2. w.pc = "ProcessSend" /\ w.to = s
    BY <2>1 DEF Idle
  <2>3. worker' = [worker EXCEPT ![t] = w]
    BY <2>1 DEF DispatchSend
  <2> QED BY <1>t, <2>2, <2>3 DEF Types
<1>3. /\ session'[s].io = FALSE
      /\ session'[s].sendRegistered = session[s].sendRegistered
      /\ \A r \in Members : r # s => session'[r] = session[r]
  <2>1. PICK p : p = [session[s] EXCEPT !.sendEvent = <<>>, !.io = FALSE]
    OBVIOUS
  <2>2. p.io = FALSE /\ p.sendRegistered = session[s].sendRegistered
    <3>1. session[s] \in SendPath
      BY <1>t, PathTypes
    <3> QED BY <2>1, <3>1 DEF SendPath
  <2>3. session' = [session EXCEPT ![s] = p]
    BY <1>t, <2>1 DEF DispatchSend, Types
  <2> QED BY <1>t, <2>2, <2>3 DEF Types
<1>4. session[s].sendRegistered /\ \A u \in Threads : ~Uses(u, s)
  BY <1>1 DEF SendRightInv, RightOf
<1>5. \A u \in Threads : Uses(u, s)' <=> u = t
  BY <1>2, <1>4 DEF Uses
<1>6. \A u \in Threads : holder'[s] # u
  BY <1>1, <1>4 DEF SendRightInv, RightOf, Uses
<1>7. RightOf(s)'
  BY <1>3, <1>4, <1>5, <1>6 DEF RightOf
<1>8. \A r \in Members : r # s => ~Uses(t, r) /\ ~Uses(t, r)'
  BY <1>1, <1>2 DEF Uses
<1> QED BY <1>1, <1>2, <1>3, <1>7, <1>8, OnlyRightOf

\* The right is not given back, and the session is not connected.
LEMMA Send0Right ==
  ASSUME IInv, SendRightInv, NEW t \in Threads, NEW s \in Members,
         Send0(t, s)
  PROVE  SendRightInv'
<1>t. Types
  BY DEF IInv
<1>1. session[s].io /\ UNCHANGED <<holder, worker>>
  BY DEF Send0
<1>2. /\ session'[s].io = FALSE /\ session'[s].connected = FALSE
      /\ session'[s].sendRegistered = session[s].sendRegistered
      /\ \A r \in Members : r # s => session'[r] = session[r]
  <2>1. PICK p : p = [session[s] EXCEPT !.sendEvent = <<>>, !.io = FALSE,
                                        !.connected = FALSE]
    OBVIOUS
  <2>2. /\ p.io = FALSE /\ p.connected = FALSE
        /\ p.sendRegistered = session[s].sendRegistered
    <3>1. session[s] \in SendPath
      BY <1>t, PathTypes
    <3> QED BY <2>1, <3>1 DEF SendPath
  <2>3. session' = [session EXCEPT ![s] = p]
    BY <1>t, <2>1 DEF Send0, Types
  <2> QED BY <1>t, <2>2, <2>3 DEF Types
<1>3. \A r \in Members : \A u \in Threads : Uses(u, r)' <=> Uses(u, r)
  BY <1>1 DEF Uses
<1>4. ASSUME NEW r \in Members PROVE RightOf(r)'
  BY <1>1, <1>2, <1>3 DEF SendRightInv, RightOf
<1> QED BY <1>4 DEF SendRightInv

\* The completion keeps the right while there is something to send.
LEMMA ProcessSendRight ==
  ASSUME IInv, SendRightInv, NEW t \in Threads, ProcessSend(t)
  PROVE  SendRightInv'
<1>t. Types
  BY DEF IInv
<1>1. PICK s \in Members : s = worker[t].to
  BY DEF ProcessSend, IInv, LocalsInv
<1>2. /\ worker[t].pc = "ProcessSend" /\ holder[s] = NoThread /\ Uses(t, s)
      /\ \A r \in Members : r # s => ~Uses(t, r)
  BY <1>1 DEF ProcessSend, Uses
<1>3. \A u \in Threads : Uses(u, s) => u = t
  BY <1>2 DEF SendRightInv, RightOf
<1>4. CASE session[s].sendQueue = <<>>
  <2>1. /\ session' = [session EXCEPT ![s].sendRegistered = FALSE]
        /\ worker' = [worker EXCEPT ![t] = Idle] /\ holder' = holder
    BY <1>1, <1>4 DEF ProcessSend
  <2>2. /\ worker'[t].pc = "idle"
        /\ \A u \in Threads : u # t => worker'[u] = worker[u]
    BY <1>t, <2>1 DEF Types, Idle
  <2>3. /\ session'[s].sendRegistered = FALSE
        /\ session'[s].sendQueue = <<>> /\ session'[s].io = session[s].io
        /\ \A r \in Members : r # s => session'[r] = session[r]
    BY <1>t, <1>4, <2>1 DEF Types
  <2>4. \A u \in Threads : ~Uses(u, s)' /\ holder'[s] # u
    BY <1>2, <1>3, <2>1, <2>2, Apart DEF Uses
  <2>5. RightOf(s)'
    BY <1>2, <2>3, <2>4 DEF SendRightInv, RightOf
  <2> QED BY <1>2, <2>1, <2>2, <2>3, <2>5, OnlyRightOf DEF Uses
<1>5. CASE session[s].sendQueue # <<>>
  <2>1. /\ holder' = [holder EXCEPT ![s] = t] /\ session' = session
        /\ worker' = [worker EXCEPT ![t].pc = "RegisterSend"]
    BY <1>1, <1>5 DEF ProcessSend
  <2>2. /\ worker'[t].pc = "RegisterSend" /\ worker'[t].to = s
        /\ \A u \in Threads : u # t => worker'[u] = worker[u]
    BY <1>t, <1>1, <2>1 DEF Types
  <2>3. /\ holder'[s] = t
        /\ \A r \in Members : r # s => holder'[r] = holder[r]
    BY <1>t, <2>1 DEF Types, Locks
  <2>4. \A u \in Threads : Uses(u, s)' <=> Uses(u, s)
    BY <1>1, <1>2, <2>2 DEF Uses
  <2>5. \A r \in Members : r # s => ~Uses(t, r)'
    BY <2>2 DEF Uses
  <2>6. RightOf(s)'
    BY <1>2, <1>3, <2>1, <2>2, <2>3, <2>4 DEF SendRightInv, RightOf
  <2> QED BY <1>2, <2>1, <2>2, <2>3, <2>5, <2>6, OnlyRightOf
<1> QED BY <1>4, <1>5

-----------------------------------------------------------------------------
\* w is what the log l has after its first m packets, n packets.
AllOf(w, l, m, n) == Len(w) = n /\ \A i \in 1..n : w[i] = l[m + i]

\* The same with the packet x between the k-th and the next.
AllAround(w, l, m, n, k, x) ==
  /\ Len(w) = n + 1 /\ w[k + 1] = x
  /\ \A i \in 1..k : w[i] = l[m + i]
  /\ \A i \in (k + 1)..n : w[i + 1] = l[m + i]

\* The number of chats that the path of s should have.
Due(s) == Len(log) - since[s] - (IF OwesChat(s) THEN 1 ELSE 0)

\* NoChatMissed, packet by packet.
DueOf(s) ==
  /\ Due(s) \in Nat
  /\ OwesReply(s) => AllOf(Path(s), log, since[s], Due(s))
  /\ ~OwesReply(s) => \E k \in 0..Due(s) :
       AllAround(Path(s), log, since[s], Due(s), k, <<s, 0>>)

DueInv == \A s \in room : lost[s] = <<>> => DueOf(s)

\* The next chat of the log is appended, or the reply.
LEMMA AllOfAppend ==
  ASSUME NEW w \in Seq(Packets), NEW l, NEW m \in Nat, NEW n \in Nat,
         NEW x \in Packets, AllOf(w, l, m, n)
  PROVE  /\ x = l[m + n + 1] => AllOf(Append(w, x), l, m, n + 1)
         /\ AllAround(Append(w, x), l, m, n, n, x)
<1> DEFINE v == Append(w, x)
<1>1. /\ Len(v) = Len(w) + 1 /\ v[Len(w) + 1] = x
      /\ \A i \in 1..Len(w) : v[i] = w[i]
  OBVIOUS
<1> HIDE DEF v
<1>2. x = l[m + n + 1] => AllOf(v, l, m, n + 1)
  <2>1. m + n + 1 = m + (n + 1)
    OBVIOUS
  <2>2. Len(v) = n + 1 /\ \A i \in 1..n : v[i] = l[m + i]
    BY <1>1 DEF AllOf
  <2>3. ASSUME x = l[m + n + 1], NEW i \in 1..(n + 1) PROVE v[i] = l[m + i]
    <3>1. i \in 1..n \/ i = n + 1
      OBVIOUS
    <3> QED BY <1>1, <2>1, <2>2, <2>3, <3>1 DEF AllOf
  <2> QED BY <2>2, <2>3 DEF AllOf
<1>3. AllAround(v, l, m, n, n, x)
  BY <1>1 DEF AllOf, AllAround
<1> QED BY <1>2, <1>3 DEF v

\* The next chat of the log is appended after the reply.
LEMMA AllAroundAppend ==
  ASSUME NEW w \in Seq(Packets), NEW l, NEW m \in Nat, NEW n \in Nat,
         NEW k \in 0..n, NEW x, NEW y \in Packets,
         AllAround(w, l, m, n, k, x), y = l[m + n + 1]
  PROVE  AllAround(Append(w, y), l, m, n + 1, k, x)
<1> DEFINE v == Append(w, y)
<1>1. /\ Len(v) = Len(w) + 1 /\ v[Len(w) + 1] = y
      /\ \A i \in 1..Len(w) : v[i] = w[i]
  OBVIOUS
<1> HIDE DEF v
<1>2. AllAround(v, l, m, n + 1, k, x)
  BY <1>1 DEF AllAround
<1> QED BY <1>2 DEF v

\* What a path has of the log does not change when the log grows.
LEMMA LogAppend ==
  ASSUME NEW w, NEW l \in Seq(Packets), NEW m \in Nat, NEW n \in Nat,
         NEW y \in Packets, m + n <= Len(l)
  PROVE  /\ AllOf(w, l, m, n) => AllOf(w, Append(l, y), m, n)
         /\ \A k \in 0..n : \A x : AllAround(w, l, m, n, k, x)
              => AllAround(w, Append(l, y), m, n, k, x)
<1> DEFINE v == Append(l, y)
<1>1. \A i \in 1..n : v[m + i] = l[m + i]
  OBVIOUS
<1> HIDE DEF v
<1>2. AllOf(w, l, m, n) => AllOf(w, v, m, n)
  BY <1>1 DEF AllOf
<1>3. \A k \in 0..n : \A x : AllAround(w, l, m, n, k, x)
              => AllAround(w, v, m, n, k, x)
  <2> TAKE k \in 0..n
  <2> TAKE x
  <2>1. ASSUME NEW i \in 1..k PROVE v[m + i] = l[m + i]
    <3>1. i \in 1..n
      OBVIOUS
    <3> QED BY <1>1, <3>1
  <2>2. ASSUME NEW i \in (k + 1)..n PROVE v[m + i] = l[m + i]
    <3>1. i \in 1..n
      OBVIOUS
    <3> QED BY <1>1, <3>1
  <2> QED BY <2>1, <2>2 DEF AllAround
<1> QED BY <1>2, <1>3 DEF v

\* By its packets a sequence is known.
LEMMA AllOfIsPart ==
  ASSUME NEW w \in Seq(Packets), NEW l \in Seq(Packets), NEW m \in Nat,
         NEW n \in Nat, m + n <= Len(l), AllOf(w, l, m, n)
  PROVE  w = SubSeq(l, m + 1, m + n)
<1> DEFINE v == SubSeq(l, m + 1, m + n)
<1>1. /\ v \in Seq(Packets) /\ Len(v) = n
      /\ \A i \in 1..n : v[i] = l[m + i]
  OBVIOUS
<1> HIDE DEF v
<1>2. Len(w) = Len(v) /\ \A i \in 1..Len(w) : w[i] = v[i]
  BY <1>1 DEF AllOf
<1>3. w = v
  BY <1>1, <1>2
<1> QED BY <1>3 DEF v

\* A sequence with one packet put into it, by its indices.
LEMMA InsertedIndex ==
  ASSUME NEW d \in Seq(Packets), NEW k \in 0..Len(d), NEW x \in Packets
  PROVE  /\ Inserted(d, k, x) \in Seq(Packets)
         /\ Len(Inserted(d, k, x)) = Len(d) + 1
         /\ Inserted(d, k, x)[k + 1] = x
         /\ \A i \in 1..k : Inserted(d, k, x)[i] = d[i]
         /\ \A i \in (k + 1)..Len(d) : Inserted(d, k, x)[i + 1] = d[i]
<1> DEFINE n == Len(d)
           a == SubSeq(d, 1, k)
           b == <<x>>
           c == SubSeq(d, k + 1, n)
           v == (a \o b) \o c
<1>1. n \in Nat /\ k \in Nat /\ k <= n
  OBVIOUS
<1>2. /\ a \in Seq(Packets) /\ Len(a) = k /\ \A i \in 1..k : a[i] = d[i]
      /\ c \in Seq(Packets) /\ Len(c) = n - k
      /\ \A i \in 1..(n - k) : c[i] = d[k + i]
  OBVIOUS
<1>3. b \in Seq(Packets) /\ Len(b) = 1 /\ b[1] = x
  OBVIOUS
<1> HIDE DEF a, b, c, n
<1>4. a \in Seq(Packets) /\ b \in Seq(Packets) /\ c \in Seq(Packets)
  BY <1>2, <1>3
<1>5. /\ Len(v) = Len(a) + Len(b) + Len(c)
      /\ \A i \in 1..Len(a) : v[i] = a[i]
      /\ \A i \in 1..Len(b) : v[Len(a) + i] = b[i]
      /\ \A i \in 1..Len(c) : v[Len(a) + Len(b) + i] = c[i]
  BY <1>4, ThreeIndex
<1>6. v \in Seq(Packets)
  <2>1. a \o b \in Seq(Packets)
    BY <1>4, ConcatIndex
  <2> QED BY <1>4, <2>1, ConcatIndex
<1> HIDE DEF v
<1>7. Len(v) = n + 1
  BY <1>1, <1>2, <1>3, <1>5
<1>8. v[k + 1] = x
  BY <1>2, <1>3, <1>5
<1>9. \A i \in 1..k : v[i] = d[i]
  BY <1>2, <1>5
<1>10. \A i \in (k + 1)..n : v[i + 1] = d[i]
  <2> TAKE i \in (k + 1)..n
  <2>1. PICK j \in Nat : j = i - k
    BY <1>1
  <2>2. j \in 1..(n - k) /\ k + j = i /\ k + 1 + j = i + 1
    BY <1>1, <2>1
  <2>3. v[k + 1 + j] = c[j]
    BY <1>2, <1>3, <1>5, <2>2
  <2>4. c[j] = d[k + j]
    BY <1>2, <2>2
  <2> QED BY <2>2, <2>3, <2>4
<1> QED BY <1>6, <1>7, <1>8, <1>9, <1>10 DEF v, a, b, c, n, Inserted

\* The same with one packet put between them.
LEMMA AllAroundIsInserted ==
  ASSUME NEW w \in Seq(Packets), NEW l \in Seq(Packets), NEW m \in Nat,
         NEW n \in Nat, NEW k \in 0..n, NEW x \in Packets,
         m + n <= Len(l), AllAround(w, l, m, n, k, x)
  PROVE  LET d == SubSeq(l, m + 1, m + n)
         IN  Len(d) = n /\ w = Inserted(d, k, x)
<1> DEFINE d == SubSeq(l, m + 1, m + n)
           v == Inserted(d, k, x)
<1>1. /\ d \in Seq(Packets) /\ Len(d) = n
      /\ \A i \in 1..n : d[i] = l[m + i]
  <2>1. /\ SubSeq(l, m + 1, m + n) \in Seq(Packets)
        /\ Len(SubSeq(l, m + 1, m + n)) = n
    OBVIOUS
  <2>2. \A i \in 1..n : SubSeq(l, m + 1, m + n)[i] = l[m + i]
    OBVIOUS
  <2> QED BY <2>1, <2>2
<1> HIDE DEF d
<1>2. /\ v \in Seq(Packets) /\ Len(v) = n + 1 /\ v[k + 1] = x
      /\ \A i \in 1..k : v[i] = d[i]
      /\ \A i \in (k + 1)..n : v[i + 1] = d[i]
  <2>1. d \in Seq(Packets) /\ k \in 0..Len(d)
    BY <1>1
  <2>2. v \in Seq(Packets) /\ Len(v) = Len(d) + 1 /\ v[k + 1] = x
    BY <2>1, InsertedIndex
  <2>3. \A i \in 1..k : v[i] = d[i]
    BY <2>1, InsertedIndex
  <2>4. \A i \in (k + 1)..Len(d) : v[i + 1] = d[i]
    BY <2>1, InsertedIndex
  <2> HIDE DEF v
  <2> QED BY <1>1, <2>2, <2>3, <2>4
<1> HIDE DEF v
<1>3. /\ Len(w) = n + 1 /\ w[k + 1] = x
      /\ \A i \in 1..k : w[i] = l[m + i]
      /\ \A i \in (k + 1)..n : w[i + 1] = l[m + i]
  BY DEF AllAround
<1>4. ASSUME NEW i \in 1..(n + 1) PROVE w[i] = v[i]
  <2>1. CASE i \in 1..k
    <3>1. i \in 1..n
      BY <2>1
    <3> QED BY <1>1, <1>2, <1>3, <2>1, <3>1
  <2>2. CASE i = k + 1
    BY <1>2, <1>3, <2>2
  <2>3. CASE i \in (k + 2)..(n + 1)
    <3>1. PICK j \in (k + 1)..n : j + 1 = i
      <4>1. i - 1 \in (k + 1)..n /\ (i - 1) + 1 = i
        BY <2>3
      <4> QED BY <4>1
    <3>2. j \in 1..n
      OBVIOUS
    <3>3. w[j + 1] = l[m + j] /\ v[j + 1] = d[j] /\ d[j] = l[m + j]
      BY <1>1, <1>2, <1>3, <3>2
    <3> QED BY <3>1, <3>3
  <2> QED BY <2>1, <2>2, <2>3
<1>5. w = v
  BY <1>2, <1>3, <1>4
<1> QED BY <1>1, <1>5 DEF v, d

\* What a path should have depends on the log, what is owed and the path.
LEMMA SameDue ==
  ASSUME NEW s \in Members, DueOf(s), log' = log, since'[s] = since[s],
         Path(s)' = Path(s), OwesChat(s)' <=> OwesChat(s),
         OwesReply(s)' <=> OwesReply(s)
  PROVE  DueOf(s)'
<1>1. Due(s)' = Due(s)
  BY DEF Due
<1> QED BY <1>1 DEF DueOf

\* A step that gives no thread more or less to send, and keeps the path of
\* every member that has lost nothing.
LEMMA QuietKeepsDue ==
  ASSUME IInv, DueInv, UNCHANGED <<room, log, since>>,
         \A t \in Threads :
           /\ worker'[t].todo = worker[t].todo
           /\ worker[t].todo # {} => worker'[t].packet = worker[t].packet,
         \A s \in room : lost'[s] = <<>> =>
           lost[s] = <<>> /\ Path(s)' = Path(s)
  PROVE  DueInv'
<1>1. ASSUME NEW s \in room, lost'[s] = <<>> PROVE DueOf(s)'
  <2>1. s \in Members /\ DueOf(s) /\ Path(s)' = Path(s)
    BY <1>1 DEF IInv, Types, DueInv
  <2>2. /\ OwesChat(s)' <=> OwesChat(s)
        /\ OwesReply(s)' <=> OwesReply(s)
    BY DEF OwesChat, OwesReply
  <2> QED BY <2>1, <2>2, SameDue
<1> QED BY <1>1 DEF DueInv

\* A worker takes a packet.
LEMMA HandlerDue ==
  ASSUME IInv, DueInv, NEW t \in Threads, NEW s \in Members, NEW k, NEW label,
         HandlePacket(t, s, label, k), UNCHANGED <<room, session, histVars>>
  PROVE  DueInv'
<1>1. /\ worker[t].todo = {} /\ worker'[t].todo = {}
      /\ \A u \in Threads : u # t => worker'[u] = worker[u]
  BY DEF HandlePacket, Idle, IInv, Types
<1>2. \A r \in Members : Path(r)' = Path(r)
  BY PathsUnchanged DEF histVars
<1> QED BY <1>1, <1>2, QuietKeepsDue DEF histVars, IInv, Types

\* The handler returns: it owes nothing.
LEMMA EndSendDue ==
  ASSUME IInv, DueInv, NEW t \in Threads, EndSend(t)
  PROVE  DueInv'
<1>1. /\ worker[t].todo = {} /\ worker'[t].todo = {}
      /\ \A u \in Threads : u # t => worker'[u] = worker[u]
      /\ UNCHANGED <<room, session, log, since, wire, lost>>
  BY DEF EndSend, Idle, IInv, Types, histVars
<1>2. \A r \in Members : Path(r)' = Path(r)
  BY <1>1, PathsUnchanged
<1> QED BY <1>1, <1>2, QuietKeepsDue DEF IInv, Types

\* The peer goes.
LEMMA Recv0Due ==
  ASSUME IInv, DueInv, NEW t \in Threads, NEW s \in Members, Recv0(t, s)
  PROVE  DueInv'
<1>1. /\ UNCHANGED <<room, worker, log, since, wire, lost>>
      /\ \A r \in Members : /\ session'[r].sendEvent = session[r].sendEvent
                            /\ session'[r].sendQueue = session[r].sendQueue
  BY DEF Recv0, IInv, Types, histVars
<1>2. \A r \in Members : Path(r)' = Path(r)
  BY <1>1, PathsUnchanged
<1> QED BY <1>1, <1>2, QuietKeepsDue DEF IInv, Types

\* A member that enters has no path yet, and is owed its reply.
LEMMA EnterDue ==
  ASSUME IInv, DueInv, NEW t \in Threads, Enter(t)
  PROVE  DueInv'
<1>t. Types
  BY DEF IInv
<1>1. PICK m \in Members : m = worker[t].by
  BY <1>t DEF Enter, IInv, LocalsInv, Types, Packets
<1>2. /\ UNCHANGED <<session, log, wire, lost>> /\ m \notin room
      /\ room' = room \cup {m} /\ since' = [since EXCEPT ![m] = Len(log)]
      /\ SendTo(t, {m}) /\ worker[t].todo = {} /\ worker[t].packet[2] = 0
  BY <1>1 DEF Enter, IInv, LocalsInv
<1>3. /\ worker'[t] = [pc |-> "Send", by |-> worker[t].by,
                       packet |-> worker[t].packet, todo |-> {m},
                       to |-> worker[t].to]
      /\ \A u \in Threads : u # t => worker'[u] = worker[u]
  BY <1>t, <1>2, SendToEffect
<1>4. \A r \in Members : Path(r)' = Path(r)
  BY <1>2, PathsUnchanged
<1>5. ASSUME NEW s \in room, lost[s] = <<>> PROVE DueOf(s)'
  <2>1. s \in Members /\ s # m /\ DueOf(s)
    BY <1>t, <1>2, <1>5 DEF Types, DueInv
  <2>2. OwesChat(s)' <=> OwesChat(s)
    BY <1>2, <1>3, <2>1 DEF OwesChat
  <2>3. OwesReply(s)' <=> OwesReply(s)
    BY <1>2, <1>3, <2>1 DEF OwesReply
  <2>4. since'[s] = since[s]
    BY <1>t, <1>2, <2>1 DEF Types
  <2> QED BY <1>2, <1>4, <2>1, <2>2, <2>3, <2>4, SameDue
<1>6. DueOf(m)'
  <2>1. ~OwesChat(m)' /\ OwesReply(m)'
    <3>1. \A u \in Threads : m \notin worker[u].todo
      BY <1>2 DEF IInv, LocalsInv
    <3> QED BY <1>2, <1>3, <3>1 DEF OwesChat, OwesReply
  <2>2. since'[m] = Len(log) /\ Len(log) \in Nat
    BY <1>t, <1>2 DEF Types
  <2>3. Due(m)' = 0
    BY <1>2, <2>1, <2>2 DEF Due
  <2>4. Len(Path(m)) = 0
    <3>1. \A p \in Packets : ~Has(Path(m), p)
      BY <1>2 DEF IInv, PathInv
    <3>2. Path(m) \in Seq(Packets)
      BY <1>t, PathTypes, ConcatIndex DEF Path
    <3> HIDE DEF Path
    <3>3. /\ Len(Path(m)) \in Nat
          /\ \A i \in 1..Len(Path(m)) : Path(m)[i] \in Packets
      BY <3>2
    <3>4. ASSUME Len(Path(m)) # 0 PROVE FALSE
      <4>1. 1 \in 1..Len(Path(m))
        BY <3>3, <3>4
      <4> QED BY <3>1, <3>3, <4>1 DEF Has
    <3> QED BY <3>4
  <2>5. AllOf(Path(m), log, since[m], 0)'
    BY <1>4, <2>4 DEF AllOf
  <2> QED BY <2>1, <2>3, <2>5 DEF DueOf
<1> QED BY <1>2, <1>5, <1>6 DEF DueInv

\* Nobody else owes a chat while the room's lock is free, and then the log
\* and what is owed grow together.
LEMMA BroadcastDue ==
  ASSUME IInv, DueInv, NEW t \in Threads, Broadcast(t)
  PROVE  DueInv'
<1>t. Types
  BY DEF IInv
<1>1. PICK x \in Packets :
        x = worker[t].packet /\ x[2] > 0 /\ worker[t].todo = {}
  BY <1>t DEF Broadcast, IInv, LocalsInv, Types
<1>2. /\ UNCHANGED <<room, session, since, wire, lost>>
      /\ holder[RoomLock] = NoThread /\ log' = Append(log, x)
      /\ SendTo(t, room) /\ room \in SUBSET Members
  BY <1>t, <1>1 DEF Broadcast, Types
<1>3. /\ worker'[t] = [pc |-> "Send", by |-> worker[t].by,
                       packet |-> worker[t].packet, todo |-> room,
                       to |-> worker[t].to]
      /\ \A u \in Threads : u # t => worker'[u] = worker[u]
  BY <1>t, <1>2, SendToEffect
<1>4. \A r \in Members : Path(r)' = Path(r)
  BY <1>2, PathsUnchanged
<1>5. ASSUME NEW s \in room, lost[s] = <<>> PROVE DueOf(s)'
  <2>1. s \in Members /\ DueOf(s)
    BY <1>2, <1>5 DEF DueInv
  <2>2. ~OwesChat(s)
    <3>1. ASSUME NEW u \in Threads, s \in worker[u].todo,
                 worker[u].packet[2] > 0
          PROVE  FALSE
      <4>1. worker[u].packet # <<>> /\ worker[u].todo # {}
        BY <3>1 DEF IInv, LocalsInv
      <4> QED BY <1>2, <3>1, <4>1, Apart DEF IInv, RoomLockInv
    <3> QED BY <3>1 DEF OwesChat
  <2>3. OwesChat(s)'
    BY <1>1, <1>3 DEF OwesChat
  <2>4. OwesReply(s)' <=> OwesReply(s)
    <3>1. x[2] # 0
      BY <1>1
    <3> QED BY <1>1, <1>3, <3>1 DEF OwesReply
  <2>5. /\ log \in Seq(Packets) /\ Len(log) \in Nat /\ since[s] \in Nat
        /\ Len(log') = Len(log) + 1
    <3>1. log \in Seq(Packets) /\ since[s] \in Nat
      BY <1>t, <2>1 DEF Types
    <3> QED BY <1>2, <3>1, AppendIndex
  <2>6. Due(s) = Len(log) - since[s] /\ Due(s)' = Due(s)
    BY <1>2, <2>2, <2>3, <2>5 DEF Due
  <2>7. Due(s) \in Nat /\ since[s] + Due(s) <= Len(log)
    BY <2>1, <2>5, <2>6 DEF DueOf
  <2> DEFINE n == Due(s)
  <2>8. /\ AllOf(Path(s), log, since[s], n)
             => AllOf(Path(s), log', since[s], n)
        /\ \A k \in 0..n : \A y : AllAround(Path(s), log, since[s], n, k, y)
             => AllAround(Path(s), log', since[s], n, k, y)
    <3> HIDE DEF n
    <3>1. n \in Nat /\ since[s] + n <= Len(log)
      BY <2>7 DEF n
    <3> QED BY <1>2, <2>5, <3>1, LogAppend
  <2>9. since'[s] = since[s] /\ Path(s)' = Path(s) /\ Due(s)' = n
    BY <1>2, <1>4, <2>1, <2>6
  <2> HIDE DEF n
  <2>10. /\ n \in Nat
         /\ OwesReply(s) => AllOf(Path(s), log, since[s], n)
         /\ ~OwesReply(s) => \E k \in 0..n :
              AllAround(Path(s), log, since[s], n, k, <<s, 0>>)
    BY <2>1 DEF DueOf, n
  <2>11. /\ OwesReply(s)' => AllOf(Path(s), log', since[s], n)
         /\ ~OwesReply(s)' => \E k \in 0..n :
              AllAround(Path(s), log', since[s], n, k, <<s, 0>>)
    BY <2>4, <2>8, <2>10
  <2> QED BY <2>9, <2>10, <2>11 DEF DueOf
<1> QED BY <1>2, <1>5 DEF DueInv

\* The packet that is sent is the next one of the log, or the reply.
LEMMA SendDue ==
  ASSUME IInv, DueInv, NEW t \in Threads, Send(t)
  PROVE  DueInv'
<1>t. Types
  BY DEF IInv
<1>1. PICK s \in worker[t].todo, x \in Packets : SentTo(t, s, x)
  BY SendEffect
<1>2. /\ s \in Members /\ s \in room /\ x = worker[t].packet
      /\ UNCHANGED <<room, log, since, lost>>
      /\ worker'[t].packet = x /\ worker'[t].todo = worker[t].todo \ {s}
      /\ \A u \in Threads : u # t => worker'[u] = worker[u]
      /\ Path(s) \in Seq(Packets) /\ Path(s)' = Append(Path(s), x)
      /\ \A r \in Members : r # s => Path(r)' = Path(r)
  BY <1>t, <1>1 DEF SentTo, Types
<1>3. ASSUME NEW r \in room, r # s, lost[r] = <<>> PROVE DueOf(r)'
  <2>1. r \in Members /\ DueOf(r)
    BY <1>t, <1>3 DEF Types, DueInv
  <2>2. \A u \in Threads : /\ r \in worker'[u].todo <=> r \in worker[u].todo
                           /\ worker'[u].packet = worker[u].packet
    BY <1>2, <1>3
  <2>3. OwesChat(r)' <=> OwesChat(r)
    BY <2>2 DEF OwesChat
  <2>4. OwesReply(r)' <=> OwesReply(r)
    BY <2>2 DEF OwesReply
  <2> QED BY <1>2, <2>4, <1>3, <2>1, <2>3, SameDue
<1>4. ASSUME lost[s] = <<>> PROVE DueOf(s)'
  <2>1. DueOf(s)
    BY <1>2, <1>4 DEF DueInv
  <2> DEFINE n == Due(s)
             m == since[s]
  <2>6. /\ m \in Nat /\ log \in Seq(Packets) /\ Len(log) \in Nat
        /\ since'[s] = m /\ log' = log
    BY <1>t, <1>2 DEF Types
  <2>2. /\ n \in Nat
        /\ OwesReply(s) => AllOf(Path(s), log, m, n)
        /\ ~OwesReply(s) => \E k \in 0..n :
             AllAround(Path(s), log, m, n, k, <<s, 0>>)
    BY <2>1 DEF DueOf
  <2>3. x[2] \in Nat /\ \A u \in Threads : worker'[u].packet = worker[u].packet
    BY <1>2 DEF Packets
  <2>4. CASE x[2] = 0
    <3>1. x = <<s, 0>> /\ worker[t].by = s
      <4>1. worker[t].todo = {worker[t].by} /\ x[1] = worker[t].by
        BY <1>2, <2>4 DEF IInv, LocalsInv
      <4> QED BY <1>2, <2>4, <4>1 DEF Packets
    <3>2. OwesReply(s)
      BY <1>2, <2>4 DEF OwesReply
    <3>3. ~OwesReply(s)'
      <4>1. ASSUME NEW u \in Threads, s \in worker'[u].todo,
                   worker'[u].packet[2] = 0
            PROVE  FALSE
        <5>1. u # t /\ s \in worker[u].todo /\ worker[u].packet[2] = 0
          BY <1>2, <4>1
        <5>2. worker[u].by = s
          BY <5>1 DEF IInv, LocalsInv
        <5> QED BY <1>2, <3>1, <5>1, <5>2, Apart DEF IInv, HandlerInv
      <4> QED BY <4>1 DEF OwesReply
    <3>4. OwesChat(s)' <=> OwesChat(s)
      BY <1>2, <2>3, <2>4 DEF OwesChat
    <3>5. Due(s)' = n
      BY <2>6, <2>2, <3>4 DEF Due
    <3> HIDE DEF n, m
    <3>6. AllAround(Path(s)', log, m, n, n, <<s, 0>>)
      BY <1>2, <2>2, <2>6, <3>1, <3>2, AllOfAppend
    <3>7. n \in 0..n
      BY <2>2
    <3> QED BY <2>2, <2>6, <3>3, <3>5, <3>6, <3>7 DEF DueOf
  <2>5. CASE x[2] > 0
    <3>1. worker[t].packet # <<>> /\ worker[t].todo # {}
      BY <1>2 DEF IInv, LocalsInv
    <3>2. holder[RoomLock] = t /\ x = log[Len(log)]
      BY <1>2, <2>5, <3>1 DEF IInv, RoomLockInv
    <3>3. OwesChat(s)
      BY <1>2, <2>5 DEF OwesChat
    <3>4. ~OwesChat(s)'
      <4>1. ASSUME NEW u \in Threads, s \in worker'[u].todo,
                   worker'[u].packet[2] > 0
            PROVE  FALSE
        <5>1. u # t /\ s \in worker[u].todo /\ worker[u].packet[2] > 0
          BY <1>2, <4>1
        <5>2. worker[u].packet # <<>> /\ worker[u].todo # {}
          BY <5>1 DEF IInv, LocalsInv
        <5> QED BY <3>2, <5>1, <5>2 DEF IInv, RoomLockInv
      <4> QED BY <4>1 DEF OwesChat
    <3>5. OwesReply(s)' <=> OwesReply(s)
      <4>1. x[2] # 0
        BY <2>5
      <4> QED BY <1>2, <2>3, <4>1 DEF OwesReply
    <3>6. Due(s)' = n + 1 /\ m + n + 1 = Len(log)
      BY <2>6, <2>2, <3>3, <3>4 DEF Due
    <3> HIDE DEF n, m
    <3>7. x = log[m + n + 1]
      BY <3>2, <3>6
    <3>8. AllOf(Path(s), log, m, n) => AllOf(Path(s)', log, m, n + 1)
      BY <1>2, <2>2, <2>6, <3>7, AllOfAppend
    <3>9. \A k \in 0..n : AllAround(Path(s), log, m, n, k, <<s, 0>>)
            => AllAround(Path(s)', log, m, n + 1, k, <<s, 0>>)
      BY <1>2, <2>2, <2>6, <3>7, AllAroundAppend
    <3>10. n + 1 \in Nat /\ \A k \in 0..n : k \in 0..(n + 1)
      BY <2>2
    <3>11. /\ OwesReply(s)' => AllOf(Path(s)', log, m, n + 1)
           /\ ~OwesReply(s)' => \E k \in 0..(n + 1) :
                AllAround(Path(s)', log, m, n + 1, k, <<s, 0>>)
      BY <2>2, <3>5, <3>8, <3>9, <3>10
    <3> QED BY <2>2, <2>6, <3>6, <3>10, <3>11 DEF DueOf
  <2> QED BY <2>3, <2>4, <2>5
<1> QED BY <1>2, <1>3, <1>4 DEF DueInv

\* A step of the send path of s that only moves packets within it, or
\* loses some.
LEMMA MoveKeepsDue ==
  ASSUME IInv, DueInv, NEW s \in Members, UNCHANGED <<room, log, since>>,
         \A u \in Threads :
           /\ worker'[u].todo = worker[u].todo
           /\ worker[u].todo # {} => worker'[u].packet = worker[u].packet,
         \A r \in Members : r # s =>
           /\ session'[r] = session[r] /\ wire'[r] = wire[r]
           /\ lost'[r] = lost[r],
         lost'[s] = <<>> => lost[s] = <<>> /\ Path(s)' = Path(s)
  PROVE  DueInv'
<1>1. \A r \in Members : r # s => Path(r)' = Path(r)
  BY DEF Path
<1>2. room \subseteq Members
  BY DEF IInv, Types
<1> QED BY <1>1, <1>2, QuietKeepsDue

\* What is left of s after RegisterSend has returned.
LEMMA ReturnLocals ==
  ASSUME IInv, NEW t \in Threads, worker[t].pc = "RegisterSend",
         ReturnFrom(t, worker[t].to)
  PROVE  \A u \in Threads : /\ worker'[u].todo = worker[u].todo
                            /\ worker'[u].packet = worker[u].packet
<1>1. Types /\ SendTo(t, worker[t].todo) /\ worker[t].todo \in SUBSET Members
  BY DEF ReturnFrom, IInv, Types
<1>2. PICK todo \in SUBSET Members : todo = worker[t].todo /\ SendTo(t, todo)
  BY <1>1
<1>3. /\ worker'[t] = [pc |-> "Send", by |-> worker[t].by,
                       packet |-> worker[t].packet, todo |-> todo,
                       to |-> worker[t].to]
      /\ \A u \in Threads : u # t => worker'[u] = worker[u]
  BY <1>1, <1>2, SendToEffect
<1> QED BY <1>2, <1>3

\* The right to send makes sure that no buffers are in the event, which
\* RegisterSend would send again or overwrite.
LEMMA RegisterSendDue ==
  ASSUME IInv, SendRightInv, DueInv, NEW t \in Threads, RegisterSend(t)
  PROVE  DueInv'
<1>t. Types
  BY DEF IInv
<1>1. /\ worker[t].pc = "RegisterSend" /\ ReturnFrom(t, worker[t].to)
      /\ UNCHANGED <<room, log, since, wire, lost>>
  BY DEF RegisterSend, histVars
<1>2. PICK s \in Members : s = worker[t].to
  BY <1>1 DEF IInv, LocalsInv
<1>3. session[s].sendEvent = <<>>
  BY <1>1, <1>2 DEF SendRightInv, RightOf, Uses, IInv, EventInv
<1>4. /\ Path(s)' = Path(s)
      /\ \A r \in Members : r # s => session'[r] = session[r]
  <2>1. CASE session[s].connected
    <3>1. PICK p : p = [session[s] EXCEPT !.sendEvent = session[s].sendQueue,
                                          !.sendQueue = <<>>, !.io = TRUE]
      OBVIOUS
    <3>2. session' = [session EXCEPT ![s] = p]
      BY <1>t, <1>2, <2>1, <3>1 DEF RegisterSend, Types
    <3>3. p.sendEvent = session[s].sendQueue /\ p.sendQueue = <<>>
      <4>1. session[s] \in SendPath
        BY <1>t, PathTypes
      <4> QED BY <3>1, <4>1 DEF SendPath
    <3>4. /\ session'[s] = p
          /\ \A r \in Members : r # s => session'[r] = session[r]
      BY <1>t, <3>2 DEF Types
    <3> DEFINE a == wire[s]
               c == session[s].sendQueue
    <3>5. Path(s)' = (a \o c) \o <<>> /\ Path(s) = (a \o <<>>) \o c
      BY <1>1, <1>3, <3>3, <3>4 DEF Path
    <3>6. a \in Seq(Packets) /\ c \in Seq(Packets)
      BY <1>t, PathTypes
    <3> HIDE DEF a, c
    <3>7. a \o <<>> = a /\ (a \o c) \o <<>> = a \o c
      <4>1. a \o c \in Seq(Packets)
        BY <3>6, ConcatIndex
      <4> QED BY <3>6, <4>1, EmptyConcat
    <3> QED BY <3>4, <3>5, <3>7
  <2>2. CASE ~session[s].connected
    <3>1. session' = session
      BY <1>2, <2>2 DEF RegisterSend
    <3> QED BY <1>1, <3>1, PathsUnchanged
  <2> QED BY <2>1, <2>2
<1>5. \A u \in Threads : /\ worker'[u].todo = worker[u].todo
                         /\ worker'[u].packet = worker[u].packet
  BY <1>1, ReturnLocals
<1> QED BY <1>1, <1>4, <1>5, MoveKeepsDue

\* Something is lost.
LEMMA SendRefusedDue ==
  ASSUME IInv, DueInv, NEW t \in Threads, SendRefused(t)
  PROVE  DueInv'
<1>t. Types
  BY DEF IInv
<1>1. /\ worker[t].pc = "RegisterSend" /\ ReturnFrom(t, worker[t].to)
      /\ UNCHANGED <<room, log, since, wire>>
  BY DEF SendRefused
<1>2. PICK s \in Members : s = worker[t].to
  BY <1>1 DEF IInv, LocalsInv
<1>3. \A r \in Members : r # s => session'[r] = session[r]
  BY <1>t, <1>2 DEF SendRefused, Types
<1>4. /\ lost'[s] # <<>>
      /\ \A r \in Members : r # s => lost'[r] = lost[r]
  <2>1. session[s].sendQueue # <<>>
    BY <1>1, <1>2 DEF IInv, EventInv
  <2>2. lost' = [lost EXCEPT ![s] = lost[s] \o session[s].sendQueue]
    BY <1>2 DEF SendRefused
  <2>3. lost[s] \in Seq(Packets) /\ session[s].sendQueue \in Seq(Packets)
    BY <1>t, PathTypes
  <2>4. lost[s] \o session[s].sendQueue # <<>>
    BY <2>1, <2>3
  <2> QED BY <1>t, <2>2, <2>4 DEF Types
<1>5. \A u \in Threads : /\ worker'[u].todo = worker[u].todo
                         /\ worker'[u].packet = worker[u].packet
  BY <1>1, ReturnLocals
<1> QED BY <1>1, <1>3, <1>4, <1>5, MoveKeepsDue

\* The kernel's packets come to the wire.
LEMMA DispatchSendDue ==
  ASSUME IInv, DueInv, NEW t \in Threads, NEW s \in Members,
         DispatchSend(t, s)
  PROVE  DueInv'
<1>t. Types
  BY DEF IInv
<1>1. worker[t].todo = {} /\ UNCHANGED <<room, log, since, lost>>
  BY DEF DispatchSend, Idle
<1>2. /\ worker'[t].todo = {}
      /\ \A u \in Threads : u # t => worker'[u] = worker[u]
  <2>1. PICK w : w = [Idle EXCEPT !.pc = "ProcessSend", !.to = s]
    OBVIOUS
  <2>2. w.todo = {}
    BY <2>1 DEF Idle
  <2>3. worker' = [worker EXCEPT ![t] = w]
    BY <2>1 DEF DispatchSend
  <2> QED BY <1>t, <2>2, <2>3 DEF Types
<1>3. /\ session'[s].sendEvent = <<>>
      /\ session'[s].sendQueue = session[s].sendQueue
      /\ \A r \in Members : r # s => session'[r] = session[r]
  <2>1. PICK p : p = [session[s] EXCEPT !.sendEvent = <<>>, !.io = FALSE]
    OBVIOUS
  <2>2. p.sendEvent = <<>> /\ p.sendQueue = session[s].sendQueue
    <3>1. session[s] \in SendPath
      BY <1>t, PathTypes
    <3> QED BY <2>1, <3>1 DEF SendPath
  <2>3. session' = [session EXCEPT ![s] = p]
    BY <1>t, <2>1 DEF DispatchSend, Types
  <2> QED BY <1>t, <2>2, <2>3 DEF Types
<1>4. /\ wire'[s] = wire[s] \o session[s].sendEvent
      /\ \A r \in Members : r # s => wire'[r] = wire[r]
  BY <1>t DEF DispatchSend, Types
<1>5. Path(s)' = Path(s)
  <2> DEFINE a == wire[s] \o session[s].sendEvent
  <2>1. a \in Seq(Packets)
    BY <1>t, PathTypes, ConcatIndex
  <2>2. /\ Path(s)' = (a \o <<>>) \o session[s].sendQueue
        /\ Path(s) = a \o session[s].sendQueue
    BY <1>3, <1>4 DEF Path
  <2> HIDE DEF a
  <2> QED BY <2>1, <2>2, EmptyConcat
<1>6. \A u \in Threads :
        /\ worker'[u].todo = worker[u].todo
        /\ worker[u].todo # {} => worker'[u].packet = worker[u].packet
  BY <1>1, <1>2
<1> QED BY <1>1, <1>3, <1>4, <1>5, <1>6, MoveKeepsDue

\* Something is lost, or the whole event was transmitted.
LEMMA Send0Due ==
  ASSUME IInv, DueInv, NEW t \in Threads, NEW s \in Members, Send0(t, s)
  PROVE  DueInv'
<1>t. Types
  BY DEF IInv
<1>1. UNCHANGED <<room, worker, log, since>>
  BY DEF Send0
<1> DEFINE event == session[s].sendEvent
<1>2. PICK k \in 0..Len(event) :
        /\ wire' = [wire EXCEPT ![s] = @ \o SubSeq(event, 1, k)]
        /\ lost' = [lost EXCEPT ![s] = @ \o SubSeq(event, k + 1, Len(event))]
  BY DEF Send0
<1>3. /\ session'[s].sendEvent = <<>>
      /\ session'[s].sendQueue = session[s].sendQueue
      /\ \A r \in Members : r # s => session'[r] = session[r]
  <2>1. PICK p : p = [session[s] EXCEPT !.sendEvent = <<>>, !.io = FALSE,
                                        !.connected = FALSE]
    OBVIOUS
  <2>2. p.sendEvent = <<>> /\ p.sendQueue = session[s].sendQueue
    <3>1. session[s] \in SendPath
      BY <1>t, PathTypes
    <3> QED BY <2>1, <3>1 DEF SendPath
  <2>3. session' = [session EXCEPT ![s] = p]
    BY <1>t, <2>1 DEF Send0, Types
  <2> QED BY <1>t, <2>2, <2>3 DEF Types
<1>4. /\ event \in Seq(Packets) /\ wire[s] \in Seq(Packets)
      /\ lost[s] \in Seq(Packets) /\ session[s].sendQueue \in Seq(Packets)
  BY <1>t, PathTypes
<1>5. /\ wire'[s] = wire[s] \o SubSeq(event, 1, k)
      /\ lost'[s] = lost[s] \o SubSeq(event, k + 1, Len(event))
      /\ \A r \in Members : r # s => wire'[r] = wire[r] /\ lost'[r] = lost[r]
  BY <1>t, <1>2 DEF Types
<1>6. ASSUME lost'[s] = <<>> PROVE lost[s] = <<>> /\ Path(s)' = Path(s)
  <2> DEFINE rest == SubSeq(event, k + 1, Len(event))
  <2>1. rest \in Seq(Packets) /\ Len(rest) = Len(event) - k
    BY <1>4
  <2>2. lost[s] \o rest = <<>>
    BY <1>5, <1>6
  <2> HIDE DEF rest
  <2>3. lost[s] = <<>> /\ Len(rest) = 0
    <3>1. Len(lost[s] \o rest) = Len(lost[s]) + Len(rest)
      BY <1>4, <2>1, ConcatIndex
    <3>2. Len(lost[s]) \in Nat /\ Len(rest) \in Nat
      BY <1>4, <2>1
    <3>3. Len(lost[s]) = 0 /\ Len(rest) = 0
      BY <2>2, <3>1, <3>2
    <3> QED BY <1>4, <3>3
  <2> HIDE DEF event
  <2>4. k = Len(event)
    BY <1>4, <2>1, <2>3
  <2>5. SubSeq(event, 1, k) = event
    BY <1>4, <2>4
  <2> DEFINE a == wire[s] \o event
  <2>6. a \in Seq(Packets)
    BY <1>4, ConcatIndex
  <2>7. /\ Path(s)' = (a \o <<>>) \o session[s].sendQueue
        /\ Path(s) = a \o session[s].sendQueue
    BY <1>3, <1>5, <2>5 DEF Path, event
  <2> HIDE DEF a
  <2> QED BY <2>3, <2>6, <2>7, EmptyConcat
<1> QED BY <1>1, <1>3, <1>5, <1>6, MoveKeepsDue

\* The end of ProcessSend moves no packet.
LEMMA ProcessSendDue ==
  ASSUME IInv, DueInv, NEW t \in Threads, ProcessSend(t)
  PROVE  DueInv'
<1>t. Types
  BY DEF IInv
<1>1. /\ worker[t].pc = "ProcessSend"
      /\ UNCHANGED <<room, log, since, wire, lost>>
  BY DEF ProcessSend, histVars
<1>2. PICK s \in Members : s = worker[t].to
  BY <1>1 DEF IInv, LocalsInv
<1>3. worker[t].todo = {}
  BY <1>1, NoPacket
<1>4. /\ worker'[t].todo = {}
      /\ \A u \in Threads : u # t => worker'[u] = worker[u]
  <2>1. CASE session[s].sendQueue = <<>>
    <3>1. worker' = [worker EXCEPT ![t] = Idle]
      BY <1>2, <2>1 DEF ProcessSend
    <3> QED BY <1>t, <3>1 DEF Types, Idle
  <2>2. CASE session[s].sendQueue # <<>>
    <3>1. worker' = [worker EXCEPT ![t].pc = "RegisterSend"]
      BY <1>2, <2>2 DEF ProcessSend
    <3> QED BY <1>t, <1>3, <3>1 DEF Types
  <2> QED BY <2>1, <2>2
<1>5. \A r \in Members :
        /\ session'[r].sendEvent = session[r].sendEvent
        /\ session'[r].sendQueue = session[r].sendQueue
  <2>1. \/ session' = session
        \/ session' = [session EXCEPT ![s].sendRegistered = FALSE]
    BY <1>2 DEF ProcessSend
  <2>2. CASE session' = [session EXCEPT ![s].sendRegistered = FALSE]
    BY <1>t, <2>2 DEF Types
  <2> QED BY <2>1, <2>2
<1>6. \A r \in Members : Path(r)' = Path(r)
  BY <1>1, <1>5, PathsUnchanged
<1>7. room \subseteq Members
  BY <1>t DEF Types
<1>8. \A u \in Threads :
        /\ worker'[u].todo = worker[u].todo
        /\ worker[u].todo # {} => worker'[u].packet = worker[u].packet
  BY <1>3, <1>4
<1> QED BY <1>1, <1>6, <1>7, <1>8, QuietKeepsDue

-----------------------------------------------------------------------------
\* With IInv, the right to send and what is due are inductive.
LEMMA NextRightAndDue ==
  IInv /\ SendRightInv /\ DueInv /\ [Next]_vars => SendRightInv' /\ DueInv'
<1> SUFFICES ASSUME IInv, SendRightInv, DueInv, [Next]_vars
             PROVE  SendRightInv' /\ DueInv'
  OBVIOUS
<1>1. CASE \E t \in Threads : Step(t)
  <2>1. PICK t \in Threads : Step(t)
    BY <1>1
  <2>2. SendRightInv'
    BY <2>1, EnterRight, BroadcastRight, SendRight, EndSendRight,
       RegisterSendRight, SendRefusedRight, ProcessSendRight DEF Step
  <2>3. DueInv'
    BY <2>1, EnterDue, BroadcastDue, SendDue, EndSendDue,
       RegisterSendDue, SendRefusedDue, ProcessSendDue DEF Step
  <2> QED BY <2>2, <2>3
<1>2. CASE \E t \in Threads, s \in Members :
             HandleEnterGame(t, s) \/ HandleChat(t, s)
  <2>1. PICK t \in Threads, s \in Members :
          HandleEnterGame(t, s) \/ HandleChat(t, s)
    BY <1>2
  <2>2. PICK label \in {"Enter", "Broadcast"}, k \in {0, said + 1} :
          HandlePacket(t, s, label, k)
    BY <2>1 DEF HandleEnterGame, HandleChat
  <2>3. UNCHANGED <<room, holder, session, histVars>>
    BY <2>1 DEF HandleEnterGame, HandleChat
  <2> QED BY <2>2, <2>3, HandlerRight, HandlerDue
<1>3. CASE \E t \in Threads, s \in Members :
             Recv0(t, s) \/ DispatchSend(t, s) \/ Send0(t, s)
  <2>1. PICK t \in Threads, s \in Members :
          Recv0(t, s) \/ DispatchSend(t, s) \/ Send0(t, s)
    BY <1>3
  <2>2. SendRightInv'
    BY <2>1, Recv0Right, DispatchSendRight, Send0Right
  <2>3. DueInv'
    BY <2>1, Recv0Due, DispatchSendDue, Send0Due
  <2> QED BY <2>2, <2>3
<1>4. CASE UNCHANGED vars
  <2>1. UNCHANGED <<room, holder, session, worker, log, since, wire, lost>>
    BY <1>4 DEF vars, histVars
  <2>2. SendRightInv'
    BY <2>1 DEF SendRightInv, RightOf, Uses
  <2>3. \A r \in Members : Path(r)' = Path(r)
    BY <2>1, PathsUnchanged
  <2>4. DueInv'
    BY <2>1, <2>3, QuietKeepsDue DEF IInv, Types
  <2> QED BY <2>2, <2>4
<1> QED BY <1>1, <1>2, <1>3, <1>4 DEF Next, Quiescent

(* The inductive invariant of what members get: besides IInv, who has the  *)
(* right to send to a session, and for each member which part of the log   *)
(* its path has (Room.cpp:8-27, Session.cpp:60-72, 148-196, 256-276).      *)
THEOREM RightAndDue == Spec => [](IInv /\ SendRightInv /\ DueInv)
<1>1. Init => SendRightInv /\ DueInv
  BY InitRight DEF Init, DueInv
<1>2. IInv /\ SendRightInv /\ DueInv /\ [Next]_vars
        => SendRightInv' /\ DueInv'
  BY NextRightAndDue
<1> QED BY <1>1, <1>2, InitIInv, NextIInv, PTL DEF Spec

(* A member for which no send has failed gets every chat since it entered, *)
(* once and in order, and one S_ENTER_GAME, for any number of threads,     *)
(* members, chats and failures                                             *)
(* (Room.cpp:8-27, Session.cpp:60-72, 148-196, 256-276).                   *)
THEOREM NothingMissed == Spec => []NoChatMissed
<1>1. IInv /\ DueInv => NoChatMissed
  <2> SUFFICES ASSUME IInv, DueInv, NEW s \in room, lost[s] = <<>>
               PROVE  LET owed == IF OwesChat(s) THEN 1 ELSE 0
                          due == SubSeq(log, since[s] + 1, Len(log) - owed)
                      IN IF OwesReply(s)
                           THEN Path(s) = due
                           ELSE \E k \in 0..Len(due) :
                                  Path(s) = Inserted(due, k, <<s, 0>>)
    BY DEF NoChatMissed
  <2> DEFINE owed == IF OwesChat(s) THEN 1 ELSE 0
             due == SubSeq(log, since[s] + 1, Len(log) - owed)
             m == since[s]
             n == Due(s)
  <2>1. /\ s \in Members /\ log \in Seq(Packets) /\ m \in Nat
        /\ Path(s) \in Seq(Packets) /\ <<s, 0>> \in Packets
    <3>1. s \in Members /\ log \in Seq(Packets) /\ m \in Nat
      BY DEF IInv, Types
    <3>2. Path(s) \in Seq(Packets)
      BY <3>1, PathTypes, ConcatIndex DEF Path, IInv
    <3> QED BY <3>1, <3>2, Apart DEF Packets
  <2>2. DueOf(s)
    BY DEF DueInv
  <2>3. n = Len(log) - m - owed /\ n \in Nat
    BY <2>2 DEF DueOf, Due
  <2>4. Len(log) \in Nat /\ owed \in {0, 1}
    BY <2>1
  <2> HIDE DEF n, m, owed
  <2>5. m + n <= Len(log) /\ m + n = Len(log) - owed
    BY <2>1, <2>3, <2>4
  <2>6. due = SubSeq(log, m + 1, m + n)
    BY <2>5 DEF m
  <2> HIDE DEF due
  <2>7. CASE OwesReply(s)
    <3>1. AllOf(Path(s), log, m, n)
      BY <2>2, <2>7 DEF DueOf, m, n
    <3>2. Path(s) = due
      BY <2>1, <2>3, <2>5, <2>6, <3>1, AllOfIsPart
    <3> QED BY <2>7, <3>2 DEF due, owed
  <2>8. CASE ~OwesReply(s)
    <3>1. PICK k \in 0..n : AllAround(Path(s), log, m, n, k, <<s, 0>>)
      BY <2>2, <2>8 DEF DueOf, m, n
    <3>2. Len(due) = n /\ Path(s) = Inserted(due, k, <<s, 0>>)
      <4>1. PICK w \in Seq(Packets), l \in Seq(Packets), x \in Packets :
              w = Path(s) /\ l = log /\ x = <<s, 0>>
        BY <2>1
      <4>2. AllAround(w, l, m, n, k, x) /\ m + n <= Len(l)
        BY <2>5, <3>1, <4>1
      <4>3. m \in Nat /\ n \in Nat
        BY <2>1, <2>3
      <4>4. /\ Len(SubSeq(l, m + 1, m + n)) = n
            /\ w = Inserted(SubSeq(l, m + 1, m + n), k, x)
        BY <4>2, <4>3, AllAroundIsInserted
      <4> QED BY <2>6, <4>1, <4>4
    <3>3. k \in 0..Len(due)
      BY <3>2
    <3> QED BY <2>8, <3>2, <3>3 DEF due, owed
  <2> QED BY <2>7, <2>8
<1> QED BY <1>1, RightAndDue, PTL

(* Workers never wait for the room's lock and the sessions' in a circle,   *)
(* for any number of them (Room.cpp:10, 22, Session.cpp:62, 270).          *)
THEOREM WaitingEnds == Spec => []NoCircularWait
<1>1. IInv /\ SendRightInv => NoCircularWait
  <2> SUFFICES ASSUME IInv, SendRightInv,
                      NEW t \in Threads, NEW u \in Threads,
                      NEW v \in Threads, NEW w \in Threads,
                      WaitsFor(t, u), WaitsFor(u, v), WaitsFor(v, w)
               PROVE  FALSE
    BY DEF NoCircularWait
  <2>1. ASSUME NEW x \in Threads, NEW y \in Threads, NEW s \in Members,
               holder[s] = x, WaitsFor(x, y)
        PROVE  FALSE
    <3>1. worker[x].pc = "RegisterSend"
      BY <2>1 DEF SendRightInv, RightOf
    <3> QED BY <2>1, <3>1 DEF WaitsFor, Wants
  <2>2. holder[RoomLock] = u /\ worker[u].pc \in {"Send", "RegisterSend"}
    <3>1. PICK l \in Locks : holder[l] = u
      BY DEF WaitsFor
    <3>2. l = RoomLock
      BY <2>1, <3>1 DEF Locks
    <3> QED BY <3>1, <3>2 DEF IInv, RoomLockInv
  <2>3. PICK s \in Members : holder[s] = v
    <3>1. PICK l \in Locks : holder[l] = v /\ Wants(u, l)
      BY DEF WaitsFor
    <3>2. worker[u].todo # {} /\ l = NextMember(u)
      BY <2>2, <3>1 DEF Wants
    <3>3. l \in Members
      BY <3>2, NextMemberIsLeft DEF IInv, Types
    <3> QED BY <3>1, <3>3
  <2> QED BY <2>1, <2>3
<1> QED BY <1>1, RightAndDue, PTL

(* What is queued for a connected session is with a pending WSASend, or    *)
(* some thread is in its send path that waits for no lock.                 *)
QueueServed ==
  \A s \in Members :
    session[s].connected /\ session[s].sendQueue # <<>> =>
      \/ session[s].io
      \/ \E t \in Threads : Uses(t, s) /\ \A u \in Threads : ~WaitsFor(t, u)

(* A queue that is not empty always has somebody who sends it, as long as  *)
(* the session is connected (Session.cpp:60-72, 148-196, 256-276).         *)
THEOREM SomebodySends == Spec => []QueueServed
<1>1. IInv /\ SendRightInv => QueueServed
  <2> SUFFICES ASSUME IInv, SendRightInv, NEW s \in Members,
                      session[s].connected, session[s].sendQueue # <<>>,
                      ~session[s].io
               PROVE  \E t \in Threads :
                        Uses(t, s) /\ \A u \in Threads : ~WaitsFor(t, u)
    BY DEF QueueServed
  <2>1. PICK t \in Threads : Uses(t, s)
    BY DEF SendRightInv, RightOf
  <2>2. ASSUME NEW u \in Threads, WaitsFor(t, u) PROVE FALSE
    <3>1. PICK l \in Locks : holder[l] = u /\ Wants(t, l)
      BY <2>2 DEF WaitsFor
    <3>2. worker[t].pc = "ProcessSend" /\ l = s
      BY <2>1, <3>1 DEF Uses, Wants
    <3>3. worker[u].pc = "RegisterSend" /\ Uses(u, s)
      BY <3>1, <3>2 DEF SendRightInv, RightOf, Uses
    <3>4. u = t
      BY <2>1, <3>3 DEF SendRightInv, RightOf
    <3> QED BY <3>2, <3>3, <3>4
  <2> QED BY <2>1, <2>2
<1> QED BY <1>1, RightAndDue, PTL
=============================================================================
