------------------------- MODULE ServiceStartProofs -------------------------
(***************************************************************************)
(* Proofs about ServiceStart, for any number of accept events, workers and *)
(* clients.  An accept event goes from StartAccept or a worker to the      *)
(* kernel and to one worker again; the connection that is with it has left *)
(* the backlog and has not been dealt with.  No completion is lost,        *)
(* because StartListen registers the listening socket with the port before *)
(* it listens (ListenInv), so what is completed comes to a worker, and     *)
(* what a worker gives up stays in its hands until it is closed (HandsInv).*)
(***************************************************************************)
EXTENDS ServiceStart, TLAPS

Taken == {"completed", "lost", "handled"}

\* An accept event that a connection has come to has a client.
ClientInv ==
  \A e \in Slots : accept[e].state \in Taken => accept[e].client \in Clients

\* A worker runs only after StartAccept, and has an accept event of its own
\* from Dispatch until it posts it again.
WorkerInv ==
  /\ main \in {"StartListen", "StartAccept"} => running = {}
  /\ \A w \in Workers : serving[w] # NoSlot =>
       /\ w \in running
       /\ accept[serving[w]].state \in {"handled", "none"}
  /\ \A v, w \in Workers : serving[v] = serving[w] /\ v # w
                             => serving[v] = NoSlot

\* Where a connection is, it is nowhere else.
PlaceInv ==
  \A c \in Clients :
    /\ connect[c] \in {"new", "pending"} =>
         Holding(c) = {} /\ c \notin backlog \cup served \cup dropped
    /\ \A d, e \in Holding(c) : d = e
    /\ Holding(c) # {} => c \notin backlog \cup served \cup dropped
    /\ c \in backlog => c \notin served \cup dropped
    /\ c \in served => c \notin dropped
    /\ Established(c) <=> \/ c \in backlog \cup served \cup dropped
                         \/ Holding(c) # {}

\* The socket that listens is registered with the port.
ListenInv ==
  /\ "Listen" \in done => "RegisterSocket" \in done
  /\ backlog # {} => "Listen" \in done

\* What is dequeued, and what is given up and still open, has a worker.
HandsInv ==
  /\ \A e \in Slots :
       /\ accept[e].state # "lost"
       /\ accept[e].state = "handled" => \E w \in Workers : serving[w] = e
  /\ \A c \in dropped \ closed :
       \E w \in Workers :
         /\ serving[w] \in Slots
         /\ accept[serving[w]].state = "none"
         /\ accept[serving[w]].client = c

Places == ClientInv /\ WorkerInv /\ PlaceInv /\ HandsInv

IInv == TypeOK /\ ListenInv /\ Places

-----------------------------------------------------------------------------
\* 0 is no accept event.
LEMMA NoSlotIsNone == NoSlot \notin Slots
  BY StartAssumption DEF NoSlot, Slots

\* IInv holds initially.
LEMMA InitIInv == Init => IInv
<1> SUFFICES ASSUME Init PROVE IInv
  OBVIOUS
<1>1. TypeOK
  BY DEF Init, TypeOK
<1>2. ClientInv /\ WorkerInv
  BY DEF Init, ClientInv, WorkerInv, Taken
<1>3. PlaceInv
  BY DEF Init, PlaceInv, Holding, Established
<1>4. ListenInv /\ HandsInv
  BY DEF Init, ListenInv, HandsInv
<1> QED BY <1>1, <1>2, <1>3, <1>4 DEF IInv, Places, Places

-----------------------------------------------------------------------------
\* What RegisterAccept does to the accept events.
LEMMA RegisterAcceptTypes ==
  ASSUME TypeOK, NEW e \in Slots, RegisterAccept(e)
  PROVE  /\ accept' \in [Slots -> [state : {"none", "posted", "completed",
                                            "lost", "handled"},
                                   client : Clients \cup {NoClient}]]
         /\ closed' \subseteq dropped
  BY DEF TypeOK, RegisterAccept

\* Every step keeps TypeOK.
LEMMA NextTypeOK == IInv /\ [Next]_vars => TypeOK'
<1> SUFFICES ASSUME IInv, [Next]_vars PROVE TypeOK'
  OBVIOUS
<1>t. TypeOK /\ ClientInv
  BY DEF IInv, Places, Places
<1> USE <1>t DEF TypeOK, serverVars, clientVars
<1>1. CASE Start
  BY <1>1 DEF Start
<1>2. CASE StartAccept
  <2>1. ASSUME NEW e \in Slots, RegisterAccept(e),
               main' = IF e + 1 \in Slots THEN main ELSE "Launch"
        PROVE  TypeOK'
    BY <1>2, <2>1, RegisterAcceptTypes DEF StartAccept
  <2>2. CASE NullSession /\ UNCHANGED <<accept, closed>>
    BY <1>2, <2>2 DEF StartAccept, NullSession
  <2> QED BY <1>2, <2>1, <2>2 DEF StartAccept
<1>3. ASSUME NEW w \in Workers, Launch(w) PROVE TypeOK'
  BY <1>3 DEF Launch
<1>4. ASSUME NEW c \in Clients, Establish(c) \/ Refuse(c) PROVE TypeOK'
  BY <1>4 DEF Establish, Refuse
<1>5. ASSUME NEW e \in Slots, Complete(e) PROVE TypeOK'
  BY <1>5 DEF Complete
<1>6. ASSUME NEW w \in Workers, NEW e \in Slots, Dispatch(w, e)
      PROVE  TypeOK'
  BY <1>6 DEF Dispatch
<1>7. ASSUME NEW w \in Workers, ProcessAccept(w) PROVE TypeOK'
  <2>1. serving[w] \in Slots
    BY <1>7 DEF ProcessAccept
  <2>2. accept[serving[w]].client \in Clients
    BY <1>7, <2>1 DEF ProcessAccept, ClientInv, Taken
  <2>3. served' \subseteq Clients /\ dropped' \subseteq Clients
    BY <1>7, <2>2 DEF ProcessAccept
  <2>4. nodelay' \subseteq Clients /\ dropped \subseteq dropped'
    BY <1>7, <2>2 DEF ProcessAccept
  <2>5. accept' = [accept EXCEPT ![serving[w]].state = "none"]
    BY <1>7 DEF ProcessAccept
  <2> QED BY <1>7, <2>1, <2>3, <2>4, <2>5 DEF ProcessAccept
<1>8. ASSUME NEW w \in Workers, RegisterAgain(w) PROVE TypeOK'
  <2>1. serving[w] \in Slots
    BY <1>8 DEF RegisterAgain
  <2>2. CASE RegisterAccept(serving[w]) /\ UNCHANGED main
               /\ serving' = [serving EXCEPT ![w] = NoSlot]
    BY <1>8, <2>1, <2>2, RegisterAcceptTypes DEF RegisterAgain
  <2>3. CASE NullSession /\ UNCHANGED <<accept, closed, serving>>
    BY <1>8, <2>3 DEF RegisterAgain, NullSession
  <2> QED BY <1>8, <2>2, <2>3 DEF RegisterAgain
<1>9. CASE Connect
  BY <1>9 DEF Connect
<1>10. CASE LaunchClient
  BY <1>10 DEF LaunchClient
<1>11. ASSUME NEW c \in Clients, Client(c) PROVE TypeOK'
  BY <1>11 DEF Client, ProcessConnect, Recv0
<1>12. CASE UNCHANGED vars
  BY <1>12 DEF vars
<1> QED
  BY <1>1, <1>2, <1>3, <1>4, <1>5, <1>6, <1>7, <1>8, <1>9, <1>10, <1>11,
     <1>12 DEF Next, Serve, Quiescent

\* StartListen registers the socket before it listens.
LEMMA NextListenInv == IInv /\ [Next]_vars => ListenInv'
<1> SUFFICES ASSUME IInv, [Next]_vars PROVE ListenInv'
  OBVIOUS
<1>t. ListenInv
  BY DEF IInv
<1>1. CASE Start
  <2>1. PICK i \in 1..7 :
          /\ \A j \in 1..(i - 1) : StartListen[j] \in done
          /\ done' = done \cup {StartListen[i]} \/ done' = done
    BY <1>1 DEF Start, StartListen
  <2>2. StartListen[i] = "Listen" => i = 7
    BY DEF StartListen
  <2>3. StartListen[i] = "Listen" => StartListen[5] \in done
    BY <2>1, <2>2
  <2>4. StartListen[5] = "RegisterSocket"
    BY DEF StartListen
  <2> QED  BY <1>t, <1>1, <2>1, <2>3, <2>4 DEF ListenInv, Start
<1>2. ASSUME NEW c \in Clients, Establish(c) PROVE ListenInv'
  BY <1>t, <1>2 DEF Establish, serverVars, ListenInv
<1>3. ASSUME NEW e \in Slots, Complete(e) PROVE ListenInv'
  BY <1>t, <1>3 DEF Complete, ListenInv
<1>4. CASE UNCHANGED <<done, backlog>>
  BY <1>t, <1>4 DEF ListenInv
<1> QED
  BY <1>1, <1>2, <1>3, <1>4
     DEF Next, StartAccept, Launch, Refuse, Serve, Dispatch, ProcessAccept,
         RegisterAgain, Connect, LaunchClient, Client, ProcessConnect, Recv0,
         Quiescent, vars, serverVars, clientVars

-----------------------------------------------------------------------------
\* A step that leaves these variables alone keeps who has what.
LEMMA KeepsPlaces ==
  ASSUME IInv,
         UNCHANGED <<accept, serving, served, dropped, closed, backlog>>,
         running \subseteq running',
         main' \in {"StartListen", "StartAccept"} => running' = {},
         \A c \in Clients :
           /\ connect'[c] \in {"new", "pending"} =>
                connect[c] \in {"new", "pending"}
           /\ Established(c)' <=> Established(c)
  PROVE  Places'
<1>1. \A c \in Clients : Holding(c)' = Holding(c)
  BY DEF Holding
<1>2. ClientInv'
  BY DEF IInv, Places, ClientInv
<1>3. WorkerInv'
  BY DEF IInv, Places, WorkerInv
<1>4. PlaceInv'
  BY <1>1 DEF IInv, Places, PlaceInv
<1>5. HandsInv'
  BY DEF IInv, Places, HandsInv
<1> QED BY <1>2, <1>3, <1>4, <1>5 DEF Places

\* Posting an accept event that nobody else has keeps who has what.
LEMMA RegisterKeepsPlaces ==
  ASSUME IInv, NEW e \in Slots, accept[e].state = "none", RegisterAccept(e),
         \A w \in Workers : serving'[w] # NoSlot => serving'[w] # e,
         \A w \in Workers :
           \/ serving'[w] = serving[w]
           \/ serving[w] = e /\ serving'[w] = NoSlot,
         main' \in {"StartListen", "StartAccept"} => running = {},
         UNCHANGED <<running, served, dropped, connect, backlog>>
  PROVE  Places'
<1>t. accept \in [Slots -> [state : {"none", "posted", "completed", "lost",
                                     "handled"},
                            client : Clients \cup {NoClient}]]
      /\ serving \in [Workers -> Slots \cup {NoSlot}]
  BY DEF IInv, TypeOK
<1>1. /\ accept'[e] = [state |-> "posted", client |-> NoClient]
      /\ \A d \in Slots : d # e => accept'[d] = accept[d]
  BY <1>t DEF RegisterAccept
<1>2. \A c \in Clients : Holding(c)' = Holding(c)
  BY <1>1 DEF Holding
<1>3. ClientInv'
  BY <1>1 DEF IInv, Places, ClientInv, Taken
<1>4. WorkerInv'
  BY <1>t, <1>1 DEF IInv, Places, WorkerInv
<1>5. PlaceInv'
  BY <1>2 DEF IInv, Places, PlaceInv, Established
<1>6. HandsInv'
  <2>1. ASSUME NEW d \in Slots
        PROVE  /\ accept'[d].state # "lost"
               /\ accept'[d].state = "handled" =>
                    \E w \in Workers : serving'[w] = d
    <3>1. CASE d = e
      BY <1>1, <3>1
    <3>2. CASE d # e
      BY <1>1, <3>2, NoSlotIsNone DEF IInv, Places, HandsInv
    <3> QED BY <3>1, <3>2
  <2>2. ASSUME NEW c \in dropped' \ closed'
        PROVE  \E w \in Workers :
                 /\ serving'[w] \in Slots
                 /\ accept'[serving'[w]].state = "none"
                 /\ accept'[serving'[w]].client = c
    <3>1. c \in dropped \ closed /\ accept[e].client # c
      BY <2>2 DEF RegisterAccept
    <3>2. PICK w \in Workers :
            /\ serving[w] \in Slots
            /\ accept[serving[w]].state = "none"
            /\ accept[serving[w]].client = c
      BY <3>1 DEF IInv, Places, HandsInv
    <3>3. serving'[w] = serving[w] /\ serving[w] # e
      BY <3>1, <3>2, NoSlotIsNone
    <3> QED BY <1>1, <3>2, <3>3
  <2> QED BY <2>1, <2>2 DEF HandsInv
<1> QED BY <1>3, <1>4, <1>5, <1>6 DEF Places

\* The kernel takes a connection from the backlog.
LEMMA CompleteKeepsPlaces ==
  ASSUME IInv, NEW e \in Slots, Complete(e)
  PROVE  Places'
<1>t. /\ accept \in [Slots -> [state : {"none", "posted", "completed",
                                        "lost", "handled"},
                               client : Clients \cup {NoClient}]]
      /\ serving \in [Workers -> Slots \cup {NoSlot}]
      /\ backlog \subseteq Clients
  BY DEF IInv, TypeOK
<1>1. PICK b \in backlog :
        /\ accept' = [accept EXCEPT ![e] =
             [state |-> IF "RegisterSocket" \in done THEN "completed"
                                                     ELSE "lost",
              client |-> b]]
        /\ backlog' = backlog \ {b}
  BY DEF Complete
<1>0. "RegisterSocket" \in done
  BY DEF Complete, IInv, ListenInv
<1>2. /\ accept'[e].state = "completed" /\ accept'[e].client = b
      /\ \A d \in Slots : d # e => accept'[d] = accept[d]
  BY <1>t, <1>0, <1>1
<1>3. UNCHANGED <<main, running, serving, served, dropped, closed, connect>>
  BY DEF Complete, clientVars
<1>4. Holding(b) = {} /\ Holding(b)' = {e}
  BY <1>t, <1>1, <1>2 DEF IInv, Places, PlaceInv, Holding
<1>5. \A c \in Clients : c # b => Holding(c)' = Holding(c)
  BY <1>1, <1>2 DEF Complete, Holding
<1>6. ClientInv'
  BY <1>t, <1>1, <1>2 DEF IInv, Places, ClientInv, Taken
<1>7. WorkerInv'
  BY <1>t, <1>2, <1>3 DEF Complete, IInv, Places, WorkerInv
<1>8. PlaceInv'
  BY <1>1, <1>3, <1>4, <1>5 DEF IInv, Places, PlaceInv, Established
<1>9. HandsInv'
  <2>1. accept[e].state = "posted"
    BY DEF Complete
  <2> QED BY <1>2, <1>3, <2>1 DEF IInv, Places, HandsInv
<1> QED BY <1>6, <1>7, <1>8, <1>9 DEF Places

\* A worker takes a completion.
LEMMA DispatchKeepsPlaces ==
  ASSUME IInv, NEW w \in Workers, NEW e \in Slots, Dispatch(w, e)
  PROVE  Places'
<1>t. /\ accept \in [Slots -> [state : {"none", "posted", "completed",
                                        "lost", "handled"},
                               client : Clients \cup {NoClient}]]
      /\ serving \in [Workers -> Slots \cup {NoSlot}]
  BY DEF IInv, TypeOK
<1>1. /\ accept[e].state = "completed" /\ accept'[e].state = "handled"
      /\ accept'[e].client = accept[e].client
      /\ \A d \in Slots : d # e => accept'[d] = accept[d]
  BY <1>t DEF Dispatch
<1>2. \A c \in Clients : Holding(c)' = Holding(c)
  BY <1>1 DEF Holding
<1>3. UNCHANGED <<main, running, served, dropped, closed, connect, backlog>>
  BY DEF Dispatch, clientVars
<1>4. ClientInv'
  BY <1>1 DEF IInv, Places, ClientInv, Taken
<1>5. WorkerInv'
  <2>1. \A v \in Workers : serving[v] # e
    BY <1>1, NoSlotIsNone DEF IInv, Places, WorkerInv
  <2>2. w \in running /\ serving' = [serving EXCEPT ![w] = e]
    BY DEF Dispatch
  <2> QED BY <1>t, <1>1, <1>3, <2>1, <2>2 DEF IInv, Places, WorkerInv
<1>6. PlaceInv'
  BY <1>2, <1>3 DEF IInv, Places, PlaceInv, Established
<1>7. HandsInv'
  <2>1. serving' = [serving EXCEPT ![w] = e] /\ serving[w] = NoSlot
    BY DEF Dispatch
  <2>2. ASSUME NEW d \in Slots
        PROVE  /\ accept'[d].state # "lost"
               /\ accept'[d].state = "handled" =>
                    \E v \in Workers : serving'[v] = d
    <3>1. CASE d = e
      BY <1>t, <1>1, <2>1, <3>1
    <3>2. CASE d # e
      BY <1>t, <1>1, <2>1, <3>2, NoSlotIsNone DEF IInv, Places, HandsInv
    <3> QED BY <3>1, <3>2
  <2>3. ASSUME NEW c \in dropped' \ closed'
        PROVE  \E v \in Workers :
                 /\ serving'[v] \in Slots
                 /\ accept'[serving'[v]].state = "none"
                 /\ accept'[serving'[v]].client = c
    <3>1. PICK v \in Workers :
            /\ serving[v] \in Slots
            /\ accept[serving[v]].state = "none"
            /\ accept[serving[v]].client = c
      BY <1>3, <2>3 DEF IInv, Places, HandsInv
    <3>2. serving'[v] = serving[v] /\ serving[v] # e
      BY <1>t, <1>1, <2>1, <3>1, NoSlotIsNone
    <3> QED BY <1>1, <3>1, <3>2
  <2> QED BY <2>2, <2>3 DEF HandsInv
<1> QED BY <1>4, <1>5, <1>6, <1>7 DEF Places

\* A worker serves a connection or gives it up.
LEMMA ProcessAcceptKeepsPlaces ==
  ASSUME IInv, NEW w \in Workers, ProcessAccept(w)
  PROVE  Places'
<1>t. /\ accept \in [Slots -> [state : {"none", "posted", "completed",
                                        "lost", "handled"},
                               client : Clients \cup {NoClient}]]
      /\ serving \in [Workers -> Slots \cup {NoSlot}]
  BY DEF IInv, TypeOK
<1>1. PICK e \in Slots : e = serving[w] /\ accept[e].state = "handled"
  BY <1>t DEF ProcessAccept
<1>2. PICK a \in Clients : a = accept[e].client
  BY <1>1 DEF IInv, Places, ClientInv, Taken
<1>3. /\ accept'[e].state = "none"
      /\ accept'[e].client = a
      /\ \A d \in Slots : d # e => accept'[d] = accept[d]
  BY <1>t, <1>1, <1>2 DEF ProcessAccept
<1>4. \/ served' = served \cup {a} /\ dropped' = dropped
      \/ dropped' = dropped \cup {a} /\ served' = served
  BY <1>1, <1>2 DEF ProcessAccept
<1>5. UNCHANGED <<main, running, serving, closed, connect, backlog>>
  BY DEF ProcessAccept, clientVars
<1>6. e \in Holding(a) /\ Holding(a) = {e}
  BY <1>1, <1>2 DEF IInv, Places, PlaceInv, Holding
<1>7. Holding(a)' = {}
  BY <1>3, <1>6 DEF Holding
<1>8. \A c \in Clients : c # a => Holding(c)' = Holding(c)
  <2>1. \A c \in Clients : c # a => e \notin Holding(c) /\ e \notin Holding(c)'
    BY <1>2, <1>3 DEF Holding
  <2>2. \A c \in Clients, d \in Slots :
          d # e => (d \in Holding(c) <=> d \in Holding(c)')
    BY <1>3 DEF Holding
  <2>3. \A c \in Clients :
          Holding(c) \subseteq Slots /\ Holding(c)' \subseteq Slots
    BY DEF Holding
  <2> HIDE DEF Holding
  <2> QED BY <2>1, <2>2, <2>3
<1>9. ClientInv'
  BY <1>3 DEF IInv, Places, ClientInv, Taken
<1>10. WorkerInv'
  BY <1>t, <1>3, <1>5 DEF IInv, Places, WorkerInv
<1>11. PlaceInv'
  <2>1. connect[a] \notin {"new", "pending"}
          /\ a \notin backlog \cup served \cup dropped
    BY <1>2, <1>6 DEF IInv, Places, PlaceInv
  <2> HIDE DEF Holding
  <2>2. Established(a)
    BY <1>6 DEF IInv, Places, PlaceInv
  <2> QED BY <1>4, <1>5, <1>7, <1>8, <2>1, <2>2
          DEF IInv, Places, PlaceInv, Established
<1>12. HandsInv'
  <2>1. \A c \in dropped' \ closed' : c = a \/ c \in dropped \ closed
    BY <1>4, <1>5
  <2>2. ASSUME NEW c \in dropped' \ closed'
        PROVE  \E v \in Workers :
                 /\ serving'[v] \in Slots
                 /\ accept'[serving'[v]].state = "none"
                 /\ accept'[serving'[v]].client = c
    <3>1. CASE c = a
      BY <1>1, <1>3, <1>5, <3>1
    <3>2. CASE c # a
      BY <1>1, <1>3, <1>5, <2>1, <3>2 DEF IInv, Places, HandsInv
    <3> QED BY <3>1, <3>2
  <2>3. ASSUME NEW d \in Slots
        PROVE  /\ accept'[d].state # "lost"
               /\ accept'[d].state = "handled" =>
                    \E v \in Workers : serving'[v] = d
    BY <1>3, <1>5 DEF IInv, Places, HandsInv
  <2> QED BY <2>2, <2>3 DEF HandsInv
<1> QED BY <1>9, <1>10, <1>11, <1>12 DEF Places

\* Every step keeps IInv.
LEMMA NextIInv == IInv /\ [Next]_vars => IInv'
<1> SUFFICES ASSUME IInv, [Next]_vars
             PROVE  Places'
  BY NextTypeOK, NextListenInv DEF IInv
<1>t. /\ serving \in [Workers -> Slots \cup {NoSlot}]
      /\ connect \in [Clients -> {"new", "pending", "succeeded", "failed",
                                  "receiving", "deaf", "disconnected",
                                  "unconnected"}]
  BY DEF IInv, TypeOK
<1>r. main \in {"StartListen", "StartAccept"} => running = {}
  BY DEF IInv, Places, WorkerInv
<1>1. CASE Start
  BY <1>1, <1>r, KeepsPlaces DEF Start, clientVars, Established
<1>2. CASE StartAccept
  <2>1. ASSUME NEW e \in Slots, accept[e].state = "none", RegisterAccept(e)
        PROVE  Places'
    <3>1. \A w \in Workers : serving[w] = NoSlot
      BY <1>2, <1>r DEF StartAccept, IInv, Places, WorkerInv
    <3> QED BY <1>2, <1>r, <2>1, <3>1, RegisterKeepsPlaces
            DEF StartAccept, clientVars
  <2>2. CASE NullSession /\ UNCHANGED <<accept, closed>>
    BY <1>2, <1>r, <2>2, KeepsPlaces
    DEF StartAccept, NullSession, clientVars, Established
  <2> QED BY <1>2, <2>1, <2>2 DEF StartAccept
<1>3. ASSUME NEW w \in Workers, Launch(w) PROVE Places'
  BY <1>3, KeepsPlaces DEF Launch, clientVars, Established
<1>4. ASSUME NEW c \in Clients, Establish(c) PROVE Places'
  <2>1. /\ UNCHANGED <<main, running, accept, serving, served, dropped>>
        /\ connect[c] = "pending" /\ backlog' = backlog \cup {c}
        /\ connect' = [connect EXCEPT ![c] = "succeeded"]
    BY <1>4 DEF Establish, serverVars
  <2>2. ClientInv' /\ WorkerInv'
    BY <2>1 DEF IInv, Places, ClientInv, WorkerInv
  <2>3. \A b \in Clients : Holding(b)' = Holding(b)
    BY <2>1 DEF Holding
  <2>4. PlaceInv'
    BY <1>t, <2>1, <2>3 DEF IInv, Places, PlaceInv, Established
  <2>5. HandsInv'
    BY <1>4 DEF IInv, Places, HandsInv, Establish, serverVars
  <2> QED BY <2>2, <2>4, <2>5 DEF Places
<1>5. ASSUME NEW c \in Clients, Refuse(c) PROVE Places'
  BY <1>t, <1>r, <1>5, KeepsPlaces DEF Refuse, serverVars, Established
<1>6. ASSUME NEW e \in Slots, Complete(e) PROVE Places'
  BY <1>6, CompleteKeepsPlaces
<1>7. ASSUME NEW w \in Workers, NEW e \in Slots, Dispatch(w, e) PROVE Places'
  BY <1>7, DispatchKeepsPlaces
<1>8. ASSUME NEW w \in Workers, ProcessAccept(w) PROVE Places'
  BY <1>8, ProcessAcceptKeepsPlaces
<1>9. ASSUME NEW w \in Workers, RegisterAgain(w) PROVE Places'
  <2>1. PICK e \in Slots : e = serving[w] /\ accept[e].state = "none"
    BY <1>t, <1>9 DEF RegisterAgain
  <2>2. CASE RegisterAccept(e) /\ UNCHANGED main
               /\ serving' = [serving EXCEPT ![w] = NoSlot]
    <3>1. \A v \in Workers : serving'[v] # NoSlot => serving'[v] # e
      BY <1>t, <2>1, <2>2, NoSlotIsNone DEF IInv, Places, WorkerInv
    <3>2. \A v \in Workers :
            \/ serving'[v] = serving[v]
            \/ serving[v] = e /\ serving'[v] = NoSlot
      BY <1>t, <2>1, <2>2
    <3>3. UNCHANGED <<running, served, dropped, connect, backlog>>
      BY <1>9 DEF RegisterAgain, clientVars
    <3> QED BY <1>r, <2>1, <2>2, <3>1, <3>2, <3>3, RegisterKeepsPlaces
  <2>3. CASE NullSession /\ UNCHANGED <<accept, closed, serving>>
    BY <1>9, <2>3, KeepsPlaces
    DEF RegisterAgain, NullSession, clientVars, Established
  <2> QED BY <1>9, <2>1, <2>2, <2>3 DEF RegisterAgain
<1>10. CASE Connect
  BY <1>t, <1>r, <1>10, KeepsPlaces DEF Connect, serverVars, Established
<1>11. CASE LaunchClient
  BY <1>r, <1>11, KeepsPlaces DEF LaunchClient, serverVars, Established
<1>12. ASSUME NEW c \in Clients, Client(c) PROVE Places'
  <2>1. UNCHANGED <<serverVars, backlog>>
    BY <1>12 DEF Client, ProcessConnect, Recv0
  <2>2. \A b \in Clients : connect'[b] \in {"new", "pending"} =>
                             connect[b] \in {"new", "pending"}
    BY <1>t, <1>12 DEF Client, ProcessConnect, Recv0
  <2>3. \A b \in Clients : Established(b)' <=> Established(b)
    BY <1>t, <1>12 DEF Client, ProcessConnect, Recv0, Established
  <2> QED BY <1>r, <2>1, <2>2, <2>3, KeepsPlaces DEF serverVars
<1>13. CASE UNCHANGED vars
  BY <1>r, <1>13, KeepsPlaces
     DEF vars, serverVars, clientVars, Established
<1> QED
  BY <1>1, <1>2, <1>3, <1>4, <1>5, <1>6, <1>7, <1>8, <1>9, <1>10, <1>11,
     <1>12, <1>13 DEF Next, Serve, Quiescent

-----------------------------------------------------------------------------
\* The inductive invariant holds in every reachable state.
THEOREM Invariance == Spec => []IInv
  BY InitIInv, NextIInv, PTL DEF Spec

(* Every state of the start is well typed, for any number of clients.      *)
THEOREM TypeCorrect == Spec => []TypeOK
<1>1. IInv => TypeOK
  BY DEF IInv
<1> QED BY Invariance, <1>1, PTL

(* A connection is with one accept event, and that with one worker, and is *)
(* then served or given up: in whatever order the server starts.           *)
THEOREM OneAccept == Spec => []AcceptedOnce
<1>1. IInv => AcceptedOnce
  <2> SUFFICES ASSUME IInv, NEW c \in Clients
               PROVE  /\ \A e \in Holding(c) :
                           \/ accept[e].state = "completed"
                           \/ \E w \in Workers : serving[w] = e
                      /\ c \in dropped \ closed =>
                           \E w \in Workers : /\ serving[w] \in Slots
                                             /\ accept[serving[w]].client = c
    BY DEF IInv, Places, WorkerInv, PlaceInv, AcceptedOnce
  <2>1. \A e \in Holding(c) :
          \/ accept[e].state = "completed" \/ \E w \in Workers : serving[w] = e
    BY DEF IInv, Places, HandsInv, Holding
  <2>2. c \in dropped \ closed =>
          \E w \in Workers : /\ serving[w] \in Slots
                            /\ accept[serving[w]].client = c
    BY DEF IInv, Places, HandsInv
  <2> QED BY <2>1, <2>2
<1> QED BY Invariance, <1>1, PTL
=============================================================================
