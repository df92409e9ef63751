--------------------------- MODULE SessionRegistry ---------------------------
(***************************************************************************)
(* What the server promises of its sessions to whoever uses its            *)
(* registries.  A session connects once.  It is registered with the        *)
(* Service before GSessionManager can hand it out, and is withdrawn in the *)
(* opposite order; it is handed out before it can be disconnected, and     *)
(* withdrawn only after its socket is closed.  So whoever finds a session  *)
(* in GSessionManager finds it registered, and what is closed never        *)
(* returns.  Several sessions may be dropped at once: a broadcast can find *)
(* more than one connection broken.                                        *)
(***************************************************************************)
CONSTANTS Sessions

VARIABLES
  online,     \* connected sessions
  sessions,   \* registered with the Service
  gsessions,  \* handed out by GSessionManager
  dead        \* disconnected for good

regVars == <<online, sessions, gsessions, dead>>

Init ==
  /\ online = {} /\ sessions = {} /\ gsessions = {} /\ dead = {}

\* A session that was never used connects.
Connect(s) ==
  /\ s \notin online \cup sessions \cup dead
  /\ online' = online \cup {s}
  /\ UNCHANGED <<sessions, gsessions, dead>>

Register(s) ==
  /\ s \in online \ sessions
  /\ sessions' = sessions \cup {s}
  /\ UNCHANGED <<online, gsessions, dead>>

Publish(s) ==
  /\ s \in (online \cap sessions) \ gsessions
  /\ gsessions' = gsessions \cup {s}
  /\ UNCHANGED <<online, sessions, dead>>

Drop(S) ==
  /\ S \subseteq online \cap gsessions
  /\ online' = online \ S
  /\ UNCHANGED <<sessions, gsessions, dead>>

Close(s) ==
  /\ s \in gsessions \ (online \cup dead)
  /\ dead' = dead \cup {s}
  /\ UNCHANGED <<online, sessions, gsessions>>

Withdraw(s) ==
  /\ s \in gsessions \cap dead
  /\ gsessions' = gsessions \ {s}
  /\ UNCHANGED <<online, sessions, dead>>

Deregister(s) ==
  /\ s \in (sessions \cap dead) \ gsessions
  /\ sessions' = sessions \ {s}
  /\ UNCHANGED <<online, gsessions, dead>>

Next ==
  \/ \E s \in Sessions :
       \/ Connect(s) \/ Register(s) \/ Publish(s)
       \/ Close(s) \/ Withdraw(s) \/ Deregister(s)
  \/ \E S \in SUBSET Sessions : Drop(S)

Spec == Init /\ [][Next]_regVars
=============================================================================
