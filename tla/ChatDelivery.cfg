\* Safety: three workers, two clients that enter and say two chats, two
\* failures.
CONSTANTS
  Threads = {t1, t2, t3}
  Members = {1, 2}
  NoThread = NoThread
  MaxChats = 2
  MaxFaults = 2
SPECIFICATION Spec
SYMMETRY Symmetry
INVARIANTS
  TypeOK
  OneConversation
  NoChatMissed
  NoCircularWait
