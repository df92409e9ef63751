\* Liveness: the same workers and failures, and one chat.
CONSTANTS
  Threads = {t1, t2, t3}
  Members = {1, 2}
  NoThread = NoThread
  MaxChats = 1
  MaxFaults = 2
SPECIFICATION FairSpec
PROPERTY EveryPacketDelivered
