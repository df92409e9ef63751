\* Liveness: two workers, one accept event, two sessions.
CONSTANTS
  Threads = {t1, t2}
  Slots = {e1}
  Sessions = {s1, s2}
  NoSession = NoSession
  NoSlot = NoSlot
SPECIFICATION FairSpec
PROPERTY DisconnectedIsReleased
