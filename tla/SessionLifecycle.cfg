\* Safety: three workers, two accept events, three sessions.
CONSTANTS
  Threads = {t1, t2, t3}
  Slots = {e1, e2}
  Sessions = {s1, s2, s3}
  NoSession = NoSession
  NoSlot = NoSlot
SPECIFICATION Spec
SYMMETRY Symmetry
INVARIANTS
  TypeOK
  RemoveNeverCrashes
  OneReceiver
  RegistriesAgree
  NoSlotLost
  NoDeafSession
PROPERTY ImplementsRegistry
