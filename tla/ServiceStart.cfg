\* Two accept events for three sessions of a client, two workers.
CONSTANTS
  AcceptCount = 2
  Workers = {w1, w2}
  ConnectCount = 3
  NoClient = 0
SPECIFICATION FairSpec
INVARIANTS
  TypeOK
  AcceptedOnce
PROPERTIES
  EveryClientServed
  DroppedClientLearns
