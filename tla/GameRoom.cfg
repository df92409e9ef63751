\* Safety: two sessions with four packets each, on two workers.
CONSTANTS
  Sessions = {s1, s2}
  NoSession = NoSession
  Workers = 2
  MaxPackets = 4
SPECIFICATION Spec
SYMMETRY Symmetry
INVARIANTS
  TypeOK
  IdsIdentify
  EnterReplyMeansMember
PROPERTY ImplementsChat
