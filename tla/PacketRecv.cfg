\* Scaled down: header 3, packets of 3 to 5 bytes, chunk 6, three chunks.
CONSTANTS
  ChunkSize = 6
  MultipleN = 3
  HeaderSize = 3
  MaxPacketSize = 5
  StreamSize = 19
  Junk = Junk
SPECIFICATION FairSpec
INVARIANTS
  TypeOK
  ReceiveHasRoom
  WindowIsStream
  NoPacketLeft
  NeverOverflows
PROPERTIES
  ImplementsStream
  EveryPacketHandled
