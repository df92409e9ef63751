\* Three threads, six sends, fair threads and kernel.
CONSTANTS
  Threads = {t1, t2, t3}
  NoThread = NoThread
  MaxSends = 6
SPECIFICATION FairSpec
INVARIANTS
  TypeOK
  ExclusiveSendEvent
  BuffersPinned
  NoStrandedBuffer
  NothingOvertaken
PROPERTIES
  ImplementsChannel
  EventuallySent
