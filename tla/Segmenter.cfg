SPECIFICATION FairSpec
CONSTANTS
  t1 = t1
  t2 = t2
  b1 = b1
  b2 = b2
  r1 = r1
  r2 = r2
  r3 = r3
  Threads <- MCThreads
  Buffers <- MCBuffers
  Refs <- MCRefs
  QueueSize = 2
CHECK_DEADLOCK FALSE
INVARIANTS
  TypeOK
  ReadMemoryIsLive
  OwnReference
PROPERTIES
  BuffersAreLeased
  AcceptedIsSent
