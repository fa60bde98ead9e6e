SPECIFICATION Spec
CONSTANTS
  t1 = t1
  t2 = t2
  Threads <- MCThreads
  MaxEvents = 3
  QueueSize = 2
CHECK_DEADLOCK FALSE
INVARIANT EmptyQueueGivesEmptyOptional
