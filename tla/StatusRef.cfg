SPECIFICATION MCSpec
CONSTANTS
  MaxSize <- MCMaxSize
  MaxWorkers <- MCMaxWorkers
  MaxSenders <- MCMaxSenders
  MaxReserved <- MCMaxReserved
CHECK_DEADLOCK FALSE
INVARIANT StatusIsAlive
