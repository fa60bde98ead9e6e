SPECIFICATION Spec
CONSTANTS
  t1 = t1
  t2 = t2
  t3 = t3
  u1 = u1
  u2 = u2
  m1 = m1
  p1 = p1
  a1 = a1
  a2 = a2
  a3 = a3
  Threads <- MCThreads
  Uris <- MCUris
  Managers <- MCManagers
  Pipes <- MCPipes
  Addrs <- MCAddrs
SYMMETRY Symmetric
CHECK_DEADLOCK FALSE
INVARIANTS
  TypeOK
  UseWhileLive
  FreeDeletesOwnInstance
  InstancesStayReachable
PROPERTY InstancesLiveOnce
