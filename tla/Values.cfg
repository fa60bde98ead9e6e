SPECIFICATION MCSpec
CONSTANTS
  u1 = u1
  u2 = u2
  m1 = m1
  r1 = r1
  a1 = a1
  a2 = a2
  v1 = v1
  Unborn = Unborn
  Freed = Freed
  NoUri = NoUri
  Uris <- MCUris
  Managers <- MCManagers
  Segmenters <- MCSegmenters
  Reassemblers <- MCReassemblers
  Addrs <- MCAddrs
  Values <- MCValues
  UriStrings <- MCUriStrings
  MaxSets <- MCMaxSets
  Long <- MCLong
  Int32 <- MCInt32
  Short <- MCShort
  EventNumbers <- MCEventNumbers
  DataIds <- MCDataIds
  SourceIds <- MCSourceIds
  InternalNumbers <- MCInternalNumbers
  MaxSends <- MCMaxSends
  Byte <- MCByte
  Port <- MCPort
  Addresses4 <- MCAddresses4
  Addresses6 <- MCAddresses6
  Ports <- MCPorts
  MaxChanges <- MCMaxChanges
  MaxInstances <- MCMaxInstances
SYMMETRY Symmetric
CHECK_DEADLOCK FALSE
INVARIANTS
  MCTypeOK
  OneOwnerPerUri
  GettersAnswerForTheOwner
  StringsCarryTheirToken
  LabelsArrive
  SourceIdArrives
  WorkersAreReached
  AddressesComeBack
  FlagsArrive
PROPERTY UrisAreSeparate
