SPECIFICATION Spec
CONSTANTS
  sh1 = sh1
  sh2 = sh2
  lb1 = lb1
  lb2 = lb2
  s1 = s1
  Shells <- MCShells
  Reservations <- MCReservations
  Sessions <- MCSessions
  CommandLines <- MCCommandLines
SYMMETRY Symmetric
CHECK_DEADLOCK FALSE
INVARIANTS
  TypeOK
  PrintedUriIsTheGrant
  NoMissingArgument
  SessionUriIsAccepted
