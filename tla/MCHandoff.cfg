SPECIFICATION Spec
ACTION_CONSTRAINT CalmBetween
CONSTANTS
  s1 = s1
  s2 = s2
  s3 = s3
  s4 = s4
  p1 = p1
  p2 = p2
  Server = {s1, s2, s3, s4}
  Preference <- FourInOrder
  Put = {p1, p2}
  NO_VALUE = NO_VALUE
  NoServer = NoServer
  MaxVersion = 1
  REPLICA_N = 3
  W_COUNT = 2
  R_COUNT = 2
  Tries = 2
  MaxCommands = 2
  MaxBroken = 1
SYMMETRY Symmetric
CHECK_DEADLOCK FALSE
INVARIANTS
  TypeOK
  CountedCopiesStay
  AckedStaysReadable
  IndInv
