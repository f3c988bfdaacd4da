SPECIFICATION Spec
CONSTANTS
  n1 = n1
  n2 = n2
  n3 = n3
  p1 = p1
  p2 = p2
  p3 = p3
  c1 = c1
  c2 = c2
  Server = {n1, n2, n3}
  Preference <- ThreeInOrder
  Client = {c1, c2}
  Put = {p1, p2}
  NO_VALUE = NO_VALUE
  NoServer = NoServer
  NoPut = NoPut
  MaxVersion = 2
  MaxWrites = 4
  MaxFaults = 0
  REPLICA_N = 3
  W_COUNT = 2
  R_COUNT = 2
SYMMETRY Symmetric
INVARIANT NoAckedIsHidden
CHECK_DEADLOCK FALSE
