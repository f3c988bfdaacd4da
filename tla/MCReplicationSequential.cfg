SPECIFICATION TurnsSpec
CONSTANTS
  n1 = n1
  n2 = n2
  n3 = n3
  n4 = n4
  p1 = p1
  p2 = p2
  g1 = g1
  g2 = g2
  NO_VALUE = NO_VALUE
  NoServer = NoServer
  Server <- ThreeServers
  Preference <- ThreeInOrder
  Put <- TwoPuts
  Get <- TwoGets
  MaxVersion = 2
  MaxCrashes = 0
  MaxBroken = 1
  REPLICA_N = 3
  W_COUNT = 2
  R_COUNT = 2
SYMMETRY Symmetric
CHECK_DEADLOCK FALSE
INVARIANTS
  CompletedWritesAreRead
  TurnsInv
  NoPhantomVersions
