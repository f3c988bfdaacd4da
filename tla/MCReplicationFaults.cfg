SPECIFICATION FairSpec
CONSTANTS
  n1 = n1
  n2 = n2
  n3 = n3
  n4 = n4
  p1 = p1
  p2 = p2
  g1 = g1
  g2 = g2
  NO_VALUE = NO_VALUE
  NoServer = NoServer
  Server <- FourServers
  Preference <- ThreeInOrder
  Put <- OnePut
  Get <- OneGet
  MaxVersion = 2
  MaxCrashes = 1
  MaxBroken = 1
  REPLICA_N = 2
  W_COUNT = 2
  R_COUNT = 2
CHECK_DEADLOCK FALSE
INVARIANTS
  TypeOK
  AckedHasQuorum
  ReadsMeetWrites
  DataIsNotHidden
  IndInv
PROPERTIES
  ImplementsPromise
  RequestsReturn
