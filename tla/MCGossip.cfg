SPECIFICATION Spec
CONSTANTS
  s1 = s1
  s2 = s2
  s3 = s3
  NoServer = NoServer
  Server <- ThreeServers
  Beat = 2
  Check = 4
  Delay = 1
  MaxCommands = 3
  MaxLate = 0
  MaxBroken = 0
  MaxCrashes = 1
SYMMETRY Symmetric
CHECK_DEADLOCK FALSE
INVARIANTS
  TypeOK
  DeadIsNoticed
  MetStayInSight
  IndInv
