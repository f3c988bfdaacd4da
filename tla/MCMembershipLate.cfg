SPECIFICATION Spec
CONSTANTS
  s1 = s1
  s2 = s2
  s3 = s3
  c1 = c1
  c2 = c2
  NoServer = NoServer
  Server <- ThreeServers
  Command <- TwoCommands
  MaxCommands = 2
  MaxLate = 1
  MaxBroken = 0
  MaxCrashes = 0
SYMMETRY Symmetric
CHECK_DEADLOCK FALSE
INVARIANTS
  NetworkIsNotified
