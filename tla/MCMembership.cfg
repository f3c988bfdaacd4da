SPECIFICATION Spec
CONSTANTS
  s1 = s1
  s2 = s2
  s3 = s3
  c1 = c1
  c2 = c2
  NoServer = NoServer
  Server <- ThreeServers
  Command <- TwoCommands
  MaxCommands = 5
  MaxLate = 1
  MaxBroken = 1
  MaxCrashes = 1
SYMMETRY Symmetric
CHECK_DEADLOCK FALSE
INVARIANTS
  TypeOK
  NobodyMissed
  GoneIsGone
  IndInv
