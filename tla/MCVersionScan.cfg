SPECIFICATION Spec
CONSTANTS
  s1 = s1
  s2 = s2
  s3 = s3
  v1 = v1
  v2 = v2
  Server <- ThreeServers
  Value <- OneValue
  MaxVersion = 2
  MaxResults = 3
CHECK_DEADLOCK FALSE
SYMMETRY Symmetric
INVARIANTS
  ScanAgrees
  NewerMeansAfter
  RepairIsAccepted
  LatestAgrees
  LatestNotEmpty
