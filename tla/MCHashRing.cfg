SPECIFICATION Spec
CONSTANTS
  s1 = s1
  s2 = s2
  s3 = s3
  Server <- ThreeServers
  HashSize = 7
  VirtualNode <- TwoVirtual
  Placement <- ThreeApart
  MaxDrift = 1
INVARIANTS
  TypeOK
  RingIsMembers
  BelongsIsNearest
  ListIsFull
PROPERTIES
  OneServerTakesOver
