SPECIFICATION Spec
CONSTANTS
  s1 = s1
  s2 = s2
  s3 = s3
  v1 = v1
  v2 = v2
  Server <- TwoServers
  Value <- OneValue
  MaxVersion = 2
  MaxResults = 2
CHECK_DEADLOCK FALSE
INVARIANTS
  EarlierMeansBefore
