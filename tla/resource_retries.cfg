SPECIFICATION FairSpec
CONSTANTS
  Absent = Absent
  NoState = NoState
  None = None
  NoTags = NoTags
  dev = dev
  prod = prod
  NumPools = 1
  MaxCount = 3
  MaxVersion = 3
  Tags = {dev, prod}
  Careful = TRUE
  MaxFaults = 2
INVARIANTS
  TypeOK
  NeverOverclaims
  NodesAgree
  ScaleSetsAgree
PROPERTIES
  NeverForgotten
  UpdatedInPlace
  RetriesSucceed
