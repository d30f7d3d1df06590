SPECIFICATION Spec
CONSTANTS
  Absent = Absent
  NoState = NoState
  None = None
  NoTags = NoTags
  dev = dev
  prod = prod
  NumPools = 1
  MaxCount = 3
  MaxVersion = 2
  Tags = {dev, prod}
  Careful = TRUE
  MaxFaults = 1
INVARIANTS
  ModelIsUpdated
