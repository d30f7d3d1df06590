SPECIFICATION Spec
CONSTANTS
  Absent = Absent
  NoState = NoState
  None = None
  NoTags = NoTags
  dev = dev
  prod = prod
  NumPools = 2
  MaxCount = 2
  MaxVersion = 2
  Tags = {dev, prod}
  Careful = TRUE
  MaxFaults = 0
PROPERTIES
  UpdatedInPlace
