SPECIFICATION Spec
CONSTANTS
  Absent = Absent
  NoState = NoState
  None = None
  NoTags = NoTags
  dev = dev
  prod = prod
  NumPools = 2
  MaxCount = 2
  MaxVersion = 2
  Tags = {dev}
  Careful = FALSE
  MaxFaults = 2
INVARIANTS
  NoSkew
PROPERTIES
  MastersOnlyForward
