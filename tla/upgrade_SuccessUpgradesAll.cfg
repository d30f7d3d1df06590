SPECIFICATION Spec
CONSTANTS
  linux1 = linux1
  linux2 = linux2
  Pools = {linux1, linux2}
  AgentCount = 1
  MasterCount = 1
  MaxFaults = 1
  MaxPages = 2
  Profiles = {"AvailabilitySet"}
INVARIANT SuccessUpgradesAll
