SPECIFICATION FairSpec
CONSTANTS
  linux1 = linux1
  linux2 = linux2
  Pools = {linux1}
  AgentCount = 2
  MasterCount = 3
  MaxFaults = 2
  MaxPages = 2
  Profiles = {"AvailabilitySet", "VirtualMachineScaleSets"}
INVARIANTS
  TypeOK
  OneMasterPerFailure
  OneAgentPerFailure
  ScaleSetKeepsCount
  SuccessUpgradesAll
  SuccessKeepsCount
PROPERTIES
  CreatesOnlyMissing
  OutcomesComplete
  Completes
