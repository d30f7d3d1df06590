SPECIFICATION FairSpec
CONSTANTS
  MaxAgents = 3
  CountLimit = 4
  PageSize = 3
  OtherVMs = 3
INVARIANTS
  TypeOK
  SuccessIsEnough
  SuccessIsExact
  NoRedeploy
PROPERTIES
  EmptiedLate
  PromiseSpec
  CallReturns
