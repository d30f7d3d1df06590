SPECIFICATION Spec
CONSTANTS
  compute = compute
  keyvault = keyvault
  network = network
  storage = storage
  Namespaces <- AllNamespaces
  RequiredResourceProviders <- AcsEngineProviders
  RetryAttempts = 3
  MaxFaults = 2
  NoNamespace = NoNamespace
INVARIANTS
  TypeOK
  AttemptsSuffice
  ClientIsRegistered
PROPERTIES
  SkipIsHonoured
  CreateSucceeds
