SPECIFICATION MCSpec
CONSTANTS
  Configurations <- SmallConfigurations
  Normal <- Normals
  PoolNames <- SmallPoolNames
  DNSPrefixes <- SmallDNSPrefixes
  VaultIDs <- SmallVaultIDs
  WindowsVersions <- RunWindows
  LatestPatch <- Latest
  ProviderBlocks <- SmallProviderBlocks
  CLIProfiles <- SmallProfiles
  CLITokens <- SmallTokens
  MasterCount = 1
  MaxGen = 4
  MaxFaults = 3
  NoDeployment = NoDeployment
  NoConfig = NoConfig
INVARIANTS
  TypeOK
  CreatedIsReadBack
  ReadersAgree
  CredentialsFit
  OneGeneration
  DeploysOneGeneration
PROPERTIES
  CredentialsAreStable
CHECK_DEADLOCK FALSE
