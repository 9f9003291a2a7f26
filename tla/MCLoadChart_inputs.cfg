SPECIFICATION SilentSpec
CONSTANTS
  Nil = Nil
  h1 = h1
  h2 = h2
  r1 = r1
  r2 = r2
  s1 = s1
  s2 = s2
  TopCore = 3
  Loads = {p1, p2}
  Repositories = {r1, r2}
  SecretNames = {s1, s2}
  Requests <- InputRequests
  RepoSpecs <- AllRepos
  SecretSpecs <- AllSecrets
  ProviderAuths <- InputAuths
  Hosts = {h1, h2}
  Tags <- SomeTags
  Clusters <- ClustersAndTwoHosts
  MachineLogins <- InputMachines
  Publications <- AllPublished
  NativeHelper = TRUE
  MaxEdits = 0
INVARIANTS TypeOK SecretDecidesLogin LoadedIsRequested PullUsesOwnLogin
PROPERTY OnlyRegistryHolds
CHECK_DEADLOCK FALSE
