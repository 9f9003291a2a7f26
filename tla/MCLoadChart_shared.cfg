SPECIFICATION Spec
CONSTANTS
  Nil = Nil
  h1 = h1
  h2 = h2
  r1 = r1
  r2 = r2
  s1 = s1
  s2 = s2
  TopCore = 3
  Loads = {p1, p2}
  ProviderAuths <- InputAuths
  Hosts = {h1, h2}
  Repositories <- OneRepo
  SecretNames = {s1}
  Requests <- SharedRequests
  RepoSpecs <- SharedRepos
  SecretSpecs <- SharedSecrets
  Tags <- FewTags
  Clusters <- SharedClusters
  MachineLogins <- InputMachines
  Publications <- FewPublished
  NativeHelper = FALSE
  MaxEdits = 1
INVARIANTS NothingLeftBehind PullUsesOwnLogin LoadedIsRequested
PROPERTY MachineLoginsKept
CHECK_DEADLOCK FALSE
