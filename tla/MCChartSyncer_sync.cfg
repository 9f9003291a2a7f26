SPECIFICATION FairSpec
CONSTANTS
  flux = flux
  extra = extra
  ghcr = ghcr
  v1 = v1
  v2 = v2
  flux2 = flux2
  flux2sync = flux2sync
  Nil = Nil
  Syncers = {s1, s2}
  Urls = {flux, extra}
  Names = {flux2, flux2sync}
  Versions = {v1, v2}
  Registries = {ghcr}
  PlusVersions = {v2}
  Args <- Args2
  Catalogue <- Catalogue4
  Leftovers <- Leftovers1
  Stock <- Stock1
  MaxRuns = 2
  Upcoming <- Upcoming1
INVARIANTS
  TypeOK
  DoneMeansSynced
  PushesWhatItPulled
PROPERTIES
  MirrorsSource
  EveryRunEnds
CHECK_DEADLOCK FALSE
