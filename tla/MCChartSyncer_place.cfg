SPECIFICATION Spec
CONSTANTS
  flux = flux
  extra = extra
  ghcr = ghcr
  v1 = v1
  v2 = v2
  flux2 = flux2
  flux2sync = flux2sync
  Nil = Nil
  Syncers = {s1}
  Urls = {flux, extra}
  Names = {flux2, flux2sync}
  Versions = {v1, v2}
  Registries = {ghcr}
  PlusVersions = {v2}
  Args <- Args1
  Catalogue <- Catalogue4
  Leftovers <- Leftovers1
  Stock <- Stock1
  MaxRuns = 2
  Upcoming <- Upcoming1
INVARIANT
  SyncedIsAtItsPlace
CHECK_DEADLOCK FALSE
