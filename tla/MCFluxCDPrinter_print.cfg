SPECIFICATION Spec
CONSTANTS
  web = web
  oci = oci
  source = source
  v1 = v1
  ns = ns
  a = a
  b = b
  newline = newline
  Nil = Nil
  Requests <- AllRequests
  Urls = {web, oci}
  OciUrls = {oci}
  SourceName = source
  Changes = {a, b, newline}
  Multiline = {newline}
  ChangeLists <- Lists
  MaxCalls = 2
  MaxEdits = 1
INVARIANTS
  TypeOK
  AllOrNothing
  ValuesReachTheChart
  CommandNamesItsSource
CHECK_DEADLOCK FALSE
