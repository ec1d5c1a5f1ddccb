SPECIFICATION Spec
CONSTANTS
  Null = Null
  a1 = a1
  a2 = a2
  r1 = r1
  r2 = r2
  f1 = f1
  f2 = f2
  f3 = f3
  s1 = s1
  s2 = s2
  Admins <- MCAdmins
  Flags <- MCFlags
  Users = {1}
  MaxVersion = 3
  Initial <- MCInitial
  Refs <- MCRefs
  Runs <- MCRuns
  MediaFaults = 2
  Prices = {10}
  Bounds = {20}
  Order <- MCOrder
  Filters <- MCFilters
  MaxFilters = 2
  Slots <- Waiting
  MaxInputs = 5
  Posts = {1}
  MaxRetries = 1
  MaxFaults = 2
  Visitors = {1}
  Horizon = 19
  MaxEvents = 3
  Windows <- MCWindows
  Reasons <- MCReasons
  Tasks <- Waiting
  Window = 2
  RetryAfter = {1, 3}
  MaxTime = 4
INVARIANTS AuditIsAChain MediaAccounted SearchGapsKnown FiltersAreAsked
  PostAccounted SnapshotIsComplete AlertsAreSpaced
SYMMETRY Symmetry
CHECK_DEADLOCK FALSE
