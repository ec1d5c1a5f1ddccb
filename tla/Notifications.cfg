\* Two filters, so that a matcher fails half way, and both schemas.
SPECIFICATION Spec
CONSTANTS
  Filters = {f1, f2}
  Matchers = {m1, m2}
  Senders = {s1, s2}
  Pollers = {}
  Polling = {FALSE}
  Schemas <- BothSchemas
  MaxRetries = 1
  MaxFaults = 2
  MaxOverlaps = 1
  None = None
SYMMETRY Symmetry
INVARIANTS NoDuplicateWithoutOverlap JobReachesQueue
\* Delivered or stranded notifications are at rest.
CHECK_DEADLOCK FALSE
