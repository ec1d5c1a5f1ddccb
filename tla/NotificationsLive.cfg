\* Liveness, so without symmetry; with and without a poller.
SPECIFICATION FairSpec
CONSTANTS
  Filters = {f1}
  Matchers = {m1}
  Senders = {s1}
  Pollers = {w1}
  Polling = {TRUE, FALSE}
  Schemas <- SqlSchema
  MaxRetries = 1
  MaxFaults = 2
  MaxOverlaps = 1
  None = None
PROPERTY EventuallyAttempted
\* Delivered or stranded notifications are at rest.
CHECK_DEADLOCK FALSE
