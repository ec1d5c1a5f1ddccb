\* The schema Alembic creates; no failures.
SPECIFICATION Spec
CONSTANTS
  Filters = {f1}
  Matchers = {m1}
  Senders = {s1}
  Pollers = {}
  Polling = {FALSE}
  Schemas <- AlembicSchema
  MaxRetries = 1
  MaxFaults = 0
  MaxOverlaps = 0
  None = None
INVARIANT DeliveryNeedsNoOperator
\* Delivered or stranded notifications are at rest.
CHECK_DEADLOCK FALSE
