\* One message, two competing workers, two faults.
SPECIFICATION AiSpec
CONSTANTS
  Msgs = {m1}
  Malformed = {}
  Workers = {w1, w2}
  Copies = {c1, c2, c3}
  MaxRetries = 1
  MaxFaults = 2
  None = None
  MaxOutages = 1
SYMMETRY Symmetry
INVARIANTS LeavesWithReason PublishedMeansQueued
\* A stage with nothing to process is at rest.
CHECK_DEADLOCK FALSE
