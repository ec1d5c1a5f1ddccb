\* A post-AI publish fails once.
SPECIFICATION AiSpec
CONSTANTS
  Msgs = {m1}
  Malformed = {}
  Workers = {w1}
  Copies = {c1, c2}
  MaxRetries = 1
  MaxFaults = 0
  None = None
  MaxOutages = 1
INVARIANT PublishFailureRetried
CHECK_DEADLOCK FALSE
