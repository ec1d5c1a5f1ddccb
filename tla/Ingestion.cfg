\* An album of up to two parts, or a single message, at two listener accounts;
\* two of thirteen posts at one pre-AI worker.
SPECIFICATION MCSpec
CONSTANTS
  Listeners = {l1, l2}
  Parts = {p1, p2}
  MaxFaults = 2
  None = None
  Messages <- MCMessages
  EventOf <- MCEventOf
  BindingOf <- MCBindingOf
  OriginOf <- MCOriginOf
  Workers = {w1}
  MaxRetries = 1
  MaxArrivals = 2
  MaxPreFaults = 2
SYMMETRY Symmetry
INVARIANTS SeenMeansQueued PartsAccounted StrandedOnlyByFailure AckedIsAccounted
  IdentitiesDistinct
\* A post that was ingested, and a listener that stopped, are at rest.
CHECK_DEADLOCK FALSE
