\* One well-formed and one malformed message, two workers, three attempts and one
\* fault; liveness, so without symmetry.
SPECIFICATION FairSpec
CONSTANTS
  Msgs = {m1, m2}
  Malformed = {m2}
  Workers = {w1, w2}
  Copies = {c1, c2, c3, c4}
  MaxRetries = 2
  MaxFaults = 1
  None = None
INVARIANTS NoMessageLost DeadLetterOnlyExhausted
PROPERTIES ImplementsPromise EventuallySettled
\* A queue with nothing to deliver is at rest.
CHECK_DEADLOCK FALSE
