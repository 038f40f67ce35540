\* Backoffs of 2 or 3, 4 or 5, 5 ticks, and one that overflows.
CONSTANTS
  MaxRetries = 4
  BaseDelay = 2
  MaxDelay = 5
  Timeout = 18
  DurationMax = 12
SPECIFICATION FairSpec
INVARIANTS
  TypeOK
  DoneByDeadline
  LastFailureReported
PROPERTIES
  AttemptsBackOff
  ImplementsBoundedRequest
\* DoWithRetry returns.
CHECK_DEADLOCK FALSE
