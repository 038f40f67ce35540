\* Two calls on one alert group; the process ends and is started again once.
CONSTANTS
  c1 = c1
  c2 = c2
  g1 = g1
  Calls <- TwoCalls
  Groups <- OneGroup
  NoGroup = NoGroup
  AcceptCodes <- Accepted
  RefuseCodes <- Refused
  FailCodes <- Failed
  HTTPTimeout = 0
  MaxRestarts = 1
SPECIFICATION MCSpec
INVARIANT ReadOnlyToTheWire
PROPERTIES
  CallsEnd
  ImplementsContract
\* The process ends for good after MaxRestarts.
CHECK_DEADLOCK FALSE
