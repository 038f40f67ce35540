\* Two concurrent calls on one alert group, with the default HTTP timeout.
CONSTANTS
  c1 = c1
  c2 = c2
  g1 = g1
  Calls <- TwoCalls
  Groups <- OneGroup
  NoGroup = NoGroup
  AcceptCodes <- Accepted
  RefuseCodes <- Refused
  FailCodes <- Failed
  HTTPTimeout = 0
SPECIFICATION FairSpec
INVARIANTS
  TypeOK
  FlaggedSuccessTookEffect
  ReadOnlyNeverWrites
  AtMostOnce
  InvalidInputHasNoEffect
PROPERTIES
  AnswersSettle
  EveryCallAnswered
  ImplementsContract
\* Every call can be answered while the group is absent.
CHECK_DEADLOCK FALSE
