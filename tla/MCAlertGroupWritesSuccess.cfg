\* Two calls on one group: is a success always a write carried out?
CONSTANTS
  c1 = c1
  c2 = c2
  g1 = g1
  Calls <- TwoCalls
  Groups <- OneGroup
  NoGroup = NoGroup
  AcceptCodes <- Accepted
  RefuseCodes <- Refused
  FailCodes <- Failed
  HTTPTimeout = 0
SPECIFICATION Spec
INVARIANT SuccessMeansCarriedOut
CHECK_DEADLOCK FALSE
