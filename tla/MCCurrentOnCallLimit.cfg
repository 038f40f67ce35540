\* Is a rate limit always reported as one?
CONSTANTS
  u1 = u1
  u2 = u2
  Users <- TwoUsers
  NoId = NoId
  Ends <- TwoEnds
  NoEnd = NoEnd
  Rotas <- SomeRotas
  Gone = Gone
  MaxChanges = 2
  HTTPTimeout = 0
SPECIFICATION Spec
INVARIANT RateLimitReported
CHECK_DEADLOCK FALSE
