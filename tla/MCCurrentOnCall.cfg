\* Two changes of the schedule during a call.
CONSTANTS
  u1 = u1
  u2 = u2
  Users <- TwoUsers
  NoId = NoId
  Ends <- TwoEnds
  NoEnd = NoEnd
  Rotas <- SomeRotas
  Gone = Gone
  MaxChanges = 2
  HTTPTimeout = 0
SPECIFICATION FairSpec
INVARIANTS
  TypeOK
  ResultIsOneReading
  NotFoundHasACause
PROPERTY
  FirstRequestBounded
\* A call may be answered when no change is left.
CHECK_DEADLOCK FALSE
