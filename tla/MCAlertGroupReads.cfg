\* One alert group, two calls, bounds before, at and after its start.
CONSTANTS
  g1 = g1
  Groups <- OneGroup
  Second = 2
  Day = 1
  Latest = 5
  Times = {3, 4}
  MaxCalls = 2
  Filters <- SomeFilters
SPECIFICATION Spec
INVARIANTS
  TypeOK
  RepeatedFilterHolds
  RangeExcludesNothing
  UpdatedAtIsLatest
\* The clock stops at Latest and the client after MaxCalls calls.
CHECK_DEADLOCK FALSE
