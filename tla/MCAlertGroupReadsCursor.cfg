\* One alert group, two calls: the filter is lost on the second page.
CONSTANTS
  g1 = g1
  Groups <- OneGroup
  Second = 2
  Day = 1
  Latest = 5
  Times = {3, 4}
  MaxCalls = 2
  Filters <- SomeFilters
SPECIFICATION Spec
INVARIANT CursorKeepsFilter
CHECK_DEADLOCK FALSE
