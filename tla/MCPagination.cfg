\* Up to four pages, two changes by other people on the way.
CONSTANTS
  PageSize = 2
  MaxItems = 7
  MaxChanges = 2
  LimitArgs <- Limits
SPECIFICATION FairSpec
INVARIANTS
  TypeOK
  WalkAdvances
  QuietWalkInOrder
PROPERTIES
  EndsWithTheLastItem
  WalkEnds
\* A walk may end, or stop at an error, with no change left.
CHECK_DEADLOCK FALSE
