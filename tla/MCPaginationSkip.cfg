\* Does a walk over a quiet list deliver every item?
CONSTANTS
  PageSize = 2
  MaxItems = 5
  MaxChanges = 0
  LimitArgs <- Limits
SPECIFICATION Spec
INVARIANT EveryItemDelivered
CHECK_DEADLOCK FALSE
