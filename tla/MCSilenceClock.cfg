\* Seconds of three ticks; the clock runs for more than three timeouts
\* and until may be further away than the longest Duration.
CONSTANTS
  Second = 3
  DurationMax = 8
  HTTPTimeout = 4
  Lag = 1
  Latest = 14
SPECIFICATION Spec
INVARIANTS
  TypeOK
  NeverCutShort
  OverrunBounded
  ReportedEndIsClose
\* The clock stops at Latest.
CHECK_DEADLOCK FALSE
