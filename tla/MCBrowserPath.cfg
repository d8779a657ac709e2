SPECIFICATION BrowserSpec
CONSTANTS
  None = None
  Interval = 2
  RequestTimeout = 6
  MaxLate = 1
  DetailInterval = 3
  DetailStaleAfter = 6
  BaseTimeout = 1
  LiveTimeout = 2
INVARIANT
  InitialFailureHasNoStaleData
CHECK_DEADLOCK FALSE
