SPECIFICATION BrowserSpec
CONSTANTS
  None = None
  Interval = 2
  RequestTimeout = 6
  MaxLate = 1
  DetailInterval = 3
  DetailStaleAfter = 6
  BaseTimeout = 1
  LiveTimeout = 2
INVARIANTS
  IInv
  OneClock
  StaleIsTrue
  DetailIsSound
  LiveReadReported
PROPERTIES
  KeepsAsking
  ComparisonRetained
  KeepsRefreshing
CHECK_DEADLOCK FALSE
