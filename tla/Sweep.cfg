SPECIFICATION FairSpec
CONSTANTS
  NumRequests = 2
  OutputLen <- OneAndTwo
  NumConfigs = 2
  NumRates = 2
INVARIANTS
  RecordsAreTrue
  OneServer
PROPERTIES
  SweepEnds
CHECK_DEADLOCK FALSE
