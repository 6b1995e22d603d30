SPECIFICATION FairSpec
CONSTANTS
  Peers = {p1, p2}
  Matching = {p1}
  None = none
  Blank = blank
  MaxBonds = 2
  MaxCalls = 1
  MaxStops = 1
  MaxFails = 1
INVARIANTS StopHolds ToldTheTruth NoBondSkipped 
PROPERTIES SavedTableOrNone NothingHangs
CHECK_DEADLOCK FALSE
