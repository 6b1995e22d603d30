SPECIFICATION FairSpec
CONSTANTS
  Peers = {p1}
  Matching = {p1}
  None = none
  Blank = blank
  MaxBonds = 1
  MaxCalls = 1
  MaxStops = 0
  MaxFails = 0

PROPERTIES EveryEndIsSeen
CHECK_DEADLOCK FALSE
