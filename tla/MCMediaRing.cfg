SPECIFICATION FairSpec
CONSTANTS
  RING = 4
  PerPkt = 2
  MaxFrames = 11
INVARIANTS LossesCounted InOrderWithoutDrops
 
CHECK_DEADLOCK FALSE
