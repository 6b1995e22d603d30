SPECIFICATION Spec
CONSTANTS
  NumPorts = 3
  PktLimit = 2
  MaxFrames = 5
  MaxCmds = 2
  MaxEvents = 3
  MaxErrors = 1
INVARIANTS BatchFitsRing  
PROPERTIES NothingHeldBack
