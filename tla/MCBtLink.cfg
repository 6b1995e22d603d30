SPECIFICATION EngineSpec
CONSTANTS
  p1 = p1
  p2 = p2
  none = none
  Peers = {p1, p2}
  None = none
  Stored = {p1, p2}
  Depth = 2
  SetupSteps = 1
  MaxHits = 1
  PageAttempts = 1
  AcceptUnknown = FALSE
  Supervision = TRUE
  MaxStarts = 1
  MaxMoves = 2
SYMMETRY Symmetry
INVARIANTS LinkAgrees
PROPERTIES KeyErasedOnlyIfForgotten PairedMeansEncrypted ImplementsLinkOps
CHECK_DEADLOCK FALSE
