SPECIFICATION FairSpec
CONSTANTS
  NumSlots = 1
  Pcbs = {p1, p2}
  Handles = {h1, h2}
  Ports = {80}
  None = None
  RxMax = 2
  MaxDelivery = 3
  Window = 8
  RefMod = 256
  StallAge = 2
  Broadcasts = FALSE
INVARIANTS WindowConserved
PROPERTIES NothingStuck
