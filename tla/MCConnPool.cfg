SPECIFICATION Spec
CONSTANTS
  NumSlots = 2
  Pcbs = {p1, p2, p3}
  Handles = {h1, h2}
  Ports = {80}
  None = None
  RxMax = 1
  MaxDelivery = 1
  Window = 4
  RefMod = 256
  StallAge = 1
  Broadcasts = TRUE
SYMMETRY Symmetry
INVARIANTS SlotsAccounted CallbackOwnsSlot
