CONSTANTS
  o1 = o1
  o2 = o2
  o3 = o3
  h1 = h1
  h2 = h2
  Orders <- MCOrders
  SenderOf <- MCSenderOf
  Handlers <- MCHandlers
  Slots = 1
  MaxHolds = 1
  HoldTTL = 2
  MaxTime = 2
  MaxFaults = 0
SYMMETRY Sym
SPECIFICATION Spec
CHECK_DEADLOCK FALSE
INVARIANT NoOversell
