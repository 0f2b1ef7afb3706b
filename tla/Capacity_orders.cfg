CONSTANTS
  o1 = o1
  o2 = o2
  o3 = o3
  h1 = h1
  h2 = h2
  Orders <- MCOrders
  SenderOf <- MCSenderOf
  Handlers <- MCHandlers
  Slots = 2
  MaxHolds = 1
  HoldTTL = 1
  MaxTime = 1
  MaxFaults = 1
SYMMETRY Sym
VIEW View
SPECIFICATION Spec
CHECK_DEADLOCK FALSE
INVARIANTS AnswerMatchesOrder OrderBehindHold NoStrandedHold NoOversellOnTime
