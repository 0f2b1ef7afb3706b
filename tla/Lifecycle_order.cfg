CONSTANTS
  Epoch = 0
  Period = 2
  Lead = 1
  Retention = 1
  InvoiceExpiry = 1
  MinReminder = 1
  MinRenewal = 1
  Requests = {}
  Strays <- AStray
  MaxTime = 2
  MaxSpan = 0
  MaxCrashes = 1
  AdminActs = TRUE
SPECIFICATION FairSpec
INVARIANTS TypeOK HoldFollowsState KeptReceiptsBuyTime NoLeakedBox
PROPERTIES PaidIsCaptured NeverWedged
