CONSTANTS
  Epoch = 0
  Period = 3
  Lead = 1
  Retention = 1
  InvoiceExpiry = 2
  MinReminder = 1
  MinRenewal = 1
  Requests = {r1}
  Strays = {}
  MaxTime = 5
  MaxSpan = 1
  MaxCrashes = 0
  AdminActs = FALSE
SPECIFICATION SpecActive
INVARIANTS KeptReceiptsBuyTime NoLeakedBox DestroyedNeverSilent
PROPERTIES LapseOnlyWhenDue LapseSparesPaid
