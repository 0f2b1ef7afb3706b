CONSTANTS
  Epoch = 0
  Period = 3
  Lead = 2
  Retention = 1
  InvoiceExpiry = 2
  MinReminder = 1
  MinRenewal = 1
  Requests = {}
  Strays = {}
  MaxTime = 5
  MaxSpan = 0
  MaxCrashes = 2
  AdminActs = FALSE
SPECIFICATION SpecActive
PROPERTY CreditedOnline
