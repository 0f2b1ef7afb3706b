CONSTANTS
  Epoch = 0
  Period = 3
  Lead = 1
  Retention = 2
  InvoiceExpiry = 2
  MinReminder = 1
  MinRenewal = 1
  Requests = {}
  Strays = {}
  MaxTime = 3
  MaxSpan = 0
  MaxCrashes = 0
  AdminActs = TRUE
SPECIFICATION SpecActive
PROPERTY TerminateOnlyPastRetention
