CONSTANTS
  Epoch = 0
  Period = 3
  Lead = 1
  Retention = 2
  InvoiceExpiry = 2
  MinReminder = 1
  MinRenewal = 1
  Requests = {}
  Strays = {}
  MaxTime = 6
  MaxSpan = 0
  MaxCrashes = 1
  AdminActs = FALSE
SPECIFICATION SpecActive
PROPERTY LeadOnline
