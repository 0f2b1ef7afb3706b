\* One refund: any destination form, either backend, three resolutions, two cut-offs.
SPECIFICATION FairSpec
CONSTANTS
    Dests = {"bolt11", "lnurl", "unpayable"}
    Backends = {"lnv2", "phoenixd"}
    MaxAttempts = 3
    MaxGen = 3
    MaxCrashes = 2
INVARIANTS
    WitnessBeforeSend
    MessageTellsOutcome
PROPERTIES
    PaysOnce
    LandedIsRecorded
CHECK_DEADLOCK FALSE
