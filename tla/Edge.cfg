\* Every service runs alone; the bounds of each are in its own block.
CONSTANTS
  w1 = w1
  w2 = w2
  w3 = w3
  rid = rid
  t1 = t1
  t2 = t2
  Wraps <- MCWraps
  Requests <- MCRequests
  KeyOf <- MCKeyOf
  Tasks <- MCTasks
  CacheCap = 1
  Burst = 1
  SeenWindow = 0
  CacheWindow = 1
  MaxTime = 2
  MaxCrashes = 1
  Events = {e1, e2, e3, e4}
  Seconds = {1, 2, 3}
  Clamps = {1, 2, 3}
  PageLimit = 3
  MaxPages = 3
  MaxChan = 3
  MaxAttempts = 2
  MaxLags = 2
  MaxParks = 2
  Commands = {c1, c2}
  LastSecond = 4
  MaxEpoch = 2
  Reporters = {r1, r2}
  AlertCooldown = 3
  LastTick = 7
  Relays = {y1, y2}
  BlackoutAlert = 2
  RwLastTick = 6
  BuyerTimeout = 2
  PinnedGrace = 1
  MaxTries = 3
  ByLastTick = 5
  MaxMints = 2
  LnExpiry = 1
  IndexRetention = 1
  LnLastTick = 3
  LnCrashes = 1
  MaxWatches = 2
  MaxHashes = 2
  PhExpiry = 1
  PollGrace = 2
  RefusalAlert = 2
  PhLastTick = 6
  PhCrashes = 1
  LnKeys = {k1, k2}
  LnNoKey = nokey
  Gateways = {1, 2}
  MaxFee = 1
  FeeCap = 0
  LnPayCrashes = 1
  PayKeys = {k1, k2}
  Wallets = {n1, n2}
  NoWallet = nowallet
  NoKey = nokey
  PayCrashes = 2
  MsatPerSat = 3
  PpmScale = 4
  MaxGross = 6
  Bases = {0, 2}
  Ppms = {0, 1, 3}
  Owed = 2
  Amounts = {1, 2, 3}
  Metadatas = {"m1", "m2"}
  MaxRedirects = 1
  MinTtl = 2
  Deadline = 1
  RvLastTick = 2
SYMMETRY Sym
VIEW Moving
SPECIFICATION EdgeSpec
CHECK_DEADLOCK FALSE
INVARIANTS HookRunsOnce OneAnswer InboundIsComplete BuyerHearsLast ListingIsTrue AlertsAreHeardOnce AgentRunsOnce ReceiptsAreFollowed PayRowsAreTruth RefundIsExact
