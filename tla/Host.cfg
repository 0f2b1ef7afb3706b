\* Every service runs alone; the bounds of each are in its own block.
CONSTANTS
  Boots = {b1}
  Seeds = {s1, s2}
  NoSeed = noseed
  Invites = {f1, f2}
  NoInvite = noinvite
  BootCrashes = 2
  PowerLosses = 2
  MaxAside = 2
  Depth = 3
  MgCrashes = 2
  AtomicSince = 11
  MaxHandlers = 1
  Owings = {e1, e2}
  Credit = 2
  Outlays = {1, 3}
  Peers = {p1, p2}
  ReadDeadline = 2
  WriteBound = 1
  TxnBound = 1
  DrainWindow = 4
  IpcLastTick = 7
  HookTimeout = 2
  ReapBound = 1
  MaxSpawns = 2
  Window = 1
  LastDay = 5
  MaxInvoices = 2
  MaxGen = 2
VIEW Moving
SPECIFICATION HostSpec
CHECK_DEADLOCK FALSE
INVARIANTS ConfigurationHolds StoreIsWhole ShutdownDrains NeverFalselyReady HookIsContained ReapingLosesNothing ImportAgreesWithWallet
