SPECIFICATION Spec
CONSTANTS
  NoTimes = NoTimes
  MaxHops = 512
  Planes = 2
  PerPlane = 4
  PolarBand = 1
  Stations <- MCStations
  MOC = 200
  BundleLoad = 2
  InjectEpochs = 1
  Epochs = 5
  TicksPerEpoch = 2
  Sources <- MCSources
  AcqTicks = 1
  PerTick = 1
  MaxOutages = 1
  FlightReceipts <- MCReceipts
  PerFan = 2
  PayOptions <- MCPayOptions
  Passes = 1
  PayRuns = 2
  PayFailures = 1
  Chunks = 2
  MaxNacks = 1
  NoResult = NoResult
  MaxLeaves = 7
  NoNodeYet = NoNodeYet
  NoRoot = NoRoot
  Keys = {"A", "I", "N", "T", "L"}
  AnchorEid <- MCAnchorEid
  MaxDepth = 4
  MaxBlockRecords = 3
  SkewMs = 1
  Never = 10
  OnboardRecords = 4
  OnboardAnchors = 1
  ClockModulus = 12
  Arrivals <- MCArrivals
  SeenTimes = {3, 5}
  MaxArrivals = 3
  BlockCapacity = 3
  NoHop = "nohop"
  Originals <- MCOriginals
  Custodians <- MCCustodians
  MaxCut = 2
  MaxPush = 2
  Days = 14
  DayLength = 10
  TrackStart = 16
  TrackHours = 4
  CommandEvery = 2
  MissedDays <- MCMissed
  LightTime = 7
  SpaceTx <- MCSpaceTx
  NackTx <- MCNackTx
  GroundTx = 0
  GroundDelay = 1
  ReadyAt <- MCReadyAt
  MaxRounds = 2
  MaxLosses = 3
  IslTotal = 7
  IslGap = 3
  IslTx = 2
  SampleEvery = 2
  IslTampered = 2
  HandoffAt = 14
  AcqTime = 3
  IslEnd = 100
  IslFades <- MCFades
  Seeds = {"k1", "k2"}
  NoSeed = "nokey"
  MaxSignCmds = 4
  MaxCfsRestarts = 2
  MaxFileFaults = 1
  SimBundles = 3
  Stagger = 2
  ProcessTime = 1
  LinkDelay = 3
  SimJitters = {0, 4}
  DownAt = 6
  UpAt = 10
  MaxSimLosses = 1
  Schedules <- MCSchedules
  LastMoment = 5
  MaxProducts = 2
  Packets = {1, 2}
  Routers = 3
  LinkPlans <- MCPlans
  ReceiptWindow = 2
  LastLogTime = 3
  Adus = {"a", "b"}
  Pieces <- MCPieces
  MaxReassemblyBytes = 5
  SetLifetime = 1
  LastPieceTime = 2
  MaxPieces = 5
INVARIANTS RoutesProve PaidOnChain OnboardAgrees FilesAreNumbered PartsAreKept ScheduleKept RebuiltIsWhole SilenceExplained
PROPERTIES RunSucceeds
CHECK_DEADLOCK FALSE
