\* Two images and a command over any plan with at most two passes missing,
\* and six ways for the compromise to fall among them.
SPECIFICATION Spec
CONSTANTS
  Nodes <- MCNodes
  Operators <- MCOperators
  OpOf <- MCOpOf
  Owner = "science"
  RatePerByte <- MCRate
  Custodians = {"M", "G", "V", "R"}
  GroundNodes = {"M", "G"}
  Victim = "V"
  NoNode = "none"
  Root <- MCRoot
  Issuer <- MCIssuer
  NodeKey <- MCNodeKey
  NewKey <- MCNewKey
  Keys <- MCKeys
  AnchorEid <- MCAnchorEid
  MaxDepth = 6
  MaxBlockRecords = 2
  SkewMs = 0
  Never = 1000
  Unreached = 1000
  MaxReceipts = 64
  MaxPath = 20
  LaunchAt = 0
  KeyLife = 100
  ReceiptBytes = 1
  RecordBytes = 1
  Plans <- MCPlans
  Traffics <- MCTraffics
  Compromises <- MCCompromises
INVARIANTS
  RouteIsEarliest
  NewsTravels
  DestinationJudges
  NothingForged
  HonestEarns
CHECK_DEADLOCK FALSE
