CONSTANTS
  LimbBits = 2
  Limbs = 4
  ValueSize = 40
  MaxValueDepth = 2
  MaxListLength = 2
  StrongKeys = {0, 1, 2}
  Byte = 2
  MaxScriptNodes = 100
  CostMax = 1000000
  MaxEvalDepth = 20
  MaxScriptSteps = 100000
  MaxScriptMemory = 100000
  Leaves = {}
  Rounds = {}
  MaxBuilt = 0
  InputValues <- MCValues
  WitnessValues <- MCValues
  Context <- MCContext
  Tokens = {}
  MaxTokens = 0
  Contracts <- MCContracts
  HashLock <- MCPreimage
  ClosedAt = 1
  MaxCovHeight = 3
  FeedScript = {"a", "b"}
  Sub = {1, 2}
  Watches <- MCWatches
  WantsTip = {1}
  IpOf <- MCIpOf
  PoolCap = 2
  IpCap = 2
  Buffer = 1
  MaxChanges = 2
  Walker = {1, 2}
  ScanOutPoint = {1, 2, 3}
  Minted = {2}
  ScanMaturity = 3
  PageLimit = 1
  MaxScan = 2
  MaxTip = 2
SPECIFICATION Spec
INVARIANTS
  LossSignalled
  WalkExact
  
PROPERTIES
  ClientsServed
\* The changes, the blocks and the heights run out.
CHECK_DEADLOCK FALSE
