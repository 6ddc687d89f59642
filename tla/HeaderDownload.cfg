CONSTANTS
  Block <- MCBlock
  Genesis = "g"
  None = None
  Parent <- MCParent
  Height <- MCHeight
  Work <- MCWork
  Anc <- MCAnc
  MaxHeight = 4
  MAX_FORK_BLOCKS = 4
  Invalid = {}
  Timestamp <- MCTimestamp
  Target = "b4"
  Others = {"a1", "a2", "a3", "b2", "c1", "c2"}
  MaxClock = 1
  MaxDrops = 1
  Hdr <- MCHdr
  HdrPrev <- MCHdrPrev
  HdrHeight <- MCHdrHeight
  Anchored <- MCAnchored
  AnchorHeight = 4
  Honest = "honest"
  Liars = {"liar"}
  BatchSize = 2
  MaxInFlight = 2
  SubscriberCap = 3
  ChunkSize = 2
  MaxChunks = 1
  Probes <- MCProbes
  MaxFaults = 1
  LimbBits = 5
  Limbs = 2
  RetargetWindow = 2
  TargetBlockTime = 4
  RetargetFactor = 4
  MtpWindow = 3
  MaxTimestampGap = 16
  Horizon = 60
  GenesisTargets = {2, 300}
  Deltas <- MCDeltas
  CacheEntries = 1
  MaxHeaders = 5
SPECIFICATION Spec
INVARIANTS
  SuccessMeansSynced
  HeadersExact
  StageExact

  
\* A download ends.
CHECK_DEADLOCK FALSE
