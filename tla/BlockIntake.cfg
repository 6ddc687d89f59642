CONSTANTS
  Block <- MCBlock
  Genesis = "g"
  None = None
  Parent <- MCParent
  Height <- MCHeight
  Work <- MCWork
  Anc <- MCAnc
  MaxHeight = 3
  MAX_FORK_BLOCKS = 2
  Invalid = {"j"}
  IbdBlocks = {"a1"}
  Timestamp <- MCTimestamp
  MAX_ORPHAN_BLOCKS = 1
  MAX_FUTURE_BLOCKS = 1
  FUTURE_BLOCK_MAX_AGE = 2
  MAX_TRIGGERS_PER_ANCESTOR = 1
  MAX_GLOBAL_TRIGGERS = 1
  MaxClock = 2
  MaxLost = 1
SPECIFICATION FairSpec
INVARIANTS
  IntakeExact

  
