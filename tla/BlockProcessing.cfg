CONSTANTS
  Block <- MCBlock
  Genesis = "g"
  None = None
  Parent <- MCParent
  Height <- MCHeight
  Work <- MCWork
  Anc <- MCAnc
  OutPoint <- MCOutPoint
  Created <- MCCreated
  Spent <- MCSpent
  StateRoot <- MCStateRoot
  TxInvalid = {"x"}
  MaxHeight = 3
  Sync = "sync"
  Miner = "miner"
  Mined = {"m", "n"}
  MAX_FORK_BLOCKS = 2
  Faults = {}
  MaxCrashes = 1
SPECIFICATION Spec
INVARIANTS
  LedgerMatchesTip
  CanonicalChainIntact
  NoBetterBody
  SnapshotExact
  
PROPERTIES
  ImplementsChain
CHECK_DEADLOCK FALSE
