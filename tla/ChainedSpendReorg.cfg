CONSTANTS
  Block <- MCBlock
  Genesis = "g"
  None = None
  Parent <- MCParent
  Height <- MCHeight
  Work <- MCWork
  Anc <- MCAnc
  OutPoint <- MCOutPoint
  Created <- MCCreated
  Spent <- ChainedSpent
  StateRoot <- ChainedStateRoot
  TxInvalid = {"x"}
  MaxHeight = 3
  Sync = "sync"
  Miner = "miner"
  Mined = {"m", "n"}
  MAX_FORK_BLOCKS = 2
  Faults = {}
  MaxCrashes = 1
SPECIFICATION Spec
INVARIANTS
  SnapshotExact
CHECK_DEADLOCK FALSE
