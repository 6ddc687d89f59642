CONSTANTS
  Block <- MCBlock
  Genesis = "g"
  None = None
  Parent <- MCParent
  Height <- MCHeight
  Work <- MCWork
  Anc <- MCAnc
  OutPoint <- MCOutPoint
  Created <- MCCreated
  Spent <- MCSpent
  StateRoot <- WrongStateRoot
  TxInvalid = {}
  MaxHeight = 3
  Sync = "sync"
  Miner = "miner"
  Mined = {"m", "n"}
  MAX_FORK_BLOCKS = 2
  Faults = {"commit", "undo", "demote", "forkwork"}
  MaxCrashes = 0
SPECIFICATION FairSpec
INVARIANTS
  SnapshotExact
PROPERTIES
  CallsReturn
CHECK_DEADLOCK FALSE
