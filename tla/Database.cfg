CONSTANTS
  Block <- MCBlock
  Genesis = "g"
  None = None
  Parent <- MCParent
  Height <- MCHeight
  Work <- MCWork
  Anc <- MCAnc
  OutPoint <- MCOutPoint
  Created <- MCCreated
  Spent <- MCSpent
  StateRoot <- MCStateRoot
  TxInvalid = {}
  MaxHeight = 3
  MaxOld = 1
  Tx <- MCTx
  Source = {"x", "y", "z"}
  IsCoinbase <- MCBlock
  TxsOf <- MCTxsOf
  InputsOf <- MCInputsOf
  OldTips = {"a2", "b2"}
  Chunk = 2
  MAX_FORK_BLOCKS = 2
  MAX_RETAINED_FORK_HEADERS = 1
  Invalid = {}
  Timestamp <- MCTimestamp
  Task = {"sync", "mine"}
  Ip = {i1, i2, i3}
  Id = {d1, d2}
  i1 = i1
  i2 = i2
  i3 = i3
  d1 = d1
  d2 = d2
  IP_BAN_STRIKE_THRESHOLD = 2
  BAN_DECAY = 2
  IP_BAN_DURATION = 3
  MAX_IP_ABUSE_ENTRIES = 2
  MAX_IDENTITY_BAN_ENTRIES = 1
  MaxTime = 5
  MaxQueued = 1
  MaxRestarts = 1
SPECIFICATION Spec
SYMMETRY Symmetry
INVARIANTS
  IndexExact
  BootsAlways
  
PROPERTIES
  MarkersExact
  BanKept
\* All blocks have been delivered, or the time is over.
CHECK_DEADLOCK FALSE
