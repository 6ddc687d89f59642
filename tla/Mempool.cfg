SPECIFICATION FairSpec
CONSTANTS
  Block <- MCBlock
  Genesis = "g"
  None = "none"
  Parent <- MCParent
  Height <- MCHeight
  Work <- MCHeight
  Anc <- MCAnc
  MaxHeight = 2
  Tx = {"t1", "t2", "t3", "t4"}
  Output <- MCOutput
  Inputs <- MCInputs
  Outputs <- MCOutputs
  ScriptHeights <- MCScriptHeights
  Density <- MCDensity
  TxId <- MCTxId
  Size <- MCSize
  Script <- MCScript
  Txs <- MCTxs
  Reward <- MCReward
  SpendableFrom <- MCSpendableFrom
  MEMPOOL_CAPACITY = 3
  MAX_MEMPOOL_BYTES = 3
  MAX_TX_SPACE = 6
  Handler = {"h"}
  Task = {"sync", "mine"}
  Faults = TRUE
INVARIANT PoolExact
PROPERTY OrphansReturn
 
