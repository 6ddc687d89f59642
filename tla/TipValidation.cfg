SPECIFICATION TipSpec
CONSTANTS
  Block <- MCBlock
  Genesis = "g"
  None = "none"
  Parent <- MCParent
  Height <- MCHeight
  Work <- MCWork
  Anc <- MCAnc
  MaxHeight = 4
  Theirs = "b4"
  OurTips = {"a3", "d2", "b3"}
  OurTip = "a3"
  KnownPeer = TRUE
  MaxTips = 3
  MaxOpen = 2
  MaxSyncs = 1
  MaxReorgs = 1
INVARIANTS
  HonestPeerNotStruck
  
\* The reported tips run out.
CHECK_DEADLOCK FALSE
