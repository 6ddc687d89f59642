CONSTANTS
  Peers = {"p", "o"}
  NoPeer = "none"
  Overclaiming = {"o"}
  Growing = {"p"}
  InitialWork = 1
  PeerWork <- MCPeerWork
  MaxWork = 4
  Anchor = 2
  MaxFaults = 1
SPECIFICATION FairSpec
PROPERTIES
  
  LiveFollowsProof
  
