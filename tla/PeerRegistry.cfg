SPECIFICATION FairSpec
CONSTANTS
  Peer = {"p", "q", "r", "s"}
  InAddr = {"p1", "r1", "s1"}
  OutAddr = {"so", "qo"}
  Owner <- MCOwner
  Ip <- MCIp
  Group <- MCGroup
  PrefersOutbound = {"s"}
  MAX_INBOUND_PEERS = 2
  MAX_INBOUND_PER_IP = 1
  EVICTION_PENDING_HEADROOM = 1
  MAX_OUTBOUND_PEERS = 1
  PROTECT_USEFUL_N = 1
  PROTECT_OLDEST_N = 0
  PROTECT_GROUPS_N = 2
  Prompt = TRUE
  Talking = {"s"}
  Serving = {"s"}
  MaxConns = 3

  
PROPERTIES
  IbdSessionKept
  
\* The session ids run out.
CHECK_DEADLOCK FALSE
