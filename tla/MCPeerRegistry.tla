--------------------------- MODULE MCPeerRegistry ---------------------------
(***************************************************************************)
(* Identities p, q, r and s.  r and s dial us from one network group, p    *)
(* from another; s and q have an address we dial.                          *)
(***************************************************************************)
EXTENDS PeerRegistry

MCOwner == [p1 |-> "p", r1 |-> "r", s1 |-> "s", so |-> "s", qo |-> "q"]
MCIp    == [p1 |-> 1, r1 |-> 3, s1 |-> 4, so |-> 4, qo |-> 2]
MCGroup == [p1 |-> 1, r1 |-> 2, s1 |-> 2, so |-> 2, qo |-> 3]
=============================================================================
