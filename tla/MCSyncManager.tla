--------------------------- MODULE MCSyncManager ---------------------------
(***************************************************************************)
(* Two peers: the chain of p is two blocks longer than the node's and may  *)
(* grow by another; o claims more than it delivers.                        *)
(***************************************************************************)
EXTENDS SyncManager

MCPeerWork == [x \in Peers |-> IF x = "p" THEN InitialWork + 2 ELSE InitialWork]
=============================================================================
