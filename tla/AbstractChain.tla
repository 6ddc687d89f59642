--------------------------- MODULE AbstractChain ----------------------------
(***************************************************************************)
(* What the node promises about its canonical chain: it only ever moves to *)
(* a better chain, in one step, and every block of a chain it adopts has   *)
(* been validated on top of its parent.                                    *)
(***************************************************************************)
EXTENDS Ledger

VARIABLES canon,   \* the canonical tip
          index    \* height -> canonical block

Init == canon = Genesis /\ index = ChainIndex(Genesis)

Adopt(b) ==
  /\ IsBetter(b, canon)
  /\ ValidChain(b)
  /\ canon' = b
  /\ index' = ChainIndex(b)

Next == \E b \in Block : Adopt(b)

Spec == Init /\ [][Next]_<<canon, index>>
=============================================================================
