------------------------------ MODULE MCMempool -----------------------------
(***************************************************************************)
(* Two branches of two blocks.  t2 and t3 spend the same output, t4 spends *)
(* a coinbase output that matures at height 2, t3 is good at heights up to *)
(* 2 only.                                                                 *)
(***************************************************************************)
EXTENDS Mempool

MCBlock  == {"g", "a1", "a2", "b1", "b2"}
MCParent == [g |-> "g", a1 |-> "g", a2 |-> "a1", b1 |-> "g", b2 |-> "b1"]
MCHeight == [g |-> 0, a1 |-> 1, a2 |-> 2, b1 |-> 1, b2 |-> 2]
MCAnc    == [g |-> {"g"}, a1 |-> {"g", "a1"}, a2 |-> {"g", "a1", "a2"},
             b1 |-> {"g", "b1"}, b2 |-> {"g", "b1", "b2"}]

MCOutput  == {"o1", "o2", "c0", "p1", "p2", "r1"}
MCInputs  == [t1 |-> {"o1"}, t2 |-> {"o2"}, t3 |-> {"o2"}, t4 |-> {"c0"}]
MCOutputs == [t1 |-> {"p1"}, t2 |-> {"p2"}, t3 |-> {}, t4 |-> {}]
MCScriptHeights == [t1 |-> 1..3, t2 |-> 1..3, t3 |-> 1..2, t4 |-> 1..3]
MCDensity == [t1 |-> 2, t2 |-> 3, t3 |-> 1, t4 |-> 4]
MCTxId    == [t1 |-> 1, t2 |-> 2, t3 |-> 3, t4 |-> 4]
MCSize    == [t1 |-> 1, t2 |-> 2, t3 |-> 1, t4 |-> 1]
MCScript  == [o1 |-> 1, o2 |-> 1, c0 |-> 2, p1 |-> 2, p2 |-> 1, r1 |-> 1]
MCTxs     == [g |-> <<>>, a1 |-> <<"t1">>, a2 |-> <<"t4">>, b1 |-> <<"t2">>, b2 |-> <<>>]
MCReward  == [g |-> {"o1", "o2", "c0"}, a1 |-> {}, a2 |-> {}, b1 |-> {"r1"}, b2 |-> {}]
MCSpendableFrom == [o \in MCOutput |-> IF o = "c0" THEN 2 ELSE IF o = "r1" THEN 3 ELSE 0]
=============================================================================
