--------------------------- MODULE MCTipValidation --------------------------
(***************************************************************************)
(* The peer has b4, the node starts with a3 and may move to b3 or d2.      *)
(*                                                                         *)
(*   g - a1 - a2 - a3         work 1, 2, 3, 4                              *)
(*          - b2 - b3 - b4    work 3, 5, 7                                 *)
(*     - d1 - d2              work 2, 5                                    *)
(***************************************************************************)
EXTENDS TipValidation

MCParent == [g |-> "g", a1 |-> "g", a2 |-> "a1", a3 |-> "a2",
             b2 |-> "a1", b3 |-> "b2", b4 |-> "b3",
             d1 |-> "g", d2 |-> "d1"]
MCBlock  == DOMAIN MCParent
MCHeight == [g |-> 0, a1 |-> 1, a2 |-> 2, a3 |-> 3,
             b2 |-> 2, b3 |-> 3, b4 |-> 4, d1 |-> 1, d2 |-> 2]
MCWork   == [g |-> 1, a1 |-> 2, a2 |-> 3, a3 |-> 4,
             b2 |-> 3, b3 |-> 5, b4 |-> 7, d1 |-> 2, d2 |-> 5]
MCAnc    == [g |-> {"g"}, a1 |-> {"g", "a1"}, a2 |-> {"g", "a1", "a2"},
             a3 |-> {"g", "a1", "a2", "a3"},
             b2 |-> {"g", "a1", "b2"}, b3 |-> {"g", "a1", "b2", "b3"},
             b4 |-> {"g", "a1", "b2", "b3", "b4"},
             d1 |-> {"g", "d1"}, d2 |-> {"g", "d1", "d2"}]
=============================================================================
