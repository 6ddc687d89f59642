--------------------------- MODULE MCBlockIntake ----------------------------
(***************************************************************************)
(* A block tree in which a fork loses its first body to the cap of the     *)
(* pool and wins later.                                                    *)
(*                                                                         *)
(*   g - a1 - a2 - a3    work 1, 2, 3, 6                                   *)
(*     - j               work 2: no stronger than any body of a fork       *)
(*     - b1 - b2 - b3    work 2, 5, 8: b3 beats a3                         *)
(***************************************************************************)
EXTENDS BlockIntake

MCParent == [g |-> "g", a1 |-> "g", a2 |-> "a1", a3 |-> "a2", j |-> "g",
             b1 |-> "g", b2 |-> "b1", b3 |-> "b2"]
MCBlock  == DOMAIN MCParent
MCHeight == [g |-> 0, a1 |-> 1, a2 |-> 2, a3 |-> 3, j |-> 1,
             b1 |-> 1, b2 |-> 2, b3 |-> 3]
MCWork   == [g |-> 1, a1 |-> 2, a2 |-> 3, a3 |-> 6, j |-> 2,
             b1 |-> 2, b2 |-> 5, b3 |-> 8]
MCAnc    == [g |-> {"g"}, a1 |-> {"g", "a1"}, a2 |-> {"g", "a1", "a2"},
             a3 |-> {"g", "a1", "a2", "a3"}, j |-> {"g", "j"},
             b1 |-> {"g", "b1"}, b2 |-> {"g", "b1", "b2"},
             b3 |-> {"g", "b1", "b2", "b3"}]
MCTimestamp == [b \in MCBlock |-> IF b = "a2" THEN 2 ELSE 0]
=============================================================================
