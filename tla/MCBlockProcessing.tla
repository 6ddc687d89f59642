------------------------- MODULE MCBlockProcessing --------------------------
(***************************************************************************)
(* A small block tree for TLC.  Blocks on b1 are harder than blocks on the *)
(* a-branch, as after a retarget whose window the two branches fill with   *)
(* different timestamps.                                                   *)
(*                                                                         *)
(*   g - a1 - a2 - a3     work 1, 3, 4, 5                                  *)
(*     - b1 - b2          work 3, 6: b2 beats a3 at a lower height         *)
(*          - x           work 6, invalid transactions                     *)
(*          - m           work 6, found by the mining task                 *)
(*   a1 - n               work 4, found by the mining task                 *)
(***************************************************************************)
EXTENDS BlockProcessing

MCParent == [g |-> "g", a1 |-> "g", a2 |-> "a1", a3 |-> "a2",
             b1 |-> "g", b2 |-> "b1", x |-> "b1", m |-> "b1",
             n |-> "a1"]
MCBlock  == DOMAIN MCParent
MCHeight == [g |-> 0, a1 |-> 1, a2 |-> 2, a3 |-> 3,
             b1 |-> 1, b2 |-> 2, x |-> 2, m |-> 2, n |-> 2]
MCWork   == [g |-> 1, a1 |-> 3, a2 |-> 4, a3 |-> 5,
             b1 |-> 3, b2 |-> 6, x |-> 6, m |-> 6, n |-> 4]
MCAnc    == [g |-> {"g"}, a1 |-> {"g", "a1"}, a2 |-> {"g", "a1", "a2"},
             a3 |-> {"g", "a1", "a2", "a3"}, b1 |-> {"g", "b1"},
             b2 |-> {"g", "b1", "b2"}, x |-> {"g", "b1", "x"},
             m |-> {"g", "b1", "m"}, n |-> {"g", "a1", "n"}]

\* Each block creates its coinbase, named after it; Genesis also creates
\* "h".  a1 spends both outputs of Genesis, b1 only "h", a2 that of a1.  a2
\* has two transactions; the output "t" of the first is spent by a3, in the
\* chained ledger by a2's second one.
MCOutPoint == MCBlock \cup {"h", "t"}
MCCreated == [b \in MCBlock |-> IF b = "a2" THEN {"a2", "t"}
                                ELSE IF b = "g" THEN {"g", "h"} ELSE {b}]
MCSpent   == [g |-> {}, a1 |-> {"g", "h"}, a2 |-> {"a1"}, a3 |-> {"t"},
              b1 |-> {"h"}, b2 |-> {"b1"}, x |-> {}, m |-> {}, n |-> {"a1"}]
MCStateRoot == [g |-> {"g", "h"}, a1 |-> {"a1"}, a2 |-> {"a2", "t"},
                a3 |-> {"a2", "a3"}, b1 |-> {"g", "b1"}, b2 |-> {"g", "b2"},
                x |-> {"g", "b1", "x"}, m |-> {"g", "b1", "m"}, n |-> {"n"}]

\* x is invalid for its state root only.
WrongStateRoot == [MCStateRoot EXCEPT !["x"] = {"x"}]

ChainedSpent     == [MCSpent EXCEPT !["a2"] = {"a1", "t"}, !["a3"] = {}]
ChainedStateRoot == [MCStateRoot EXCEPT !["a2"] = {"a2"}]
=============================================================================
