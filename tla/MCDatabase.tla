----------------------------- MODULE MCDatabase -----------------------------
(***************************************************************************)
(* What is kept across a crash or a restart: the chain and its markers     *)
(* (OpenChain), the lookup tables beside it (TxIndex), the headers of      *)
(* evicted blocks (RetainedHeaders) and the bans (AbuseTracker).  A        *)
(* behaviour is of one of the four.  Three branches overtake each other,   *)
(* so that blocks are evicted, fetched again, promoted and demoted; c2 is  *)
(* the heaviest and lower than b3.                                         *)
(*                                                                         *)
(*   g - a1 - a2         work 1, 2, 4                                      *)
(*     - b1 - b2 - b3    work 2, 3, 5                                      *)
(*     - c1 - c2         work 2, 6                                         *)
(***************************************************************************)
EXTENDS OpenChain, TxIndex, RetainedHeaders, AbuseTracker, TLC

VARIABLE part   \* the component that moves

MCParent == [g |-> "g", a1 |-> "g", a2 |-> "a1", b1 |-> "g", b2 |-> "b1", b3 |-> "b2", c1 |-> "g", c2 |-> "c1"]
MCBlock  == DOMAIN MCParent
MCHeight == [g |-> 0, a1 |-> 1, a2 |-> 2, b1 |-> 1, b2 |-> 2, b3 |-> 3, c1 |-> 1, c2 |-> 2]
MCWork   == [g |-> 1, a1 |-> 2, a2 |-> 4, b1 |-> 2, b2 |-> 3, b3 |-> 5, c1 |-> 2, c2 |-> 6]
MCAnc    == [g |-> {"g"}, a1 |-> {"g", "a1"}, a2 |-> {"g", "a1", "a2"}, b1 |-> {"g", "b1"},
             b2 |-> {"g", "b1", "b2"}, b3 |-> {"g", "b1", "b2", "b3"}, c1 |-> {"g", "c1"},
             c2 |-> {"g", "c1", "c2"}]
MCTimestamp == [b \in MCBlock |-> 0]

\* Each block creates its coinbase, named after it; a1 spends that of Genesis,
\* a2 that of a1; b1 creates "t" too, which b2 spends, b3 spends that of Genesis.
MCOutPoint  == MCBlock \cup {"t"}
MCCreated   == [b \in MCBlock |-> IF b = "b1" THEN {"b1", "t"} ELSE {b}]
MCSpent     == [g |-> {}, a1 |-> {"g"}, a2 |-> {"a1"}, b1 |-> {}, b2 |-> {"t"}, b3 |-> {"g"},
                c1 |-> {}, c2 |-> {"c1"}]
MCStateRoot == [g |-> {"g"}, a1 |-> {"a1"}, a2 |-> {"a2"}, b1 |-> {"g", "b1", "t"},
                b2 |-> {"g", "b1", "b2"}, b3 |-> {"b1", "b2", "b3"}, c1 |-> {"g", "c1"},
                c2 |-> {"g", "c2"}]

\* The lookup tables see transactions: a coinbase per block, named after it, and
\* t1, which is in a1 and, higher, in b2; t2 of a2 and t3 of b1 and c2 spend the
\* same output, t3 a second one, too.
MCTx == MCBlock \cup {"t1", "t2", "t3"}
MCTxsOf == [g |-> {"g"}, a1 |-> {"a1", "t1"}, a2 |-> {"a2", "t2"}, b1 |-> {"b1", "t3"},
            b2 |-> {"b2", "t1"}, b3 |-> {"b3"}, c1 |-> {"c1"}, c2 |-> {"c2", "t3"}]
MCInputsOf == [t \in MCTx |-> CASE t = "t1" -> <<"x">> [] t = "t2" -> <<"y">>
                               [] t = "t3" -> <<"z", "y">> [] OTHER -> <<>>]

Symmetry == Permutations(Ip) \cup Permutations(Id)

vars == <<part, bootVars, idxVars, retainedVars, abuseVars>>

Init ==
  /\ part \in {"boot", "index", "retain", "bans"}
  /\ BootInit /\ IdxInit /\ RetainedInit /\ AbuseInit
  /\ part # "boot" => snap = Genesis
  /\ part # "index" => idxTip = Genesis

Boots == part = "boot" /\ BootNext /\ UNCHANGED <<part, idxVars, retainedVars, abuseVars>>
Indexes == part = "index" /\ IdxNext /\ UNCHANGED <<part, bootVars, retainedVars, abuseVars>>
Retains == part = "retain" /\ RetainedNext /\ UNCHANGED <<part, bootVars, idxVars, abuseVars>>
Bans == part = "bans" /\ AbuseNext /\ UNCHANGED <<part, bootVars, idxVars, retainedVars>>

Next == Boots \/ Indexes \/ Retains \/ Bans

Spec == Init /\ [][Next]_vars
=============================================================================
