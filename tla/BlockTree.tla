----------------------------- MODULE BlockTree ------------------------------
(***************************************************************************)
(* The block tree as the block processing code sees it.  A block is a      *)
(* member of Block; its header fields are functions of it, and its hash is *)
(* its identity.  Work is CUMULATIVE work (ChainTip.cumulative_work).      *)
(***************************************************************************)
EXTENDS Integers, FiniteSets

CONSTANTS Block, Genesis, None,
          Parent, Height, Work, Anc,
          MaxHeight                       \* bound on heights

\* Every block but Genesis has a parent one height below it; Anc is the
\* reflexive and transitive ancestor relation, with one block per height;
\* cumulative work grows along a chain (work_from_target is never zero).
\* The difficulty of a block is a function of its parent
\* (expected_difficulty), so siblings have the same work.
ASSUME TreeAssumption ==
  /\ Genesis \in Block
  /\ None \notin Block
  /\ Parent \in [Block -> Block]
  /\ Height \in [Block -> Nat]
  /\ Work \in [Block -> Nat]
  /\ Anc \in [Block -> SUBSET Block]
  /\ Height[Genesis] = 0
  /\ Anc[Genesis] = {Genesis}
  /\ \A b \in Block \ {Genesis} :
        /\ Height[b] = Height[Parent[b]] + 1
        /\ Work[b] > Work[Parent[b]]
        /\ Anc[b] = {b} \cup Anc[Parent[b]]
  /\ \A a, b \in Block \ {Genesis} : Parent[a] = Parent[b] => Work[a] = Work[b]
  /\ \A b \in Block : \A a \in Anc[b] :
        /\ Anc[a] \subseteq Anc[b]
        /\ Height[a] <= Height[b] /\ Work[a] <= Work[b]
  /\ \A b \in Block : \A h \in 0..Height[b] :
        \E a \in Anc[b] : Height[a] = h /\ \A c \in Anc[b] : Height[c] = h => c = a

ASSUME MaxHeightAssumption ==
  MaxHeight \in Nat /\ \A b \in Block : Height[b] <= MaxHeight

-----------------------------------------------------------------------------
\* is_better_chain(candidate, current): more work, or equal work and higher.
IsBetter(candidate, current) ==
  \/ Work[candidate] > Work[current]
  \/ Work[candidate] = Work[current] /\ Height[candidate] > Height[current]

\* The block of a at height h, the one after x towards a.
AtHeight(a, h) == CHOOSE x \in Anc[a] : Height[x] = h
Towards(x, a) == CHOOSE y \in Anc[a] : Height[y] = Height[x] + 1

\* HEIGHT_INDEX of the chain that ends in b.
ChainIndex(b) ==
  [h \in 0..MaxHeight |-> IF h <= Height[b] THEN AtHeight(b, h) ELSE None]
=============================================================================
