------------------------------ MODULE ForkPool ------------------------------
(***************************************************************************)
(* The capped pool of fork blocks (Node.fork_blocks): which entries a full *)
(* pool gives up.                                                          *)
(***************************************************************************)
EXTENDS BlockTree

CONSTANT MAX_FORK_BLOCKS

ASSUME PoolAssumption == MAX_FORK_BLOCKS \in Nat \ {0}

\* The entries min_by may return: ties go either way (the code takes the
\* first in Vec order).
Weakest(pool) == {x \in pool : \A y \in pool : Work[x] <= Work[y]}


\* What a full pool may give up for block b: its weakest entry if b is
\* stronger, else, for a block that a reorg trigger waits for, its weakest
\* entry that no trigger waits for.
Victims(pool, b, needed) ==
  IF \E w \in Weakest(pool) : Work[b] > Work[w] THEN Weakest(pool)
  ELSE IF b \in needed THEN Weakest(pool \ needed)
  ELSE {}

\* The results of trimming a pool to its cap by dropping entries of least
\* work, sparing the pinned one.
Trims(pool, pinned) ==
  {kept \in SUBSET pool :
     /\ Cardinality(kept) = IF Cardinality(pool) > MAX_FORK_BLOCKS
                            THEN MAX_FORK_BLOCKS ELSE Cardinality(pool)
     /\ pinned \subseteq kept
     /\ \A d \in pool \ kept, k \in kept \ pinned : Work[d] <= Work[k]}
=============================================================================
