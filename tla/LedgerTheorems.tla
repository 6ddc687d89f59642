--------------------------- MODULE LedgerTheorems ---------------------------
(***************************************************************************)
(* Facts about the block tree, the effect of blocks on the UTXO set and    *)
(* the height index, for every tree and every ledger.                      *)
(***************************************************************************)
EXTENDS Ledger, TLAPS

-----------------------------------------------------------------------------
(* The block tree.                                                         *)

\* A block is its own ancestor, its parent is an ancestor, and a proper
\* ancestor of a block is an ancestor of its parent.
LEMMA AncParent ==
  ASSUME NEW b \in Block, b # Genesis
  PROVE  /\ b \in Anc[b] /\ Parent[b] \in Block /\ Parent[b] \in Anc[b]
         /\ Anc[b] = {b} \cup Anc[Parent[b]]
         /\ b \notin Anc[Parent[b]]
         /\ Height[Parent[b]] + 1 = Height[b]
         /\ \A a \in Anc[b] : a # b => a \in Anc[Parent[b]]
<1>1. Parent[b] \in Anc[Parent[b]]
  BY TreeAssumption
<1>2. QED
  BY <1>1, TreeAssumption

\* Every block is an ancestor of itself.
LEMMA AncSelf == \A b \in Block : b \in Anc[b] /\ Genesis \in Anc[b]
<1>1. ASSUME NEW b \in Block PROVE b \in Anc[b]
  <2>1. CASE b = Genesis
    BY <2>1, TreeAssumption
  <2>2. CASE b # Genesis
    BY <2>2, AncParent
  <2>3. QED
    BY <2>1, <2>2
<1>2. ASSUME NEW b \in Block PROVE Genesis \in Anc[b]
  <2>1. PICK a \in Anc[b] : Height[a] = 0
    BY TreeAssumption
  <2>2. a = Genesis
    BY <2>1, TreeAssumption
  <2>3. QED
    BY <2>1, <2>2
<1>3. QED
  BY <1>1, <1>2

\* The ancestor relation is transitive and has one block per height.
LEMMA AncTransitive ==
  ASSUME NEW c \in Block, NEW b \in Anc[c]
  PROVE  b \in Block /\ Anc[b] \subseteq Anc[c] /\ Height[b] <= Height[c]
BY TreeAssumption

\* A chain has at most one block at a height.
LEMMA AncSameHeight ==
  ASSUME NEW c \in Block, NEW a \in Anc[c], NEW b \in Anc[c],
         Height[a] = Height[b]
  PROVE  a = b
BY TreeAssumption

\* The next block of a chain exists, and its parent is the block below it.
LEMMA TowardsStep ==
  ASSUME NEW c \in Block, NEW a \in Anc[c], a # c
  PROVE  /\ Towards(a, c) \in Anc[c] /\ Towards(a, c) \in Block
         /\ Towards(a, c) # Genesis
         /\ Parent[Towards(a, c)] = a
<1> DEFINE y == Towards(a, c)
<1>1. Height[a] < Height[c]
  BY TreeAssumption, AncSelf, AncSameHeight
<1>2. y \in Anc[c] /\ Height[y] = Height[a] + 1
  BY <1>1, TreeAssumption DEF Towards
<1>3. y \in Block /\ y # Genesis
  BY <1>2, TreeAssumption
<1> HIDE DEF y
<1>4. Parent[y] \in Anc[y] /\ Height[Parent[y]] + 1 = Height[y]
  BY <1>3, AncParent
<1>5. Parent[y] \in Anc[c] /\ Height[Parent[y]] = Height[a]
  <2>1. Parent[y] \in Anc[c]
    BY <1>2, <1>4, AncTransitive
  <2>2. Height[Parent[y]] \in Nat /\ Height[a] \in Nat
    BY <1>3, AncTransitive, TreeAssumption
  <2>3. QED
    BY <1>2, <1>4, <2>1, <2>2
<1>6. QED
  BY <1>2, <1>3, <1>5, AncSameHeight DEF y

\* A block no lower than a different one is not Genesis, so the walk to the
\* common ancestor never steps below Genesis.
LEMMA HighNotGenesis ==
  ASSUME NEW b \in Block, NEW c \in Block, Height[b] >= Height[c], b # c
  PROVE  b # Genesis
<1>1. SUFFICES ASSUME b = Genesis PROVE FALSE
  OBVIOUS
<1>2. Height[c] \in Nat /\ Height[c] <= 0
  BY <1>1, TreeAssumption
<1>3. CASE c # Genesis
  <2>1. Height[c] = Height[Parent[c]] + 1 /\ Height[Parent[c]] \in Nat
    BY <1>3, TreeAssumption
  <2>2. QED
    BY <1>2, <2>1
<1>4. QED
  BY <1>1, <1>3

\* A block that beats another one is not Genesis.
LEMMA BetterNotGenesis ==
  ASSUME NEW b \in Block, NEW c \in Block, IsBetter(b, c)
  PROVE  b # Genesis
BY AncSelf, TreeAssumption DEF IsBetter

-----------------------------------------------------------------------------
(* The effect of a block.                                                  *)

\* Undoing a block that was applied restores the state it was applied to,
\* also when the block spends outputs it creates itself.
LEMMA UndoApply ==
  ASSUME NEW b \in Block, NEW S, Applies(b, S)
  PROVE  Undoable(b, Apply(b, S)) /\ Undo(b, Apply(b, S)) = S
BY DEF Applies, Apply, Undoable, Undo

\* The undo data of a block on a valid chain take the state of the block
\* back to the state of its parent.
LEMMA UndoValid ==
  ASSUME NEW c \in Block, ValidChain(c), NEW b \in Anc[c], b # Genesis
  PROVE  /\ Undoable(b, StateRoot[b])
         /\ Undo(b, StateRoot[b]) = StateRoot[Parent[b]]
         /\ Applies(b, StateRoot[Parent[b]])
         /\ Apply(b, StateRoot[Parent[b]]) = StateRoot[b]
<1>1. b \in Block /\ Accepts(b, StateRoot[Parent[b]])
  BY AncTransitive DEF ValidChain
<1>2. QED
  BY <1>1, UndoApply DEF Accepts

\* A chain is valid when the chain of the parent is and the block is
\* accepted there.
LEMMA ValidExtend ==
  ASSUME NEW b \in Block, b # Genesis, ValidChain(Parent[b]),
         Accepts(b, StateRoot[Parent[b]])
  PROVE  ValidChain(b)
BY AncParent DEF ValidChain

\* A prefix of a valid chain is valid.
LEMMA ValidPrefix ==
  ASSUME NEW b \in Block, ValidChain(b), NEW a \in Anc[b]
  PROVE  ValidChain(a)
BY AncTransitive DEF ValidChain

-----------------------------------------------------------------------------
(* The height index.                                                       *)

\* A chain has a block at each height up to its own.
LEMMA AtHeightIn ==
  ASSUME NEW b \in Block, NEW h \in 0..Height[b]
  PROVE  AtHeight(b, h) \in Anc[b] /\ Height[AtHeight(b, h)] = h
BY TreeAssumption DEF AtHeight

\* Two chains agree on the heights up to a common block.
LEMMA AtHeightPrefix ==
  ASSUME NEW b \in Block, NEW a \in Anc[b], NEW h \in 0..Height[a]
  PROVE  AtHeight(b, h) = AtHeight(a, h)
<1>1. a \in Block /\ Height[a] <= Height[b] /\ Anc[a] \subseteq Anc[b]
  BY AncTransitive
<1>2. h \in 0..Height[b]
  BY <1>1, TreeAssumption
<1>3. AtHeight(a, h) \in Anc[b] /\ Height[AtHeight(a, h)] = h
  BY <1>1, AtHeightIn
<1>4. AtHeight(b, h) \in Anc[b] /\ Height[AtHeight(b, h)] = h
  BY <1>2, AtHeightIn
<1>5. QED
  BY <1>3, <1>4, AncSameHeight

\* The last block of a chain is the one at its height.
LEMMA AtHeightSelf == \A b \in Block : AtHeight(b, Height[b]) = b
<1>1. SUFFICES ASSUME NEW b \in Block PROVE AtHeight(b, Height[b]) = b
  OBVIOUS
<1>2. Height[b] \in 0..Height[b]
  BY TreeAssumption
<1>3. QED
  BY <1>2, AtHeightIn, AncSelf, AncSameHeight

\* commit_block_atomic writes one entry of the index, commit_reorg_atomic
\* the entries above the fork point; both end in the index of the new tip.
LEMMA IndexExtend ==
  ASSUME NEW b \in Block, b # Genesis
  PROVE  [ChainIndex(Parent[b]) EXCEPT ![Height[b]] = b] = ChainIndex(b)
<1>1. /\ Parent[b] \in Block /\ Parent[b] \in Anc[b]
      /\ Height[b] = Height[Parent[b]] + 1
      /\ Height[b] \in Nat /\ Height[Parent[b]] \in Nat
  BY AncParent, TreeAssumption
<1>2. ASSUME NEW h \in 0..MaxHeight
      PROVE  [ChainIndex(Parent[b]) EXCEPT ![Height[b]] = b][h] = ChainIndex(b)[h]
  <2>1. CASE h = Height[b]
    BY <1>1, <2>1, AtHeightSelf DEF ChainIndex
  <2>2. CASE h < Height[b]
    <3>1. h \in 0..Height[Parent[b]]
      BY <1>1, <2>2
    <3>2. QED
      BY <1>1, <2>2, <3>1, AtHeightPrefix DEF ChainIndex
  <2>3. CASE h > Height[b]
    BY <1>1, <2>3 DEF ChainIndex
  <2>4. QED
    BY <1>1, <2>1, <2>2, <2>3
<1>3. QED
  BY <1>2 DEF ChainIndex

\* The same for a reorg from c to b that keeps the entries up to fp.
LEMMA IndexReorg ==
  ASSUME NEW b \in Block, NEW c \in Block, NEW fp \in Anc[b] \cap Anc[c],
         NEW index, index = ChainIndex(c)
  PROVE  [h \in 0..MaxHeight |->
            IF h \in Height[b]+1 .. Height[c] THEN None
            ELSE IF h \in Height[fp]+1 .. Height[b] THEN AtHeight(b, h)
            ELSE index[h]] = ChainIndex(b)
<1>1. /\ fp \in Block /\ Height[fp] <= Height[b] /\ Height[fp] <= Height[c]
      /\ Height[b] \in Nat /\ Height[c] \in Nat /\ Height[fp] \in Nat
  BY AncTransitive, TreeAssumption
<1>2. ASSUME NEW h \in 0..MaxHeight, h <= Height[fp]
      PROVE  ChainIndex(c)[h] = ChainIndex(b)[h]
  <2>1. h \in 0..Height[fp]
    BY <1>1, <1>2
  <2>2. AtHeight(b, h) = AtHeight(c, h)
    BY <2>1, AtHeightPrefix
  <2>3. QED
    BY <1>1, <1>2, <2>2 DEF ChainIndex
<1>3. QED
  BY <1>1, <1>2 DEF ChainIndex
=============================================================================
