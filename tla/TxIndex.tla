------------------------------ MODULE TxIndex -------------------------------
(***************************************************************************)
(* The two lookup tables kept beside the canonical chain (storage.rs):     *)
(* TX_INDEX_TABLE, the height of every transaction, and SPENT_BY_TABLE,    *)
(* the input that spends every output.  commit_block_atomic and            *)
(* commit_reorg_atomic write them in the transaction that moves the tip,   *)
(* so each is one action.  A database older than SPENT_BY_TABLE starts     *)
(* with the table empty; build_spent_by_index_from_genesis fills it at     *)
(* startup, a chunk of blocks per transaction, and the node can crash      *)
(* between two chunks.  get_transaction reads the tables in three          *)
(* transactions of its own, between which commits happen.                  *)
(***************************************************************************)
EXTENDS BlockTree, Sequences

CONSTANTS Tx, Source,      \* transactions; outputs they spend
          IsCoinbase,      \* the transactions whose input is no output
          TxsOf,           \* the transactions of a block
          InputsOf,        \* the outputs a transaction spends, in order
          OldTips,         \* tips a database without SPENT_BY_TABLE may have
          Chunk            \* CHUNK of build_spent_by_index_from_genesis

\* A transaction names its outputs and, with them, its place in a chain: no
\* chain has it twice and no chain spends an output twice.
ASSUME TxIndexAssumption ==
  /\ IsCoinbase \subseteq Tx /\ OldTips \subseteq Block /\ Chunk \in Nat \ {0}
  /\ TxsOf \in [Block -> SUBSET Tx]
  /\ DOMAIN InputsOf = Tx /\ \A t \in Tx : InputsOf[t] \in Seq(Source)
  /\ \A b \in Block : \A a \in Anc[b] \ {b} : TxsOf[a] \cap TxsOf[b] = {}

VARIABLES idxTip,    \* TIP_KEY; HEIGHT_INDEX is ChainIndex(idxTip)
          txIndex,   \* TX_INDEX_TABLE: Tx -> height, None where no row is
          spentBy,   \* SPENT_BY_TABLE: Source -> row, None where no row is
          backfill,  \* 0 while the node runs, else the next block of the walk
          built,     \* SPENT_BY_TABLE is there since Genesis, or was filled
          query      \* a get_transaction call

idxVars == <<idxTip, txIndex, spentBy, backfill, built, query>>

Row == [tx : Tx, input : Nat, height : Nat]

-----------------------------------------------------------------------------
\* TX_INDEX_TABLE without the transactions of a set of blocks, and with those
\* of a set of blocks.
Unindexed(idx, bs) == [t \in Tx |-> IF \E b \in bs : t \in TxsOf[b] THEN None ELSE idx[t]]
Indexed(idx, bs) ==
  [t \in Tx |-> IF \E b \in bs : t \in TxsOf[b]
                THEN Height[CHOOSE b \in bs : t \in TxsOf[b]] ELSE idx[t]]

\* The rows of a block: every input of every transaction but the coinbase.
Rows(b) ==
  {<<InputsOf[t][i], [tx |-> t, input |-> i - 1, height |-> Height[b]]>> :
     <<t, i>> \in {p \in (TxsOf[b] \ IsCoinbase) \X (1..Cardinality(Source)) :
                     p[2] \in DOMAIN InputsOf[p[1]]}}

\* apply_spent_by_for_block and revert_spent_by_for_block, over a set of blocks
\* of one chain.
ApplySpentBy(tbl, bs) ==
  [o \in Source |-> IF \E b \in bs : \E r \in Rows(b) : r[1] = o
                    THEN (CHOOSE r \in UNION {Rows(b) : b \in bs} : r[1] = o)[2] ELSE tbl[o]]
RevertSpentBy(tbl, bs) ==
  [o \in Source |-> IF \E b \in bs : \E r \in Rows(b) : r[1] = o THEN None ELSE tbl[o]]

\* Faulty variant: the orphans are reverted last.
ReorgSpentByLate(tbl, old, new) == RevertSpentBy(ApplySpentBy(tbl, new), old)

\* SPENT_BY_TABLE after a reorganisation: the orphans are reverted before the
\* new chain is applied.
ReorgSpentBy(tbl, old, new) == ApplySpentBy(RevertSpentBy(tbl, old), new)

\* The heights whose blocks leave the chain: those of the new chain, and the
\* tail above the new tip when the old one was higher.
StaleHeights(b, new) ==
  {Height[x] : x \in new} \cup (Height[b] + 1)..Height[idxTip]

-----------------------------------------------------------------------------
NoQuery == [at |-> "idle"]

IdxInit ==
  /\ idxTip \in {Genesis} \cup OldTips
  /\ txIndex = Indexed([t \in Tx |-> None], Anc[idxTip])
  /\ spentBy = [o \in Source |-> None]
  /\ built = (idxTip = Genesis)
  /\ backfill = 0
  /\ query = NoQuery

\* A call of get_transaction has seen the chains that were canonical since it
\* began.
QuerySees(tip) ==
  query' = IF query.at = "idle" THEN query ELSE [query EXCEPT !.seen = @ \cup Anc[tip]]

\* commit_block_atomic: b extends the tip.
IdxCommit(b) ==
  /\ backfill = 0 /\ b # Genesis /\ Parent[b] = idxTip
  /\ idxTip' = b
  /\ txIndex' = Indexed(txIndex, {b})
  /\ spentBy' = ApplySpentBy(spentBy, {b})
  /\ QuerySees(b)
  /\ UNCHANGED <<backfill, built>>

\* commit_reorg_atomic: the transactions of the blocks at stale heights are
\* removed by way of the old HEIGHT_INDEX, then those of the new chain indexed.
IdxReorg(b) ==
  LET old == Anc[idxTip] \ Anc[b]
      new == Anc[b] \ Anc[idxTip]
      stale == {ChainIndex(idxTip)[h] : h \in StaleHeights(b, new)} \ {None}
  IN
  /\ backfill = 0 /\ Parent[b] # idxTip /\ IsBetter(b, idxTip)
  /\ idxTip' = b
  /\ txIndex' = Indexed(Unindexed(txIndex, stale), new)
  /\ spentBy' = ReorgSpentBy(spentBy, old, new)
  /\ QuerySees(b)
  /\ UNCHANGED <<backfill, built>>

\* The process stops, at any point, and starts with or without
\* --build-spent-by-index.  Calls of the RPC die with it.
IdxRestart ==
  /\ backfill' \in {0, 1}
  /\ query' = NoQuery
  /\ UNCHANGED <<idxTip, txIndex, spentBy, built>>

\* One chunk of build_spent_by_index_from_genesis: block backfill is the one of
\* height backfill - 1.  Nothing else runs before it ends.
BackfillChunk ==
  LET chunk == {ChainIndex(idxTip)[h] : h \in {k \in 0..Height[idxTip] :
                  backfill - 1 <= k /\ k < backfill - 1 + Chunk}}
  IN
  /\ backfill > 0
  /\ spentBy' = ApplySpentBy(spentBy, chunk)
  /\ IF backfill - 1 + Chunk > Height[idxTip]
     THEN backfill' = 0 /\ built' = TRUE
     ELSE backfill' = backfill + Chunk /\ UNCHANGED built
  /\ UNCHANGED <<idxTip, txIndex, query>>

-----------------------------------------------------------------------------
\* get_transaction, the transaction not being in the mempool: the height from
\* the index, the block of that height, and that block's body.
GetTransaction(t) ==
  /\ backfill = 0 /\ query.at = "idle"
  /\ query' = IF txIndex[t] = None THEN query
              ELSE [at |-> "height", tx |-> t, height |-> txIndex[t], block |-> None,
                    seen |-> Anc[idxTip]]
  /\ UNCHANGED <<idxTip, txIndex, spentBy, backfill, built>>

BlockIdByHeight ==
  LET b == ChainIndex(idxTip)[query.height] IN
  /\ query.at = "height"
  /\ query' = IF b = None THEN NoQuery ELSE [query EXCEPT !.at = "block", !.block = b]
  /\ UNCHANGED <<idxTip, txIndex, spentBy, backfill, built>>

\* The block answers the call only when it has the transaction.
Answers(b, t) == t \in TxsOf[b]

\* The body is read; that of a block no longer canonical may have been evicted,
\* and the call then ends as it does when the transaction is not in the block.
ReadBody ==
  /\ query.at = "block"
  /\ query' \in {IF Answers(query.block, query.tx) THEN [query EXCEPT !.at = "found"]
                 ELSE NoQuery}
                \cup (IF query.block \in Anc[idxTip] THEN {} ELSE {NoQuery})
  /\ UNCHANGED <<idxTip, txIndex, spentBy, backfill, built>>

\* The caller takes the answer.
Answered ==
  /\ query.at = "found" /\ query' = NoQuery
  /\ UNCHANGED <<idxTip, txIndex, spentBy, backfill, built>>

IdxNext ==
  \/ \E b \in Block : IdxCommit(b) \/ IdxReorg(b)
  \/ IdxRestart \/ BackfillChunk
  \/ \E t \in Tx : GetTransaction(t)
  \/ BlockIdByHeight \/ ReadBody \/ Answered

IdxSpec == IdxInit /\ [][IdxNext]_idxVars

-----------------------------------------------------------------------------
IdxTypeOK ==
  /\ idxTip \in Block
  /\ txIndex \in [Tx -> Nat \cup {None}]
  /\ spentBy \in [Source -> Row \cup {None}]
  /\ backfill \in Nat /\ built \in BOOLEAN

\* Through every extension, reorganisation, crash and partial backfill the
\* lookup tables say what the canonical chain says.  Every transaction of the
\* chain, and no other, is indexed, at its height: also one that moved to
\* another height or left with a longer branch that a heavier, shorter one
\* replaced.  A row of SPENT_BY_TABLE is always a spend of the canonical chain,
\* although both branches may spend the output; the rows of every block that
\* joined since the table exists are there, and those of all blocks once one
\* backfill has ended.  What get_transaction reports, from three reads of
\* which commits may come between, is a block that was canonical at some moment
\* of the call, that has the transaction, and its height.
IndexExact ==
  LET chain == Anc[idxTip]
      spends == UNION {Rows(b) : b \in chain}
  IN
  /\ IdxTypeOK
  /\ \A t \in Tx : LET at == {b \in chain : t \in TxsOf[b]} IN
       IF at = {} THEN txIndex[t] = None ELSE \A b \in at : txIndex[t] = Height[b]
  /\ \A o \in Source : spentBy[o] # None => <<o, spentBy[o]>> \in spends
  /\ \A b \in chain : (built \/ \A old \in OldTips : b \notin Anc[old]) =>
       \A r \in Rows(b) : spentBy[r[1]] = r[2]
  /\ query.at = "found" =>
       /\ query.block \in query.seen
       /\ query.tx \in TxsOf[query.block] /\ query.height = Height[query.block]
=============================================================================
