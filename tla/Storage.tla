------------------------------ MODULE Storage -------------------------------
(***************************************************************************)
(* The redb tables of chain/storage.rs that block processing writes, and   *)
(* the effect of each atomic write transaction on them.  A database is a   *)
(* record:                                                                 *)
(*   body    ids in BLOCKS_TABLE                                           *)
(*   header  ids in HEADERS_TABLE (WORK_TABLE has the same keys here: both *)
(*           are written together; RetainedHeaders models their eviction)  *)
(*   spent   ids in SPENT_UTXOS_TABLE (undo data)                          *)
(*   index   HEIGHT_INDEX, height -> canonical block or None               *)
(*   tip     META_TABLE[TIP_KEY]                                           *)
(*   fork    ids in FORK_BLOCKS_TABLE                                      *)
(*   utxos   UTXOS_TABLE                                                   *)
(* One transaction is one operator: redb makes it all or nothing.          *)
(***************************************************************************)
EXTENDS Ledger

Database ==
  [body : SUBSET Block, header : SUBSET Block, spent : SUBSET Block,
   index : [0..MaxHeight -> Block \cup {None}], tip : Block,
   fork : SUBSET Block, utxos : SUBSET OutPoint]

\* commit_genesis_atomic on an empty database.
GenesisDb ==
  [body   |-> {Genesis},
   header |-> {Genesis},
   spent  |-> {},
   index  |-> [h \in 0..MaxHeight |-> IF h = 0 THEN Genesis ELSE None],
   tip    |-> Genesis,
   fork   |-> {},
   utxos  |-> StateRoot[Genesis]]

IsCanonical(db, b) == b \in db.header /\ db.index[Height[b]] = b

\* store_fork_block_atomic
StoreFork(db, b) ==
  [db EXCEPT !.body = @ \cup {b}, !.header = @ \cup {b}, !.fork = @ \cup {b}]

\* Faulty variant: canonical blocks are evicted.
EvictForkUnguarded(db, b) ==
  [db EXCEPT !.body = @ \ {b}, !.spent = @ \ {b}, !.fork = @ \ {b}]

\* evict_fork_block: the body and the undo data go unless the block has
\* become canonical; the fork tracking entry always goes.
EvictFork(db, b) ==
  IF IsCanonical(db, b)
  THEN [db EXCEPT !.fork = @ \ {b}]
  ELSE [db EXCEPT !.body = @ \ {b}, !.spent = @ \ {b}, !.fork = @ \ {b}]

\* commit_block_atomic
CommitBlock(db, b) ==
  [db EXCEPT !.body = @ \cup {b}, !.header = @ \cup {b},
             !.spent = @ \cup {b}, !.index[Height[b]] = b, !.tip = b,
             !.fork = @ \ {b}, !.utxos = Apply(b, @)]

\* UTXOS_TABLE in commit_reorg_atomic.  The orphans are undone from the old
\* tip down (old_chain is newest first): each removes all its outputs, then
\* re-inserts everything it spent, the outputs it created itself included.
\* So the lowest orphan that touches an outpoint has the last word on it.
\* Then the mutation logs of the new chain are applied oldest first, so there it is
\* the highest block.
Touching(S, o) == {x \in S : o \in Created[x] \cup Spent[x]}
IsLowest(x, S)  == x \in S /\ \A y \in S : Height[x] <= Height[y]
IsHighest(x, S) == x \in S /\ \A y \in S : Height[y] <= Height[x]

\* Faulty variant: what the orphans spent is not re-inserted.
UndoOrphansNoReinsert(utxos, orphans) ==
  {o \in utxos : Touching(orphans, o) = {}}

UndoOrphans(utxos, orphans) ==
  {o \in OutPoint :
     IF Touching(orphans, o) = {} THEN o \in utxos
     ELSE \E x \in Block : IsLowest(x, Touching(orphans, o)) /\ o \in Spent[x]}

ApplyNewChain(utxos, new) ==
  {o \in OutPoint :
     IF Touching(new, o) = {} THEN o \in utxos
     ELSE \E x \in Block : IsHighest(x, Touching(new, o)) /\ o \notin Spent[x]}

\* commit_reorg_atomic: b becomes the tip, fp is the fork point.  Every
\* new-chain block is (re-)inserted, stale heights above b are removed.
CommitReorg(db, b, fp) ==
  LET new == Anc[b] \ Anc[fp]
      orphans == Anc[db.tip] \ Anc[fp]
  IN  [db EXCEPT !.body = @ \cup new, !.header = @ \cup new,
                 !.spent = @ \cup new, !.fork = @ \ new, !.tip = b,
                 !.index = [h \in 0..MaxHeight |->
                              IF h \in Height[b]+1 .. Height[db.tip] THEN None
                              ELSE IF h \in Height[fp]+1 .. Height[b]
                                   THEN AtHeight(b, h)
                              ELSE @[h]],
                 !.utxos = ApplyNewChain(UndoOrphans(@, orphans), new)]
=============================================================================
