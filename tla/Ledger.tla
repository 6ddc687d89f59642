------------------------------- MODULE Ledger -------------------------------
(***************************************************************************)
(* The effect of a block on the UTXO set.  A state root is the set of      *)
(* outpoints it commits to (the sparse Merkle tree is taken to be          *)
(* injective).  Created is the outputs of all transactions of a block,     *)
(* Spent every outpoint its non-coinbase inputs consume, including outputs *)
(* created earlier in the same block.  Transaction ids are hashes and a    *)
(* coinbase commits to its height, so an output never exists already when  *)
(* it is created.                                                          *)
(***************************************************************************)
EXTENDS BlockTree

CONSTANTS OutPoint, Created, Spent,       \* the transactions of a block
          StateRoot,                      \* header.state_root
          TxInvalid                       \* blocks that fail tx validation

ASSUME LedgerAssumption ==
  /\ Created \in [Block -> SUBSET OutPoint]
  /\ Spent \in [Block -> SUBSET OutPoint]
  /\ StateRoot \in [Block -> SUBSET OutPoint]
  /\ TxInvalid \subseteq Block

-----------------------------------------------------------------------------
\* apply_transaction over all transactions of b: every input must be present
\* when it is removed and no output may exist already.
Applies(b, utxos) ==
  /\ b \notin TxInvalid
  /\ Created[b] \cap utxos = {}
  /\ Spent[b] \subseteq utxos \cup Created[b]

Apply(b, utxos) == (utxos \cup Created[b]) \ Spent[b]

\* validate_and_apply_block_transactions_atomic followed by the state_root
\* comparison; on FALSE the caller has rolled the block back.
Accepts(b, utxos) == Applies(b, utxos) /\ Apply(b, utxos) = StateRoot[b]

\* undo_transaction over the transactions of b in reverse order: an output
\* spent inside the block is restored by the spender and removed again by
\* its creator.
Undoable(b, utxos) ==
  /\ Created[b] \ Spent[b] \subseteq utxos
  /\ (Spent[b] \ Created[b]) \cap utxos = {}

Undo(b, utxos) == (utxos \ Created[b]) \cup (Spent[b] \ Created[b])

\* Every block of the chain applies to the state its parent commits to and
\* produces the state it commits to itself.
ValidChain(b) ==
  \A x \in Anc[b] \ {Genesis} : Accepts(x, StateRoot[Parent[x]])
=============================================================================
