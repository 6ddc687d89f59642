------------------------------- MODULE UtxoSet -------------------------------
(***************************************************************************)
(* The UTXO set (chain/state.rs): the entries, the Merkle tree of the      *)
(* state root and the index by script, kept in step by insert and remove.  *)
(* An outpoint is the key of its leaf: leaf_key hashes transaction id and  *)
(* index.  An entry is the height and the kind of its transaction; its     *)
(* output, hence its script and its value, is that of the outpoint.        *)
(***************************************************************************)
EXTENDS Smt, FiniteSets, FiniteSetsExt, Functions

CONSTANTS SetOutPoint,   \* outpoints: a subset of SmtKey
          SetScript,     \* the script of an outpoint
          SetValue,      \* its value
          EntryHeight,   \* heights of entries
          SetMaturity,   \* coinbase_maturity()
          ValueMax       \* u64::MAX

ASSUME UtxoSetAssumption ==
  /\ SetOutPoint \subseteq SmtKey
  /\ DOMAIN SetScript = SetOutPoint /\ SetValue \in [SetOutPoint -> Nat]
  /\ EntryHeight \subseteq Nat /\ SetMaturity \in Nat /\ ValueMax \in Nat

VARIABLE uset   \* [utxos, smt, index]

Entry == [height : EntryHeight, coinbase : BOOLEAN]

EmptySet == [utxos |-> <<>>, smt |-> EmptySmt, index |-> <<>>]

\* UtxoSet::insert of an outpoint that is not there.
SetInsert(u, op, e) ==
  LET s == SetScript[op]
      old == IF s \in DOMAIN u.index THEN u.index[s] ELSE {}
  IN  [utxos |-> [o \in DOMAIN u.utxos \cup {op} |-> IF o = op THEN e ELSE u.utxos[o]],
       smt   |-> SmtInsert(u.smt, op, e),
       index |-> [t \in DOMAIN u.index \cup {s} |-> IF t = s THEN old \cup {op} ELSE u.index[t]]]

\* UtxoSet::remove of an outpoint that is there.
SetRemove(u, op) ==
  LET s == SetScript[op]
      left == u.index[s] \ {op}
  IN  [utxos |-> [o \in DOMAIN u.utxos \ {op} |-> u.utxos[o]],
       smt   |-> SmtRemove(u.smt, op),
       index |-> [t \in IF left = {} THEN DOMAIN u.index \ {s} ELSE DOMAIN u.index |->
                    IF t = s THEN left ELSE u.index[t]]]

Spendable(e, height) ==
  e.coinbase => (IF height > e.height THEN height - e.height ELSE 0) >= SetMaturity

OfScript(u, s) == IF s \in DOMAIN u.index THEN u.index[s] ELSE {}

\* balance_for_script: over the index, saturating.
BalanceForScript(u, s, height) ==
  FoldSet(LAMBDA op, sum : IF Spendable(u.utxos[op], height)
                           THEN Min({sum + SetValue[op], ValueMax}) ELSE sum,
          0, OfScript(u, s))

SetInit == uset = EmptySet

\* The two mutations every application and undo of a transaction is made of.  A
\* restored entry keeps the height it had, so any height may come back.
InsertUtxo(op, e) ==
  /\ op \notin DOMAIN uset.utxos
  /\ uset' = SetInsert(uset, op, e)

RemoveUtxo(op) ==
  /\ op \in DOMAIN uset.utxos
  /\ uset' = SetRemove(uset, op)

SetNext == \E op \in SetOutPoint : RemoveUtxo(op) \/ \E e \in Entry : InsertUtxo(op, e)
-----------------------------------------------------------------------------
\* Whatever sequence of insertions and removals led to it, the cached state root
\* is the root of the uncompressed tree over the entries ("identical root hashes
\* to the naive depth-256 implementation"), so nodes that reorganised along other
\* ways agree on it.  No node of the arena is leaked or freed twice, and the tree
\* stays compressed.  The index by script is that of the entries, and the balance
\* read from it is the sum of the mature ones, or u64::MAX.
StateRootExact ==
  LET ops == DOMAIN uset.utxos
      Of(s) == {op \in ops : SetScript[op] = s}
  IN  /\ uset.smt.hash = NaiveRoot(uset.utxos, 0, Depth)
      /\ uset.smt.leaves = Cardinality(ops)
      /\ uset.smt.nodes = NodesIn(uset.smt.root) /\ Compressed(uset.smt.root)
      /\ \A op \in SmtKey : FindLeaf(uset.smt.root, op) <=> op \in ops
      /\ DOMAIN uset.index = {SetScript[op] : op \in ops}
      /\ \A s \in Range(SetScript) : \A h \in EntryHeight :
           LET sum == MapThenSumSet(LAMBDA op : SetValue[op],
                                    {op \in Of(s) : Spendable(uset.utxos[op], h)})
           IN  OfScript(uset, s) = Of(s) /\ BalanceForScript(uset, s, h) = Min({sum, ValueMax})
=============================================================================
