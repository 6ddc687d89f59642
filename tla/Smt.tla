--------------------------------- MODULE Smt ---------------------------------
(***************************************************************************)
(* The sparse Merkle tree behind the state root (chain/smt.rs).  Chains of *)
(* nodes with one child are kept as one extension, and hashes are cached   *)
(* in the nodes.  A node is a term; the arena and its free list are kept   *)
(* as the number of nodes in use.  A hash is the term it is the hash of,   *)
(* so that equal hashes are hashes of the same thing.                      *)
(***************************************************************************)
EXTENDS Integers

CONSTANT Depth   \* SMT_DEPTH: bits of a key (256)

ASSUME DepthAssumption == Depth \in Nat \ {0}

SmtKey == 0..(2^Depth - 1)

\* get_bit: bit 0 is the most significant.
Bit(key, d) == (key \div 2^(Depth - 1 - d)) % 2

Sha(left, right) == <<left, right>>
LeafHash(value)  == <<value>>

\* EmptyHashes: of an empty subtree with h levels below its root.
EmptyHash[h \in 0..Depth] == IF h = 0 THEN <<>> ELSE Sha(EmptyHash[h - 1], EmptyHash[h - 1])

Null == [kind |-> "null"]
LeafNode(key, value) == [kind |-> "leaf", key |-> key, value |-> value]
BranchNode(d, left, right, hash) ==
  [kind |-> "branch", depth |-> d, left |-> left, right |-> right, hash |-> hash]
ExtNode(d, to, prefix, child, hash) ==
  [kind |-> "ext", depth |-> d, to |-> to, prefix |-> prefix, child |-> child, hash |-> hash]

LogicalDepth(n) == CASE n.kind = "null" -> 0 [] n.kind = "leaf" -> Depth [] OTHER -> n.depth

RECURSIVE AnyKey(_)
AnyKey(n) == CASE n.kind = "null" -> 0
               [] n.kind = "leaf" -> n.key
               [] n.kind = "branch" -> AnyKey(IF n.left # Null THEN n.left ELSE n.right)
               [] n.kind = "ext" -> AnyKey(n.child)

SubtreeHash(n, d) == CASE n.kind = "null" -> EmptyHash[Depth - d]
                       [] n.kind = "leaf" -> LeafHash(n.value)
                       [] OTHER -> n.hash

\* The root cached after an update, root_hash.
RootHash(n) == SubtreeHash(n, 0)

BranchHash(left, right, d) == Sha(SubtreeHash(left, d + 1), SubtreeHash(right, d + 1))

\* The hash at depth from of a path whose siblings are all empty.
RECURSIVE FoldHash(_, _, _, _)
FoldHash(hash, key, from, to) ==
  IF from >= to THEN hash
  ELSE LET below == FoldHash(hash, key, from + 1, to)
           empty == EmptyHash[Depth - from - 1]
       IN  IF Bit(key, from) = 0 THEN Sha(below, empty) ELSE Sha(empty, below)

\* An extension of child, hashed.
Extend(from, to, prefix, child) ==
  ExtNode(from, to, prefix, child, FoldHash(SubtreeHash(child, to), prefix, from, to))

HashedBranch(d, left, right) == BranchNode(d, left, right, BranchHash(left, right, d))
-----------------------------------------------------------------------------
\* An update returns the new node of the subtree and the change of the number of
\* nodes in use.
Upd(n, used) == [node |-> n, used |-> used]

RECURSIVE FindLeaf(_, _)
FindLeaf(n, key) ==
  CASE n.kind = "null" -> FALSE
    [] n.kind = "leaf" -> n.key = key
    [] n.kind = "branch" -> FindLeaf(IF Bit(key, n.depth) = 0 THEN n.left ELSE n.right, key)
    [] n.kind = "ext" -> /\ \A d \in n.depth..(n.to - 1) : Bit(key, d) = Bit(n.prefix, d)
                         /\ FindLeaf(n.child, key)

\* wrap_in_extension: n as a child at depth d.
WrapInExtension(n, d) ==
  IF d >= LogicalDepth(n) THEN Upd(n, 0)
  ELSE Upd(Extend(d, LogicalDepth(n), AnyKey(n), n), 1)

\* insert_at, where the key leaves the extension n at bit d: a branch at d of the
\* rest of n and the new leaf, below what n has above d.
SplitExtension(n, key, value, d) ==
  LET new  == WrapInExtension(LeafNode(key, value), d + 1)
      rest == IF d + 1 < n.to THEN Upd(Extend(d + 1, n.to, n.prefix, n.child), 1)
                              ELSE Upd(n.child, 0)
      branch == IF Bit(key, d) = 0 THEN HashedBranch(d, new.node, rest.node)
                                   ELSE HashedBranch(d, rest.node, new.node)
      used == 2 + new.used + rest.used       \* the leaf and the branch
  IN  IF d > n.depth THEN Upd(Extend(n.depth, d, key, branch), used)
                     ELSE Upd(branch, used - 1)

\* A leaf is at full depth: only its own key leads to it, and insert_at's split of
\* a leaf is never reached.
RECURSIVE SmtInsertAt(_, _, _, _)
SmtInsertAt(n, d, key, value) ==
  CASE n.kind = "null" ->
         LET new == WrapInExtension(LeafNode(key, value), d) IN Upd(new.node, 1 + new.used)
    [] n.kind = "leaf" -> Upd(LeafNode(key, value), 0)
    [] n.kind = "branch" ->
         LET left == Bit(key, n.depth) = 0
             sub  == SmtInsertAt(IF left THEN n.left ELSE n.right, n.depth + 1, key, value)
         IN  Upd(IF left THEN HashedBranch(n.depth, sub.node, n.right)
                         ELSE HashedBranch(n.depth, n.left, sub.node), sub.used)
    [] n.kind = "ext" ->
         LET differs == {b \in n.depth..(n.to - 1) : Bit(key, b) # Bit(n.prefix, b)}
         IN  IF differs = {}
             THEN LET sub == SmtInsertAt(n.child, n.to, key, value)
                  IN  Upd(Extend(n.depth, n.to, n.prefix, sub.node), sub.used)
             ELSE SplitExtension(n, key, value, CHOOSE b \in differs : \A c \in differs : b <= c)

\* Faulty variant: the surviving extension is put below a new one.
PrependExtensionStacked(n, from) == Upd(Extend(from, LogicalDepth(n), AnyKey(n), n), 1)

\* prepend_extension: what is left of a branch at depth from.
PrependExtension(n, from) ==
  IF n.kind = "ext" THEN Upd(Extend(from, n.to, n.prefix, n.child), 0)
  ELSE IF from < LogicalDepth(n) THEN Upd(Extend(from, LogicalDepth(n), AnyKey(n), n), 1)
  ELSE Upd(n, 0)

\* try_merge_extension: the extension e over its new child n.
TryMergeExtension(e, n) ==
  CASE n.kind = "ext"    -> Upd(Extend(e.depth, n.to, n.prefix, n.child), -1)
    [] n.kind = "leaf"   -> Upd(Extend(e.depth, Depth, n.key, n), 0)
    [] n.kind = "branch" -> Upd(Extend(e.depth, e.to, e.prefix, n), 0)

RECURSIVE SmtRemoveAt(_, _, _)
SmtRemoveAt(n, d, key) ==
  CASE n.kind = "null" -> Upd(Null, 0)
    [] n.kind = "leaf" -> IF n.key = key THEN Upd(Null, -1) ELSE Upd(n, 0)
    [] n.kind = "branch" ->
         LET left == Bit(key, n.depth) = 0
             sub  == SmtRemoveAt(IF left THEN n.left ELSE n.right, n.depth + 1, key)
             l    == IF left THEN sub.node ELSE n.left
             r    == IF left THEN n.right ELSE sub.node
             Survivor(s) == LET p == PrependExtension(s, d) IN Upd(p.node, sub.used - 1 + p.used)
         IN  IF l = Null /\ r = Null THEN Upd(Null, sub.used - 1)
             ELSE IF l = Null THEN Survivor(r)
             ELSE IF r = Null THEN Survivor(l)
             ELSE Upd(HashedBranch(n.depth, l, r), sub.used)
    [] n.kind = "ext" ->
         LET sub == SmtRemoveAt(n.child, n.to, key)
         IN  IF sub.node = Null THEN Upd(Null, sub.used - 1)
             ELSE LET m == TryMergeExtension(n, sub.node) IN Upd(m.node, sub.used + m.used)
-----------------------------------------------------------------------------
EmptySmt == [root |-> Null, hash |-> EmptyHash[Depth], leaves |-> 0, nodes |-> 0]

SmtInsert(smt, key, value) ==
  LET u == SmtInsertAt(smt.root, 0, key, value)
  IN  [root |-> u.node, hash |-> RootHash(u.node), nodes |-> smt.nodes + u.used,
       leaves |-> smt.leaves + IF FindLeaf(smt.root, key) THEN 0 ELSE 1]

SmtRemove(smt, key) ==
  IF ~FindLeaf(smt.root, key) THEN smt
  ELSE LET u == SmtRemoveAt(smt.root, 0, key)
       IN  [root |-> u.node, hash |-> RootHash(u.node), nodes |-> smt.nodes + u.used,
            leaves |-> smt.leaves - 1]

\* The root of the uncompressed tree with these leaves, over the keys from lo that
\* have h free bits: the definition the compressed tree is to agree with.
RECURSIVE NaiveRoot(_, _, _)
NaiveRoot(leaf, lo, h) ==
  CASE {k \in DOMAIN leaf : k \in lo..(lo + 2^h - 1)} = {} -> EmptyHash[h]
    [] h = 0 -> LeafHash(leaf[lo])
    [] OTHER -> Sha(NaiveRoot(leaf, lo, h - 1), NaiveRoot(leaf, lo + 2^(h - 1), h - 1))

RECURSIVE NodesIn(_)
NodesIn(n) == CASE n.kind = "null" -> 0
                [] n.kind = "leaf" -> 1
                [] n.kind = "branch" -> 1 + NodesIn(n.left) + NodesIn(n.right)
                [] n.kind = "ext" -> 1 + NodesIn(n.child)

\* Every branch has two children, and no extension is followed by another one.
RECURSIVE Compressed(_)
Compressed(n) == CASE n.kind = "branch" -> /\ n.left # Null /\ n.right # Null
                                           /\ Compressed(n.left) /\ Compressed(n.right)
                   [] n.kind = "ext" -> n.child.kind \in {"leaf", "branch"} /\ Compressed(n.child)
                   [] OTHER -> TRUE
=============================================================================
