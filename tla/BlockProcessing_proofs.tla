----------------------- MODULE BlockProcessing_proofs -----------------------
(***************************************************************************)
(* Proofs about BlockProcessing for every block tree, every pool cap and   *)
(* every number of crashes.                                                *)
(***************************************************************************)
EXTENDS BlockProcessingTypes

-----------------------------------------------------------------------------
(* The inductive invariant.                                                *)

Locked == Uncommitted \cup Committed

\* What a step of the holder of the write lock has to establish: the other
\* task is outside the locked region, so nothing is known about it.
LEMMA LockedFrame ==
  ASSUME LedgerInv, NEW p \in Proc, up, up', lock = p,
         \A q \in Proc : q # p => task'[q] = task[q],
         \/ lock' = p /\ task'[p].pc \in Locked
         \/ /\ lock' = None /\ task'[p].pc \notin Locked
            /\ utxo' = StateRoot[tip'] /\ tip' = db'.tip,
         Phase(p)', ChainInv'
  PROVE  LedgerInv'
<1>1. \A q \in Proc : q # p => task'[q].pc \notin Locked
  BY DEF LedgerInv, LockInv, Locked
<1>2. ASSUME NEW q \in Proc PROVE Phase(q)'
  <2>1. CASE q = p
    BY <2>1
  <2>2. CASE q # p
    <3>1. task'[q].pc \notin Locked
      BY <1>1, <2>2
    <3>2. QED
      BY <3>1 DEF Phase, Locked, Uncommitted, Committed
  <2>3. QED
    BY <2>1, <2>2
<1>3. LockInv'
  BY <1>1, ProcAssumption DEF LockInv, Locked, Proc
<1>4. LedgerMatchesTip'
  BY ProcAssumption DEF LedgerMatchesTip, Proc
<1>5. QED
  BY <1>2, <1>3, <1>4 DEF LedgerInv

\* A step outside the locked region leaves the ledger alone.
LEMMA UnlockedFrame ==
  ASSUME LedgerInv, NEW p \in Proc, up, up',
         task[p].pc \notin Locked, task'[p].pc \notin Locked,
         \A q \in Proc : q # p => task'[q] = task[q],
         lock' = lock, tip' = tip, utxo' = utxo,
         db'.tip = db.tip, ChainInv'
  PROVE  LedgerInv'
<1>1. ASSUME NEW q \in Proc PROVE Phase(q)'
  <2>1. CASE q = p
    BY <2>1 DEF Phase, Locked, Uncommitted, Committed
  <2>2. CASE q # p
    BY <2>2 DEF LedgerInv, Phase
  <2>3. QED
    BY <2>1, <2>2
<1>2. LockInv'
  BY DEF LedgerInv, LockInv, Locked
<1>3. LedgerMatchesTip' /\ ChainInv'
  BY DEF LedgerInv, LedgerMatchesTip
<1>4. QED
  BY <1>1, <1>2, <1>3 DEF LedgerInv

\* The canonical guard of evict_fork_block holds for every block of the
\* durable tip's chain.
LEMMA CanonicalGuard ==
  ASSUME NEW d \in Database, d.index = ChainIndex(d.tip),
         NEW b \in Anc[d.tip], b \in d.header
  PROVE  IsCanonical(d, b)
<1>1. b \in Block /\ d.tip \in Block
  BY AncTransitive DEF Database
<1>2. Height[b] <= Height[d.tip] /\ Height[b] \in 0..Height[b]
  BY <1>1, AncTransitive, TreeAssumption
<1>3. AtHeight(d.tip, Height[b]) = b
  BY <1>1, <1>2, AtHeightPrefix, AtHeightSelf
<1>4. Height[b] \in 0..MaxHeight
  BY <1>1, TreeAssumption, MaxHeightAssumption
<1>5. QED
  BY <1>2, <1>3, <1>4 DEF IsCanonical, ChainIndex

\* Fork-pool writes touch neither the tip nor its chain.
LEMMA ForkWrites ==
  ASSUME db \in Database, ChainInv, NEW b,
         \/ db' = StoreFork(db, b) \/ db' = EvictFork(db, b)
         \/ db' = EvictAll(db, b) \/ db' = db
  PROVE  db'.tip = db.tip /\ ChainInv'
<1>1. /\ db'.tip = db.tip /\ db'.index = db.index /\ db.header \subseteq db'.header
      /\ \A x \in db.body \ db'.body : x \in db.header => ~IsCanonical(db, x)
      /\ \A x \in db.spent \ db'.spent : x \in db.header => ~IsCanonical(db, x)
  <2>1. CASE db' = StoreFork(db, b)
    BY <2>1 DEF StoreFork, Database
  <2>2. CASE db' = EvictFork(db, b)
    BY <2>2 DEF EvictFork, Database
  <2>3. CASE db' = EvictAll(db, b)
    BY <2>3 DEF EvictAll, Database
  <2>4. CASE db' = db
    BY <2>4
  <2>5. QED
    BY <2>1, <2>2, <2>3, <2>4
<1>2. \A x \in Anc[db.tip] : IsCanonical(db, x)
  BY CanonicalGuard DEF ChainInv, CanonicalChainIntact
<1>3. CanonicalChainIntact'
  BY <1>1, <1>2 DEF ChainInv, CanonicalChainIntact
<1>4. QED
  BY <1>1, <1>3 DEF ChainInv

\* What the two commits write besides UTXOS_TABLE.
LEMMA CommitBlockFields ==
  ASSUME NEW d \in Database, NEW b \in Block
  PROVE  /\ CommitBlock(d, b).tip = b
         /\ CommitBlock(d, b).body = d.body \cup {b}
         /\ CommitBlock(d, b).header = d.header \cup {b}
         /\ CommitBlock(d, b).spent = d.spent \cup {b}
         /\ CommitBlock(d, b).index = [d.index EXCEPT ![Height[b]] = b]
BY DEF CommitBlock, Database

\* The same for a reorg to b with fork point fp.
LEMMA CommitReorgFields ==
  ASSUME NEW d \in Database, NEW b \in Block, NEW fp \in Block
  PROVE  /\ CommitReorg(d, b, fp).tip = b
         /\ CommitReorg(d, b, fp).body = d.body \cup (Anc[b] \ Anc[fp])
         /\ CommitReorg(d, b, fp).header = d.header \cup (Anc[b] \ Anc[fp])
         /\ CommitReorg(d, b, fp).spent = d.spent \cup (Anc[b] \ Anc[fp])
         /\ CommitReorg(d, b, fp).index =
              [h \in 0..MaxHeight |->
                 IF h \in Height[b]+1 .. Height[d.tip] THEN None
                 ELSE IF h \in Height[fp]+1 .. Height[b] THEN AtHeight(b, h)
                 ELSE d.index[h]]
BY DEF CommitReorg, Database

\* A reorg to a valid chain keeps the invariant of the durable chain.
LEMMA ReorgChain ==
  ASSUME db \in Database, ChainInv, NEW b \in Block, NEW fp \in Anc[b],
         fp \in Anc[db.tip], ValidChain(b), db' = CommitReorg(db, b, fp)
  PROVE  db'.tip = b /\ ChainInv'
<1>1. db.tip \in Block /\ fp \in Block /\ Anc[fp] \subseteq Anc[db.tip]
  BY AncTransitive DEF Database
<1> DEFINE index == [h \in 0..MaxHeight |->
                       IF h \in Height[b]+1 .. Height[db.tip] THEN None
                       ELSE IF h \in Height[fp]+1 .. Height[b] THEN AtHeight(b, h)
                       ELSE db.index[h]]
<1>2. /\ db'.tip = b /\ db'.index = index
      /\ db'.body = db.body \cup (Anc[b] \ Anc[fp])
      /\ db'.header = db.header \cup (Anc[b] \ Anc[fp])
      /\ db'.spent = db.spent \cup (Anc[b] \ Anc[fp])
  BY <1>1, CommitReorgFields
<1>3. index = ChainIndex(b)
  <2>1. fp \in Anc[b] \cap Anc[db.tip] /\ db.index = ChainIndex(db.tip)
    BY DEF ChainInv
  <2>2. QED
    BY <1>1, <2>1, IndexReorg
<1> HIDE DEF index
<1>4. CanonicalChainIntact'
  BY <1>1, <1>2 DEF ChainInv, CanonicalChainIntact
<1>5. QED
  BY <1>2, <1>3, <1>4 DEF ChainInv

\* A step of a task outside the locked region keeps the invariant.
LEMMA UnlockedStepInv ==
  ASSUME TypeOK, LedgerInv, NEW p \in Proc
  PROVE  (\/ OptimisticChoice(p) \/ StoreDecide(p) \/ StoreEvict(p)
          \/ StorePut(p) \/ StoreCheck(p) \/ StoreCommit(p) \/ StoreTrim(p))
            => LedgerInv'
<1> USE DEF At, Goto, Return, memory, node
<1> SUFFICES ASSUME \/ OptimisticChoice(p) \/ StoreDecide(p) \/ StoreEvict(p)
                    \/ StorePut(p) \/ StoreCheck(p) \/ StoreCommit(p)
                    \/ StoreTrim(p)
             PROVE  LedgerInv'
  OBVIOUS
<1>0. task \in [Proc -> Task] /\ db \in Database /\ ChainInv
  BY DEF TypeOK, LedgerInv
<1>1. CASE OptimisticChoice(p)
  <2>1. db'.tip = db.tip /\ ChainInv'
    BY <1>0, <1>1, ForkWrites DEF OptimisticChoice
  <2>2. QED
    BY <1>0, <1>1, <2>1, UnlockedFrame
       DEF OptimisticChoice, Locked, Uncommitted, Committed
<1>2. CASE StoreDecide(p)
  <2>1. task'[p].pc \notin Locked
    <3>1. \/ task' = [task EXCEPT ![p] = Idle]
          \/ task' = [task EXCEPT ![p].pc = "storePut"]
          \/ \E x, n : task' = [task EXCEPT ![p].pc = "storeEvict", ![p].keep = {x},
                                            ![p].needed = n]
      BY Zenon, <1>2 DEF StoreDecide
    <3>2. task'[p].pc \in {"idle", "storePut", "storeEvict"}
      <4>1. CASE task' = [task EXCEPT ![p] = Idle]
        BY <1>0, <4>1 DEF Idle
      <4>2. CASE task' = [task EXCEPT ![p].pc = "storePut"]
        BY <1>0, <4>2 DEF Task
      <4>3. ASSUME NEW x, NEW n,
                   task' = [task EXCEPT ![p].pc = "storeEvict", ![p].keep = {x},
                                        ![p].needed = n]
            PROVE  task'[p].pc = "storeEvict"
        <5>1. task'[p] = [task[p] EXCEPT !.pc = "storeEvict", !.keep = {x},
                                         !.needed = n]
          BY <1>0, <4>3
        <5>2. QED
          BY <1>0, <5>1 DEF Task
      <4>4. QED
        BY Zenon, <3>1, <4>1, <4>2, <4>3
    <3>3. QED
      BY <3>2 DEF Locked, Uncommitted, Committed
  <2>2. \A q \in Proc : q # p => task'[q] = task[q]
    BY Zenon, <1>0, <1>2 DEF StoreDecide
  <2>3. db'.tip = db.tip /\ ChainInv'
    BY Zenon, <1>0, <1>2, ForkWrites DEF StoreDecide
  <2>4. QED
    BY Zenon, <1>2, <2>1, <2>2, <2>3, UnlockedFrame
       DEF StoreDecide, Locked, Uncommitted, Committed
<1>3. CASE StoreEvict(p)
  <2>1. db'.tip = db.tip /\ ChainInv'
    BY <1>0, <1>3, ForkWrites DEF StoreEvict
  <2>2. QED
    BY <1>0, <1>3, <2>1, UnlockedFrame
       DEF StoreEvict, Locked, Uncommitted, Committed
<1>4. CASE StorePut(p)
  <2>1. db'.tip = db.tip /\ ChainInv'
    BY <1>0, <1>4, ForkWrites DEF StorePut
  <2>2. QED
    BY <1>0, <1>4, <2>1, UnlockedFrame
       DEF StorePut, Locked, Uncommitted, Committed
<1>5. CASE StoreCheck(p)
  <2>1. task'[p].pc \in {"idle", "storeCommit"}
    BY <1>0, <1>5 DEF StoreCheck, Idle, Task
  <2>2. db'.tip = db.tip /\ ChainInv'
    BY <1>0, <1>5, ForkWrites DEF StoreCheck
  <2>3. QED
    BY <1>0, <1>5, <2>1, <2>2, UnlockedFrame
       DEF StoreCheck, Locked, Uncommitted, Committed
<1>6. CASE StoreCommit(p)
  <2>1. task'[p].pc = "storeTrim" /\ \A q \in Proc : q # p => task'[q] = task[q]
    <3>1. PICK S : task' = [task EXCEPT ![p].pc = "storeTrim", ![p].todo = S]
      BY Zenon, <1>6 DEF StoreCommit
    <3>2. task'[p] = [task[p] EXCEPT !.pc = "storeTrim", !.todo = S]
      BY <1>0, <3>1
    <3>3. QED
      BY <1>0, <3>1, <3>2 DEF Task
  <2>2. db'.tip = db.tip /\ ChainInv'
    BY Zenon, <1>0, <1>6, ForkWrites DEF StoreCommit
  <2>3. QED
    BY Zenon, <1>6, <2>1, <2>2, UnlockedFrame
       DEF StoreCommit, Locked, Uncommitted, Committed
<1>7. CASE StoreTrim(p)
  <2>1. db'.tip = db.tip /\ ChainInv'
    BY <1>0, <1>7, ForkWrites DEF StoreTrim, EvictOne
  <2>2. task'[p].pc \in {"idle", "storeTrim"}
    <3>1. \/ task' = [task EXCEPT ![p] = Idle]
          \/ \E x : task' = [task EXCEPT ![p].todo = @ \ {x}]
      BY <1>7 DEF StoreTrim, EvictOne
    <3>2. task[p].pc = "storeTrim"
      BY <1>7 DEF StoreTrim, EvictOne
    <3>3. QED
      BY <1>0, <3>1, <3>2 DEF Task, Idle
  <2>3. \A q \in Proc : q # p => task'[q] = task[q]
    BY <1>0, <1>7 DEF StoreTrim, EvictOne
  <2>4. QED
    BY <1>7, <2>1, <2>2, <2>3, UnlockedFrame
       DEF StoreTrim, EvictOne, Locked, Uncommitted, Committed
<1>8. QED
  BY <1>1, <1>2, <1>3, <1>4, <1>5, <1>6, <1>7

\* Taking the write lock: the fork choice is made again on the tip read under
\* the lock, and the state is the one LedgerMatchesTip gives.
LEMMA AcquireInv ==
  ASSUME TypeOK, LedgerInv, NEW p \in Proc, Acquire(p)
  PROVE  LedgerInv'
<1> USE DEF At, Goto, node
<1>1. /\ task \in [Proc -> Task] /\ tip \in Block /\ task[p].blk \in Block
      /\ up /\ up' /\ lock = None /\ task[p].pc = "lock"
      /\ tip' = tip /\ utxo' = utxo /\ db' = db
      /\ \A q \in Proc : q # p => task'[q] = task[q]
  BY DEF TypeOK, Task, Acquire
<1>2. utxo = StateRoot[tip] /\ tip = db.tip /\ ChainInv /\ ChainInv'
  BY <1>1 DEF LedgerInv, LedgerMatchesTip, ChainInv, CanonicalChainIntact
<1>3. CASE ~IsBetter(task[p].blk, tip)
  <2>1. lock' = lock /\ task'[p].pc = "storeDecide"
    BY <1>1, <1>3 DEF Acquire, Task
  <2>2. QED
    BY <1>1, <1>2, <2>1, UnlockedFrame DEF Locked, Uncommitted, Committed
<1>4. CASE IsBetter(task[p].blk, tip)
  <2> DEFINE t == task[p]
  <2>1. /\ lock' = p
        /\ task'[p] = [t EXCEPT !.pc = IF Parent[t.blk] = tip THEN "extend" ELSE "walk",
                                !.old = tip, !.new = Parent[t.blk], !.at = tip]
    BY Zenon, <1>1, <1>4 DEF Acquire
  <2>2. /\ task'[p].blk = t.blk /\ task'[p].old = tip /\ task'[p].at = tip
        /\ task'[p].new = Parent[t.blk]
        /\ task'[p].pc = IF Parent[t.blk] = tip THEN "extend" ELSE "walk"
    BY <1>1, <2>1 DEF Task
  <2>3. t.blk # Genesis /\ Parent[t.blk] \in Anc[t.blk] /\ tip \in Anc[tip]
    BY <1>1, <1>4, BetterNotGenesis, AncParent, AncSelf
  <2>4. Phase(p)'
    BY <1>1, <1>2, <1>4, <2>2, <2>3 DEF Phase, Uncommitted, Committed
  <2>5. \A q \in Proc : q # p => task'[q].pc \notin Locked
    BY <1>1, ProcAssumption DEF LedgerInv, LockInv, Locked, Proc
  <2>6. ASSUME NEW q \in Proc PROVE Phase(q)'
    BY <2>4, <2>5 DEF Phase, Locked, Uncommitted, Committed
  <2>7. LockInv'
    BY Zenon, <1>1, <2>1, <2>2, <2>5 DEF LockInv, Locked, Uncommitted, Committed
  <2>8. LedgerMatchesTip' /\ ChainInv'
    BY <1>1, <1>2, <2>1, ProcAssumption DEF LedgerMatchesTip, Proc
  <2>9. QED
    BY <2>6, <2>7, <2>8 DEF LedgerInv
<1>5. QED
  BY <1>3, <1>4

\* A locked step that returns: the guard of the write lock drops, and the
\* UTXO set must be the state of the tip again.
LEMMA ReleaseInv ==
  ASSUME TypeOK, LedgerInv, NEW p \in Proc, up, up', lock = p, ReleaseAndReturn(p),
         utxo' = StateRoot[tip'], tip' = db'.tip, ChainInv'
  PROVE  LedgerInv'
<1>1. task'[p] = Idle /\ \A q \in Proc : q # p => task'[q] = task[q]
  BY DEF TypeOK, ReleaseAndReturn, Return
<1>2. task'[p].pc = "idle"
  BY <1>1 DEF Idle
<1>3. Phase(p)'
  BY <1>2 DEF Phase, Uncommitted, Committed
<1>4. lock' = None /\ task'[p].pc \notin Locked
  BY <1>2 DEF ReleaseAndReturn, Locked, Uncommitted, Committed
<1>5. QED
  BY <1>1, <1>3, <1>4, LockedFrame

\* A locked step that keeps the lock and replaces its own task record.
LEMMA StayInv ==
  ASSUME TypeOK, LedgerInv, NEW p \in Proc, up, up', lock = p, lock' = lock,
         NEW r, task' = [task EXCEPT ![p] = r], r.pc \in Locked,
         task'[p] = r => Phase(p)', ChainInv'
  PROVE  LedgerInv'
<1>1. task'[p] = r /\ \A q \in Proc : q # p => task'[q] = task[q]
  BY DEF TypeOK
<1>2. QED
  BY <1>1, LockedFrame

\* The holder of the lock, and what its phase says.
LEMMA HoldsLock ==
  ASSUME TypeOK, LedgerInv, NEW p \in Proc, up, task[p].pc \in Locked
  PROVE  /\ lock = p /\ Phase(p) /\ ChainInv /\ task[p] \in Task
         /\ task[p].blk \in Block /\ task[p].old \in Block
         /\ task[p].new \in Block /\ task[p].at \in Block /\ tip \in Block
         /\ task[p].todo \in SUBSET Block /\ task[p].keep \in SUBSET Block
         /\ db \in Database
BY DEF TypeOK, Task, LedgerInv, LockInv, Locked

\* The block extends the tip.
LEMMA ExtendInv ==
  ASSUME TypeOK, LedgerInv, NEW p \in Proc,
         Extend(p) \/ CommitExtend(p) \/ CommitExtendFails(p)
  PROVE  LedgerInv'
<1> DEFINE t == task[p]
<1> USE DEF At, Goto, memory, node
<1>1. CASE Extend(p)
  <2>1. up /\ up' /\ t.pc = "extend" /\ t.pc \in Locked /\ tip' = tip /\ db' = db
    BY <1>1 DEF Extend, Locked, Uncommitted
  <2>2. /\ lock = p /\ ChainInv /\ t \in Task /\ t.blk \in Block
        /\ tip = db.tip /\ IsBetter(t.blk, tip) /\ utxo = StateRoot[tip]
        /\ Parent[t.blk] = tip
    BY <2>1, HoldsLock DEF Phase, Uncommitted
  <2>3. ChainInv'
    BY <2>1, <2>2 DEF ChainInv, CanonicalChainIntact
  <2>4. CASE Accepts(t.blk, utxo)
    <3> DEFINE r == [t EXCEPT !.pc = "commit"]
    <3>1. lock' = lock /\ task' = [task EXCEPT ![p] = r] /\ utxo' = Apply(t.blk, utxo)
      BY <1>1, <2>4 DEF Extend
    <3>2. r.pc = "commit" /\ r.blk = t.blk /\ r.pc \in Locked
      BY <2>2 DEF Task, Locked, Uncommitted
    <3>3. utxo' = StateRoot[t.blk]
      BY <2>4, <3>1 DEF Accepts
    <3> HIDE DEF r
    <3>4. task'[p] = r => Phase(p)'
      BY <2>1, <2>2, <2>4, <3>2, <3>3 DEF Phase, Uncommitted, Committed
    <3>5. QED
      BY Zenon, <2>1, <2>2, <2>3, <3>1, <3>2, <3>4, StayInv
  <2>5. CASE ~Accepts(t.blk, utxo)
    BY <1>1, <2>1, <2>2, <2>3, <2>5, ReleaseInv DEF Extend
  <2>6. QED
    BY <2>4, <2>5
<1>2. CASE CommitExtend(p) \/ CommitExtendFails(p)
  <2>1. up /\ up' /\ t.pc = "commit" /\ t.pc \in Locked /\ tip' = tip
    BY <1>2 DEF CommitExtend, CommitExtendFails, Locked, Uncommitted
  <2>2. /\ lock = p /\ ChainInv /\ t \in Task /\ t.blk \in Block /\ db \in Database
        /\ tip = db.tip /\ IsBetter(t.blk, tip) /\ tip \in Block
        /\ Parent[t.blk] = tip /\ Accepts(t.blk, StateRoot[tip])
        /\ utxo = StateRoot[t.blk]
    BY <2>1, HoldsLock DEF Phase, Uncommitted
  <2>3. CASE CommitExtend(p)
    <3> DEFINE r == [t EXCEPT !.pc = "settip"]
    <3>1. /\ lock' = lock /\ utxo' = utxo /\ task' = [task EXCEPT ![p] = r]
          /\ db' = CommitBlock(db, t.blk)
      BY <2>3 DEF CommitExtend
    <3>2. r.pc = "settip" /\ r.blk = t.blk /\ r.pc \in Locked
      BY <2>2 DEF Task, Locked, Committed
    <3>3. t.blk # Genesis
      BY <2>2, BetterNotGenesis
    <3>4. db'.tip = t.blk /\ db'.index = ChainIndex(t.blk)
      <4>1. db'.tip = t.blk /\ db'.index = [db.index EXCEPT ![Height[t.blk]] = t.blk]
        BY <2>2, <3>1, CommitBlockFields
      <4>2. db.index = ChainIndex(Parent[t.blk])
        BY <2>2 DEF ChainInv
      <4>3. QED
        BY <2>2, <3>3, <4>1, <4>2, IndexExtend
    <3>5. ChainInv'
      <4>1. ValidChain(t.blk)
        BY <2>2, <3>3, ValidExtend DEF ChainInv
      <4>2. Anc[t.blk] = {t.blk} \cup Anc[tip]
        BY <2>2, <3>3, AncParent
      <4>3. CanonicalChainIntact'
        <5>1. /\ db'.body = db.body \cup {t.blk}
              /\ db'.header = db.header \cup {t.blk}
              /\ db'.spent = db.spent \cup {t.blk}
          BY Zenon, <2>2, <3>1, CommitBlockFields
        <5>2. QED
          BY <2>2, <3>4, <4>2, <5>1 DEF ChainInv, CanonicalChainIntact
      <4>4. QED
        BY <3>4, <4>1, <4>3 DEF ChainInv
    <3> HIDE DEF r
    <3>6. task'[p] = r => Phase(p)'
      BY <2>2, <3>1, <3>2, <3>4 DEF Phase, Uncommitted, Committed
    <3>7. QED
      BY Zenon, <2>1, <2>2, <3>1, <3>2, <3>5, <3>6, StayInv
  <2>4. CASE CommitExtendFails(p)
    <3>1. Undo(t.blk, utxo) = StateRoot[tip]
      BY <2>2, UndoApply DEF Accepts
    <3>2. db' = db /\ utxo' = StateRoot[tip] /\ ReleaseAndReturn(p)
      BY <2>4, <3>1 DEF CommitExtendFails
    <3>3. ChainInv'
      BY <2>2, <3>2 DEF ChainInv, CanonicalChainIntact
    <3>4. QED
      BY <2>1, <2>2, <3>2, <3>3, ReleaseInv
  <2>5. QED
    BY <1>2, <2>3, <2>4
<1>3. QED
  BY <1>1, <1>2

\* The walk to the common ancestor changes nothing.
LEMMA WalkInv ==
  ASSUME TypeOK, LedgerInv, NEW p \in Proc, Walk(p) \/ WalkDone(p)
  PROVE  LedgerInv'
<1> DEFINE t == task[p]
<1> USE DEF At, Goto, memory, node
<1>1. /\ up /\ up' /\ t.pc = "walk" /\ t.pc \in Locked /\ tip' = tip /\ db' = db
      /\ utxo' = utxo
  BY DEF Walk, WalkDone, Locked, Uncommitted
<1>2. /\ lock = p /\ ChainInv /\ t \in Task /\ t.blk \in Block /\ tip \in Block
      /\ tip = db.tip /\ IsBetter(t.blk, tip) /\ utxo = StateRoot[tip]
      /\ t.at = tip /\ t.old \in Anc[tip] /\ t.new \in Anc[t.blk]
  BY <1>1, HoldsLock DEF Phase, Uncommitted
<1>3. ChainInv'
  BY <1>1, <1>2 DEF ChainInv, CanonicalChainIntact
<1>4. CASE WalkDone(p)
  <2> DEFINE r == [t EXCEPT !.pc = "undo"]
  <2>1. lock' = lock /\ task' = [task EXCEPT ![p] = r] /\ t.old = t.new
    BY <1>4 DEF WalkDone
  <2>2. /\ r.pc = "undo" /\ r.blk = t.blk /\ r.old = t.old /\ r.at = t.at
        /\ r.pc \in Locked
    BY <1>2 DEF Task, Locked, Uncommitted
  <2> HIDE DEF r
  <2>3. task'[p] = r => Phase(p)'
    BY <1>1, <1>2, <2>1, <2>2, AncSelf DEF Phase, Uncommitted, Committed
  <2>4. QED
    BY Zenon, <1>1, <1>2, <1>3, <2>1, <2>2, <2>3, StayInv
<1>5. CASE Walk(p)
  <2>1. CASE ReleaseAndReturn(p)
    BY <1>1, <1>2, <1>3, <2>1, ReleaseInv
  <2>2. CASE ~ReleaseAndReturn(p)
    <3> DEFINE o == IF Height[t.old] >= Height[t.new] THEN Parent[t.old] ELSE t.old
               n == IF Height[t.new] >= Height[t.old] THEN Parent[t.new] ELSE t.new
               r == [t EXCEPT !.old = o, !.new = n]
    <3>1. lock' = lock /\ task' = [task EXCEPT ![p] = r] /\ t.old # t.new
      BY Zenon, <1>5, <2>2 DEF Walk, ReturnFatal
    <3>2. o \in Anc[tip]
      <4>1. CASE Height[t.old] >= Height[t.new]
        <5>1. t.old \in Block /\ t.new \in Block
          BY <1>2, AncTransitive
        <5>2. t.old # Genesis
          BY <3>1, <4>1, <5>1, HighNotGenesis
        <5>3. Parent[t.old] \in Anc[t.old]
          BY <5>1, <5>2, AncParent
        <5>4. QED
          BY <1>2, <4>1, <5>3, AncTransitive
      <4>2. CASE ~(Height[t.old] >= Height[t.new])
        BY <1>2, <4>2
      <4>3. QED
        BY <4>1, <4>2
    <3>3. n \in Anc[t.blk]
      <4>1. CASE Height[t.new] >= Height[t.old]
        <5>1. t.old \in Block /\ t.new \in Block
          BY <1>2, AncTransitive
        <5>2. t.new # Genesis
          BY <3>1, <4>1, <5>1, HighNotGenesis
        <5>3. Parent[t.new] \in Anc[t.new]
          BY <5>1, <5>2, AncParent
        <5>4. QED
          BY <1>2, <4>1, <5>3, AncTransitive
      <4>2. CASE ~(Height[t.new] >= Height[t.old])
        BY <1>2, <4>2
      <4>3. QED
        BY <4>1, <4>2
    <3> HIDE DEF o, n
    <3>4. /\ r.pc = "walk" /\ r.blk = t.blk /\ r.at = t.at /\ r.old = o /\ r.new = n
          /\ r.pc \in Locked
      BY <1>1, <1>2 DEF Task, Locked, Uncommitted
    <3> HIDE DEF r
    <3>5. task'[p] = r => Phase(p)'
      BY Zenon, <1>1, <1>2, <3>2, <3>3, <3>4 DEF Phase, Uncommitted, Committed
    <3>6. QED
      BY Zenon, <1>1, <1>2, <1>3, <3>1, <3>4, <3>5, StayInv
  <2>3. QED
    BY <2>1, <2>2
<1>6. QED
  BY <1>4, <1>5

\* Undoing the old chain: the state steps from a block of the tip's chain
\* to its parent.
LEMMA UndoInv ==
  ASSUME TypeOK, LedgerInv, NEW p \in Proc,
         UndoOld(p) \/ UndoReadFails(p) \/ UndoOldDone(p)
  PROVE  LedgerInv'
<1> DEFINE t == task[p]
<1> USE DEF At, Goto, memory, node
<1>1. /\ up /\ up' /\ t.pc = "undo" /\ t.pc \in Locked /\ tip' = tip /\ db' = db
  BY DEF UndoOld, UndoReadFails, UndoOldDone, Locked, Uncommitted
<1>2. /\ lock = p /\ ChainInv /\ t \in Task /\ t.blk \in Block /\ tip \in Block
      /\ t.at \in Block /\ tip = db.tip /\ IsBetter(t.blk, tip)
      /\ utxo = StateRoot[t.at] /\ t.at \in Anc[tip]
      /\ t.old \in Anc[t.at] /\ t.old \in Anc[tip] /\ t.old \in Anc[t.blk]
  BY <1>1, HoldsLock DEF Phase, Uncommitted
<1>3. ChainInv'
  BY <1>1, <1>2 DEF ChainInv, CanonicalChainIntact
<1>4. CASE UndoOldDone(p)
  <2> DEFINE r == [t EXCEPT !.pc = "apply"]
  <2>1. lock' = lock /\ task' = [task EXCEPT ![p] = r] /\ t.at = t.old /\ utxo' = utxo
    BY <1>4 DEF UndoOldDone
  <2>2. /\ r.pc = "apply" /\ r.blk = t.blk /\ r.old = t.old /\ r.at = t.at
        /\ r.pc \in Locked
    BY <1>2 DEF Task, Locked, Uncommitted
  <2>3. ValidChain(t.at)
    BY <1>2, ValidPrefix DEF ChainInv
  <2> HIDE DEF r
  <2>4. task'[p] = r => Phase(p)'
    BY Zenon, <1>1, <1>2, <2>1, <2>2, <2>3 DEF Phase, Uncommitted, Committed
  <2>5. QED
    BY Zenon, <1>1, <1>2, <1>3, <2>1, <2>2, <2>4, StayInv
<1>5. ASSUME task' = [task EXCEPT ![p].pc = "redo", ![p].fatal = TRUE],
             utxo' = utxo, lock' = lock
      PROVE  LedgerInv'
  <2> DEFINE r == [t EXCEPT !.pc = "redo", !.fatal = TRUE]
  <2>1. task' = [task EXCEPT ![p] = r]
    BY Zenon, <1>5 DEF TypeOK
  <2>2. /\ r.pc = "redo" /\ r.blk = t.blk /\ r.old = t.old /\ r.at = t.at
        /\ r.pc \in Locked
    BY <1>2 DEF Task, Locked, Uncommitted
  <2> HIDE DEF r
  <2>3. task'[p] = r => Phase(p)'
    BY <1>1, <1>2, <1>5, <2>2 DEF Phase, Uncommitted, Committed
  <2>4. QED
    BY Zenon, <1>1, <1>2, <1>3, <1>5, <2>1, <2>2, <2>3, StayInv
<1>6. CASE UndoReadFails(p)
  BY <1>5, <1>6 DEF UndoReadFails
<1>7. CASE UndoOld(p)
  <2>0. t.at # t.old
    BY <1>7 DEF UndoOld
  <2>1. CASE t.at \notin db.spent
    BY <1>5, <1>7, <2>1 DEF UndoOld
  <2>2. CASE t.at \in db.spent
    <3>1. t.at # Genesis
      BY <1>2, <2>0, AncTransitive, TreeAssumption
    <3>2. Undoable(t.at, utxo) /\ Undo(t.at, utxo) = StateRoot[Parent[t.at]]
      BY Zenon, <1>2, <3>1, UndoValid DEF ChainInv
    <3> DEFINE r == [t EXCEPT !.at = Parent[t.at]]
    <3>3. /\ lock' = lock /\ task' = [task EXCEPT ![p] = r]
          /\ utxo' = StateRoot[Parent[t.at]]
      BY <1>7, <2>2, <3>2 DEF UndoOld
    <3>4. /\ r.pc = "undo" /\ r.blk = t.blk /\ r.old = t.old /\ r.at = Parent[t.at]
          /\ r.pc \in Locked
      BY <1>1, <1>2 DEF Task, Locked, Uncommitted
    <3>5. /\ Parent[t.at] \in Anc[t.at] /\ t.old \in Anc[Parent[t.at]]
      BY <1>2, <2>0, <3>1, AncParent
    <3>6. Parent[t.at] \in Anc[tip]
      BY <1>2, <3>5, AncTransitive
    <3> HIDE DEF r
    <3>7. task'[p] = r => Phase(p)'
      BY Zenon, <1>1, <1>2, <3>3, <3>4, <3>5, <3>6 DEF Phase, Uncommitted, Committed
    <3>8. QED
      BY Zenon, <1>1, <1>2, <1>3, <3>3, <3>4, <3>7, StayInv
  <2>3. QED
    BY <2>1, <2>2
<1>8. QED
  BY <1>4, <1>6, <1>7

\* Applying the new chain: the state steps from a block to the next one on
\* the chain of the candidate, which is valid up to there.
LEMMA ApplyInv ==
  ASSUME TypeOK, LedgerInv, NEW p \in Proc, ApplyNew(p) \/ ApplyNewDone(p)
  PROVE  LedgerInv'
<1> DEFINE t == task[p]
<1> USE DEF At, Goto, memory, node
<1>1. /\ up /\ up' /\ t.pc = "apply" /\ t.pc \in Locked /\ tip' = tip /\ db' = db
      /\ lock' = lock
  BY DEF ApplyNew, ApplyNewDone, Locked, Uncommitted
<1>2. /\ lock = p /\ ChainInv /\ t \in Task /\ t.blk \in Block /\ tip \in Block
      /\ t.at \in Block /\ tip = db.tip /\ IsBetter(t.blk, tip)
      /\ utxo = StateRoot[t.at] /\ t.at \in Anc[t.blk] /\ ValidChain(t.at)
      /\ t.old \in Anc[t.at] /\ t.old \in Anc[tip] /\ t.old \in Anc[t.blk]
  BY <1>1, HoldsLock DEF Phase, Uncommitted
<1>3. ChainInv'
  BY <1>1, <1>2 DEF ChainInv, CanonicalChainIntact
<1>4. CASE ApplyNewDone(p)
  <2> DEFINE r == [t EXCEPT !.pc = "forkwork"]
  <2>1. task' = [task EXCEPT ![p] = r] /\ t.at = t.blk /\ utxo' = utxo
    BY <1>4 DEF ApplyNewDone
  <2>2. /\ r.pc = "forkwork" /\ r.blk = t.blk /\ r.old = t.old /\ r.at = t.at
        /\ r.pc \in Locked
    BY <1>2 DEF Task, Locked, Uncommitted
  <2> HIDE DEF r
  <2>3. task'[p] = r => Phase(p)'
    BY Zenon, <1>1, <1>2, <2>1, <2>2 DEF Phase, Uncommitted, Committed
  <2>4. QED
    BY Zenon, <1>1, <1>2, <1>3, <2>1, <2>2, <2>3, StayInv
<1>5. CASE ApplyNew(p)
  <2> DEFINE b == Towards(t.at, t.blk)
  <2>1. t.at # t.blk
    BY <1>5 DEF ApplyNew
  <2>2. b \in Anc[t.blk] /\ b \in Block /\ b # Genesis /\ Parent[b] = t.at
    BY Zenon, <1>2, <2>1, TowardsStep
  <2>3. CASE t.at \in db.header /\ Accepts(b, utxo)
    <3> DEFINE r == [t EXCEPT !.at = b]
    <3>1. task' = [task EXCEPT ![p] = r] /\ utxo' = Apply(b, utxo)
      BY <1>5, <2>3 DEF ApplyNew
    <3> HIDE DEF b
    <3>2. /\ r.pc = "apply" /\ r.blk = t.blk /\ r.old = t.old /\ r.at = b
          /\ r.pc \in Locked
      BY <1>1, <1>2 DEF Task, Locked, Uncommitted
    <3>3. utxo' = StateRoot[b] /\ ValidChain(b)
      BY <1>2, <2>2, <2>3, <3>1, ValidExtend DEF Accepts
    <3>4. t.old \in Anc[b]
      BY <1>2, <2>2, AncParent
    <3> HIDE DEF r
    <3>5. task'[p] = r => Phase(p)'
      BY Zenon, <1>1, <1>2, <2>2, <3>2, <3>3, <3>4 DEF Phase, Uncommitted, Committed
    <3>6. QED
      BY Zenon, <1>1, <1>2, <1>3, <3>1, <3>2, <3>5, StayInv
  <2>4. CASE ~(t.at \in db.header /\ Accepts(b, utxo))
    <3> DEFINE r == [t EXCEPT !.pc = "unapply", !.fatal = t.at \notin db.header]
    <3>1. task' = [task EXCEPT ![p] = r] /\ utxo' = utxo
      BY Zenon, <1>5, <2>4 DEF ApplyNew
    <3>2. /\ r.pc = "unapply" /\ r.blk = t.blk /\ r.old = t.old /\ r.at = t.at
          /\ r.pc \in Locked
      BY <1>2 DEF Task, Locked, Uncommitted
    <3> HIDE DEF r
    <3>3. task'[p] = r => Phase(p)'
      BY Zenon, <1>1, <1>2, <3>1, <3>2 DEF Phase, Uncommitted, Committed
    <3>4. QED
      BY Zenon, <1>1, <1>2, <1>3, <3>1, <3>2, <3>3, StayInv
  <2>5. QED
    BY <2>3, <2>4
<1>6. QED
  BY <1>4, <1>5

\* undo_applied_new_chain retraces the same path down to the fork point.
LEMMA UnapplyInv ==
  ASSUME TypeOK, LedgerInv, NEW p \in Proc, Unapply(p)
  PROVE  LedgerInv'
<1> DEFINE t == task[p]
<1> USE DEF At, Goto, memory, node
<1>1. /\ up /\ up' /\ t.pc = "unapply" /\ t.pc \in Locked /\ tip' = tip /\ db' = db
  BY DEF Unapply, Locked, Uncommitted
<1>2. /\ lock = p /\ ChainInv /\ t \in Task /\ t.blk \in Block /\ tip \in Block
      /\ t.at \in Block /\ tip = db.tip /\ IsBetter(t.blk, tip)
      /\ utxo = StateRoot[t.at] /\ t.at \in Anc[t.blk] /\ ValidChain(t.at)
      /\ t.old \in Anc[t.at] /\ t.old \in Anc[tip] /\ t.old \in Anc[t.blk]
  BY Zenon, <1>1, HoldsLock DEF Phase, Uncommitted
<1>3. ChainInv'
  BY <1>1, <1>2 DEF ChainInv, CanonicalChainIntact
<1>4. CASE t.at = t.old
  <2> DEFINE r == [t EXCEPT !.pc = "redo"]
  <2>1. task' = [task EXCEPT ![p] = r] /\ utxo' = utxo /\ lock' = lock
    BY <1>4 DEF Unapply
  <2>2. /\ r.pc = "redo" /\ r.blk = t.blk /\ r.old = t.old /\ r.at = t.at
        /\ r.pc \in Locked
    BY <1>2 DEF Task, Locked, Uncommitted
  <2> HIDE DEF r
  <2>3. task'[p] = r => Phase(p)'
    BY Zenon, <1>1, <1>2, <1>4, <2>1, <2>2 DEF Phase, Uncommitted, Committed
  <2>4. QED
    BY Zenon, <1>1, <1>2, <1>3, <2>1, <2>2, <2>3, StayInv
<1>5. CASE t.at # t.old
  <2>1. t.at # Genesis
    BY <1>2, <1>5, TreeAssumption
  <2>2. /\ t.at \in Anc[t.at]
        /\ Undoable(t.at, utxo) /\ Undo(t.at, utxo) = StateRoot[Parent[t.at]]
    BY Zenon, <1>2, <2>1, AncSelf, UndoValid
  <2> DEFINE r == [t EXCEPT !.at = Parent[t.at]]
  <2>3. /\ lock' = lock /\ task' = [task EXCEPT ![p] = r]
        /\ utxo' = StateRoot[Parent[t.at]]
    BY <1>5, <2>2 DEF Unapply
  <2>4. /\ r.pc = "unapply" /\ r.blk = t.blk /\ r.old = t.old /\ r.at = Parent[t.at]
        /\ r.pc \in Locked
    BY <1>1, <1>2 DEF Task, Locked, Uncommitted
  <2>5. /\ Parent[t.at] \in Anc[t.at] /\ t.old \in Anc[Parent[t.at]]
    BY <1>2, <1>5, <2>1, AncParent
  <2>6. Parent[t.at] \in Anc[t.blk] /\ ValidChain(Parent[t.at])
    BY <1>2, <2>5, AncTransitive, ValidPrefix
  <2> HIDE DEF r
  <2>7. task'[p] = r => Phase(p)'
    BY Zenon, <1>1, <1>2, <2>3, <2>4, <2>5, <2>6 DEF Phase, Uncommitted, Committed
  <2>8. QED
    BY Zenon, <1>1, <1>2, <1>3, <2>3, <2>4, <2>7, StayInv
<1>6. QED
  BY <1>4, <1>5

\* redo_old_chain_blocks climbs back to the tip and releases the lock there.
LEMMA RedoInv ==
  ASSUME TypeOK, LedgerInv, NEW p \in Proc, RedoOld(p)
  PROVE  LedgerInv'
<1> DEFINE t == task[p]
<1> USE DEF At, Goto, memory, node
<1>1. /\ up /\ up' /\ t.pc = "redo" /\ t.pc \in Locked /\ tip' = tip /\ db' = db
  BY DEF RedoOld, Locked, Uncommitted
<1>2. /\ lock = p /\ ChainInv /\ t \in Task /\ t.blk \in Block /\ tip \in Block
      /\ t.at \in Block /\ tip = db.tip /\ IsBetter(t.blk, tip)
      /\ utxo = StateRoot[t.at] /\ t.at \in Anc[tip]
  BY Zenon, <1>1, HoldsLock DEF Phase, Uncommitted
<1>3. ChainInv'
  BY <1>1, <1>2 DEF ChainInv, CanonicalChainIntact
<1>4. CASE t.at = tip
  <2>1. ReleaseAndReturn(p) /\ utxo' = StateRoot[tip]
    BY <1>2, <1>4 DEF RedoOld
  <2>2. QED
    BY <1>1, <1>2, <1>3, <2>1, ReleaseInv
<1>5. CASE t.at # tip
  <2> DEFINE b == Towards(t.at, tip)
  <2>1. b \in Anc[tip] /\ b \in Block /\ b # Genesis /\ Parent[b] = t.at
    BY <1>2, <1>5, TowardsStep
  <2>2. Applies(b, utxo) /\ Apply(b, utxo) = StateRoot[b]
    BY <1>2, <2>1, UndoValid DEF ChainInv
  <2> DEFINE r == [t EXCEPT !.at = b]
  <2>3. lock' = lock /\ task' = [task EXCEPT ![p] = r] /\ utxo' = StateRoot[b]
    BY <1>5, <2>2 DEF RedoOld
  <2> HIDE DEF b
  <2>4. r.pc = "redo" /\ r.blk = t.blk /\ r.at = b /\ r.pc \in Locked
    BY <1>1, <1>2 DEF Task, Locked, Uncommitted
  <2> HIDE DEF r
  <2>5. task'[p] = r => Phase(p)'
    BY Zenon, <1>1, <1>2, <2>1, <2>3, <2>4 DEF Phase, Uncommitted, Committed
  <2>6. QED
    BY Zenon, <1>1, <1>2, <1>3, <2>3, <2>4, <2>5, StayInv
<1>6. QED
  BY <1>4, <1>5

\* The header of the fork point is there (it is needed for the work of the
\* new chain); the commit switches the durable tip to the candidate, whose
\* whole chain has been validated.
LEMMA ReorgInv ==
  ASSUME TypeOK, LedgerInv, NEW p \in Proc,
         ReadForkWork(p) \/ CommitReorgStep(p) \/ CommitReorgFails(p)
  PROVE  LedgerInv'
<1> DEFINE t == task[p]
<1> USE DEF At, Goto, memory, node
<1>1. /\ up /\ up' /\ t.pc \in {"forkwork", "reorg"} /\ t.pc \in Locked
      /\ tip' = tip /\ utxo' = utxo
  BY DEF ReadForkWork, CommitReorgStep, CommitReorgFails, Locked, Uncommitted
<1>2. /\ lock = p /\ ChainInv /\ t \in Task /\ t.blk \in Block /\ tip \in Block
      /\ t.at \in Block /\ tip = db.tip /\ IsBetter(t.blk, tip) /\ db \in Database
      /\ t.at \in Anc[t.blk] /\ ValidChain(t.at) /\ t.at = t.blk
      /\ utxo = StateRoot[t.blk]
      /\ t.old \in Anc[t.at] /\ t.old \in Anc[tip] /\ t.old \in Anc[t.blk]
  BY Zenon, <1>1, HoldsLock DEF Phase, Uncommitted
<1>3. CASE ReadForkWork(p)
  <2> DEFINE r == [t EXCEPT !.pc = "reorg"]
  <2>1. t.old \in db.header
    BY Zenon, <1>2 DEF ChainInv, CanonicalChainIntact
  <2>2. lock' = lock /\ task' = [task EXCEPT ![p] = r] /\ db' = db
    BY <1>3, <2>1 DEF ReadForkWork
  <2>3. /\ r.pc = "reorg" /\ r.blk = t.blk /\ r.old = t.old /\ r.at = t.at
        /\ r.pc \in Locked
    BY <1>2 DEF Task, Locked, Uncommitted
  <2> HIDE DEF r
  <2>4. task'[p] = r => Phase(p)'
    BY Zenon, <1>1, <1>2, <2>2, <2>3 DEF Phase, Uncommitted, Committed
  <2>5. ChainInv'
    BY Zenon, <1>2, <2>2 DEF ChainInv, CanonicalChainIntact
  <2>6. QED
    BY Zenon, <1>1, <1>2, <2>2, <2>3, <2>4, <2>5, StayInv
<1>4. CASE CommitReorgFails(p)
  <2> DEFINE r == [t EXCEPT !.pc = "unapply"]
  <2>1. lock' = lock /\ task' = [task EXCEPT ![p] = r] /\ db' = db
    BY <1>4 DEF CommitReorgFails
  <2>2. /\ r.pc = "unapply" /\ r.blk = t.blk /\ r.old = t.old /\ r.at = t.at
        /\ r.pc \in Locked
    BY <1>2 DEF Task, Locked, Uncommitted
  <2> HIDE DEF r
  <2>3. task'[p] = r => Phase(p)'
    BY Zenon, <1>1, <1>2, <2>1, <2>2 DEF Phase, Uncommitted, Committed
  <2>4. ChainInv'
    BY Zenon, <1>2, <2>1 DEF ChainInv, CanonicalChainIntact
  <2>5. QED
    BY Zenon, <1>1, <1>2, <2>1, <2>2, <2>3, <2>4, StayInv
<1>5. CASE CommitReorgStep(p)
  <2> DEFINE r == [t EXCEPT !.pc = "demote", !.todo = Anc[tip] \ Anc[t.old]]
  <2>1. /\ lock' = lock /\ task' = [task EXCEPT ![p] = r]
        /\ db' = CommitReorg(db, t.blk, t.old)
    BY Zenon, <1>5 DEF CommitReorgStep
  <2>2. r.pc = "demote" /\ r.blk = t.blk /\ r.pc \in Locked
    BY <1>2 DEF Task, Locked, Committed
  <2>3. db'.tip = t.blk
    BY <1>2, <2>1, ReorgChain
  <2>4. ChainInv'
    BY <1>2, <2>1, ReorgChain
  <2> HIDE DEF r
  <2>5. task'[p] = r => Phase(p)'
    BY Zenon, <1>1, <1>2, <2>2, <2>3 DEF Phase, Uncommitted, Committed
  <2>6. QED
    BY Zenon, <1>1, <1>2, <2>1, <2>2, <2>4, <2>5, StayInv
<1>6. QED
  BY <1>3, <1>4, <1>5

\* After the commit: demotion touches only the fork pool, and the in-memory
\* tip catches up with the durable one before the lock is released.
LEMMA CommittedInv ==
  ASSUME TypeOK, LedgerInv, NEW p \in Proc,
         \/ DemoteOne(p) \/ DemoteOneFails(p) \/ DemoteDone(p) \/ DemoteCommit(p)
         \/ DemoteEvict(p) \/ CleanupPromoted(p) \/ SetTip(p)
  PROVE  LedgerInv'
<1> DEFINE t == task[p]
<1> USE DEF At, Goto, Return, memory, node
<1>1. /\ up /\ up' /\ t.pc \in Committed /\ t.pc \in Locked /\ utxo' = utxo
  BY DEF DemoteOne, DemoteOneFails, DemoteDone, DemoteCommit, DemoteEvict,
         EvictOne, CleanupPromoted, SetTip, Locked, Committed
<1>2. /\ lock = p /\ ChainInv /\ t \in Task /\ t.blk \in Block /\ db \in Database
      /\ utxo = StateRoot[t.blk] /\ db.tip = t.blk
  BY Zenon, <1>1, HoldsLock DEF Phase
<1>3. CASE SetTip(p)
  <2>1. tip' = t.blk /\ ReleaseAndReturn(p) /\ db' = db
    BY <1>3 DEF SetTip
  <2>2. ChainInv'
    BY <1>2, <2>1 DEF ChainInv, CanonicalChainIntact
  <2>3. QED
    BY <1>1, <1>2, <2>1, <2>2, ReleaseInv
<1>4. ASSUME NEW r \in Task, task' = [task EXCEPT ![p] = r], r.blk = t.blk,
             r.pc \in Committed, lock' = lock,
             \/ db' = db \/ \E x : db' = StoreFork(db, x) \/ db' = EvictFork(db, x)
      PROVE  LedgerInv'
  <2>1. db'.tip = db.tip /\ ChainInv'
    BY <1>2, <1>4, ForkWrites
  <2>2. task'[p] = r => Phase(p)'
    BY Zenon, <1>1, <1>2, <1>4, <2>1 DEF Phase, Uncommitted, Committed
  <2>3. QED
    BY Zenon, <1>1, <1>2, <1>4, <2>1, <2>2, StayInv DEF Locked
<1>5. CASE DemoteOne(p)
  <2>1. PICK x : /\ db' = StoreFork(db, x)
                 /\ task' = [task EXCEPT ![p].todo = @ \ {x}, ![p].keep = @ \cup {x}]
                 /\ x \in t.todo
    BY Zenon, <1>5 DEF DemoteOne
  <2> DEFINE r == [t EXCEPT !.todo = t.todo \ {x}, !.keep = t.keep \cup {x}]
  <2>2. t.todo \ {x} \in SUBSET Block /\ t.keep \cup {x} \in SUBSET Block
    BY <1>2, <2>1 DEF Task
  <2>3. r \in Task /\ r.blk = t.blk /\ r.pc = t.pc
    BY Zenon, <1>2, <2>2 DEF Task
  <2>4. task' = [task EXCEPT ![p] = r]
    BY <2>1
  <2> HIDE DEF r
  <2>5. QED
    BY Zenon, <1>1, <1>4, <1>5, <2>1, <2>3, <2>4 DEF DemoteOne
<1>6. CASE DemoteOneFails(p)
  <2>1. PICK x : task' = [task EXCEPT ![p].todo = @ \ {x}]
    BY Zenon, <1>6 DEF DemoteOneFails
  <2> DEFINE r == [t EXCEPT !.todo = t.todo \ {x}]
  <2>2. t.todo \ {x} \in SUBSET Block
    BY Zenon, <1>2 DEF Task
  <2>3. r \in Task /\ r.blk = t.blk /\ r.pc = t.pc
    BY <1>2, <2>2 DEF Task
  <2>4. task' = [task EXCEPT ![p] = r]
    BY Zenon, <2>1
  <2> HIDE DEF r
  <2>5. QED
    BY Zenon, <1>1, <1>4, <1>6, <2>3, <2>4 DEF DemoteOneFails
<1>7. ASSUME NEW step \in Committed, task' = [task EXCEPT ![p].pc = step],
             lock' = lock, db' = db
      PROVE  LedgerInv'
  <2> DEFINE r == [t EXCEPT !.pc = step]
  <2>1. r \in Task /\ r.blk = t.blk /\ r.pc = step
    BY <1>2 DEF Task, Steps, Committed
  <2>2. task' = [task EXCEPT ![p] = r]
    BY <1>7
  <2> HIDE DEF r
  <2>3. QED
    BY Zenon, <1>4, <1>7, <2>1, <2>2
<1>8. CASE DemoteDone(p) \/ CleanupPromoted(p)
  BY <1>7, <1>8 DEF DemoteDone, CleanupPromoted, Committed
<1>9. CASE DemoteCommit(p)
  <2>1. PICK S \in SUBSET Block :
          task' = [task EXCEPT ![p].pc = "demoteEvict", ![p].todo = S]
    BY Zenon, <1>2, <1>9 DEF DemoteCommit, TypeOK, Task
  <2> DEFINE r == [t EXCEPT !.pc = "demoteEvict", !.todo = S]
  <2>2. r \in Task /\ r.blk = t.blk /\ r.pc = "demoteEvict"
    BY Zenon, <1>2 DEF Task, Steps
  <2>3. task' = [task EXCEPT ![p] = r]
    BY Zenon, <2>1
  <2> HIDE DEF r
  <2>4. lock' = lock /\ db' = db
    BY <1>9 DEF DemoteCommit
  <2>5. QED
    BY Zenon, <1>4, <2>2, <2>3, <2>4 DEF Committed
<1>10. CASE DemoteEvict(p)
  <2>1. lock' = lock
    BY <1>10 DEF DemoteEvict, EvictOne
  <2>2. CASE t.todo = {}
    BY <1>7, <1>10, <2>1, <2>2 DEF DemoteEvict, EvictOne, Committed
  <2>3. CASE t.todo # {}
    <3>1. PICK x : db' = EvictFork(db, x) /\ task' = [task EXCEPT ![p].todo = @ \ {x}]
      BY <1>10, <2>3 DEF DemoteEvict, EvictOne
    <3> DEFINE r == [t EXCEPT !.todo = t.todo \ {x}]
    <3>2. t.todo \ {x} \in SUBSET Block
      BY <1>2 DEF Task
    <3>3. r \in Task /\ r.blk = t.blk /\ r.pc = t.pc
      BY <1>2, <3>2 DEF Task
    <3>4. task' = [task EXCEPT ![p] = r]
      BY <3>1
    <3> HIDE DEF r
    <3>5. QED
      BY Zenon, <1>1, <1>4, <2>1, <3>1, <3>3, <3>4
  <2>4. QED
    BY <2>2, <2>3
<1>11. QED
  BY <1>3, <1>5, <1>6, <1>8, <1>9, <1>10

\* The invariant is kept by every step of a task, unless the read of the
\* fork point's work fails: that error path returns without unwinding.
LEMMA StepInv ==
  ASSUME TypeOK, LedgerInv, NEW p \in Proc, Step(p), "forkwork" \notin Faults
  PROVE  LedgerInv'
<1>1. ~ReadForkWorkFails(p)
  BY DEF ReadForkWorkFails
<1>2. QED
  BY <1>1, UnlockedStepInv, AcquireInv, ExtendInv, WalkInv, UndoInv, ApplyInv,
     UnapplyInv, RedoInv, ReorgInv, CommittedInv DEF Step

\* A stopped node, and one that is just booting, hold no lock.
LEMMA DownPhase ==
  ASSUME \A p \in Proc : task'[p].pc = "idle", lock' = None,
         LedgerMatchesTip', ChainInv'
  PROVE  LedgerInv'
<1>1. \A p \in Proc : Phase(p)'
  BY DEF Phase, Uncommitted, Committed
<1>2. LockInv'
  BY ProcAssumption DEF LockInv, Proc, Uncommitted, Committed
<1>3. QED
  BY <1>1, <1>2 DEF LedgerInv

-----------------------------------------------------------------------------
(* Every step of the node.                                                 *)

\* Init establishes the types and the invariant.
LEMMA InitInv == Init => TypeOK /\ LedgerInv
<1> SUFFICES ASSUME Init PROVE TypeOK /\ LedgerInv
  OBVIOUS
<1> USE DEF Init
<1>1. /\ Anc[Genesis] = {Genesis} /\ Height[Genesis] = 0 /\ Genesis \in Block
      /\ Genesis \in Anc[Genesis]
  BY TreeAssumption
<1>2. ChainIndex(Genesis) = [h \in 0..MaxHeight |-> IF h = 0 THEN Genesis ELSE None]
  <2>1. AtHeight(Genesis, 0) = Genesis
    BY <1>1, AtHeightSelf
  <2>2. \A h \in 0..MaxHeight : h <= Height[Genesis] <=> h = 0
    BY <1>1
  <2>3. QED
    BY <2>1, <2>2 DEF ChainIndex
<1>3. GenesisDb \in Database
  <2>1. [h \in 0..MaxHeight |-> IF h = 0 THEN Genesis ELSE None]
          \in [0..MaxHeight -> Block \cup {None}]
    BY <1>1
  <2>2. QED
    BY <1>1, <2>1, LedgerAssumption DEF GenesisDb, Database
<1>4. TypeOK
  <2>1. Idle \in Task
    BY <1>1 DEF Idle, Task, Steps
  <2>2. crashes \in 0..MaxCrashes
    BY ProcAssumption
  <2>3. task \in [Proc -> Task] /\ utxo \subseteq OutPoint
    BY <1>1, <2>1, LedgerAssumption
  <2>4. QED
    BY <1>1, <1>3, <2>2, <2>3 DEF TypeOK, GenesisDb
<1>5. ChainInv
  BY <1>1, <1>2 DEF ChainInv, CanonicalChainIntact, ValidChain, GenesisDb
<1>6. LedgerMatchesTip
  BY DEF LedgerMatchesTip, GenesisDb
<1>7. \A p \in Proc : Phase(p)
  BY Zenon DEF Phase, Idle, Uncommitted, Committed
<1>8. LockInv
  BY ProcAssumption DEF LockInv, Proc, Idle, Uncommitted, Committed
<1>9. QED
  BY <1>4, <1>5, <1>6, <1>7, <1>8 DEF LedgerInv

\* Types of the steps that are not part of a process_block call.
LEMMA NextType ==
  ASSUME TypeOK, LedgerInv, Next
  PROVE  TypeOK'
<1> USE DEF At, Goto, Return, memory, node
<1>0. /\ Idle \in Task /\ Sync \in Proc /\ Miner \in Proc
      /\ task \in [Proc -> Task] /\ Genesis \in Block
  BY TreeAssumption DEF Idle, Task, Steps, Proc, TypeOK
<1>1. ASSUME NEW b \in Block, ReceiveBlock(b) PROVE TypeOK'
  <2>1. [task[Sync] EXCEPT !.pc = "choose", !.blk = b] \in Task
    BY Zenon, <1>0 DEF Task, Steps
  <2>2. task' \in [Proc -> Task]
    BY <1>0, <1>1, <2>1, TaskAt DEF ReceiveBlock
  <2>3. QED
    BY <1>1, <2>2 DEF ReceiveBlock, TypeOK
<1>2. ASSUME NEW b \in Mined, StartMining(b) PROVE TypeOK'
  <2>1. [task[Miner] EXCEPT !.pc = "mining", !.blk = b] \in Task
    BY Zenon, <1>0, ProcAssumption DEF Task, Steps
  <2>2. task' \in [Proc -> Task]
    BY <1>0, <1>2, <2>1, TaskAt DEF StartMining
  <2>3. QED
    BY <1>2, <2>2 DEF StartMining, TypeOK
<1>3. CASE FindBlock \/ CancelMining
  <2>1. [task[Miner] EXCEPT !.pc = "choose"] \in Task
    BY <1>0 DEF Task, Steps
  <2>2. task' \in [Proc -> Task]
    BY <1>0, <1>3, <2>1, TaskAt DEF FindBlock, CancelMining
  <2>3. QED
    BY <1>3, <2>2 DEF FindBlock, CancelMining, TypeOK
<1>4. CASE Crash
  <2>1. crashes' \in 0..MaxCrashes
    BY <1>4, ProcAssumption DEF Crash, TypeOK
  <2>2. task' \in [Proc -> Task]
    BY <1>0, <1>4 DEF Crash
  <2>3. QED
    BY Zenon, <1>0, <1>4, <2>1, <2>2 DEF Crash, TypeOK
<1>5. CASE GracefulStop
  BY Zenon, <1>0, <1>5 DEF GracefulStop, TypeOK
<1>6. CASE Boot
  <2>1. CASE db' = db /\ forkBlocks' = forkBlocks /\ utxo' = utxo
    BY Zenon, <1>6, <2>1 DEF Boot, TypeOK, Database
  <2>2. CASE \E kept \in Trims(db.fork, {}) :
                 /\ forkBlocks' = kept /\ db' = EvictAll(db, db.fork \ kept)
                 /\ tip' = db.tip /\ utxo' = db.utxos /\ up' = TRUE
                 /\ bootFailed' = FALSE
    <3>1. PICK kept \in SUBSET db.fork :
                 /\ forkBlocks' = kept /\ db' = EvictAll(db, db.fork \ kept)
                 /\ tip' = db.tip /\ utxo' = db.utxos /\ up' = TRUE
                 /\ bootFailed' = FALSE
      BY Zenon, <2>2 DEF Trims
    <3>2. db.fork \subseteq Block /\ db.tip \in Block /\ db.utxos \subseteq OutPoint
      BY DEF TypeOK, Database
    <3>3. db' \in Database /\ db'.fork \subseteq db'.body
      BY <3>1, <3>2, WritesType, TreeAssumption DEF TypeOK
    <3>4. QED
      BY Zenon, <1>6, <3>1, <3>2, <3>3 DEF Boot, TypeOK
  <2>3. QED
    BY Zenon, <1>6, <2>1, <2>2 DEF Boot
<1>7. ASSUME NEW p \in Proc, Step(p) PROVE TypeOK'
  BY <1>7, StepType
<1>8. QED
  BY <1>1, <1>2, <1>3, <1>4, <1>5, <1>6, <1>7 DEF Next

\* The invariant holds after every step of the node, crashes included.
LEMMA NextInv ==
  ASSUME TypeOK, LedgerInv, Next, "forkwork" \notin Faults
  PROVE  LedgerInv'
<1> USE DEF At, Goto, Return, memory, node
<1>0. /\ task \in [Proc -> Task] /\ Sync \in Proc /\ Miner \in Proc
      /\ db \in Database /\ ChainInv
  BY DEF TypeOK, Proc, LedgerInv
<1>1. ASSUME NEW p \in Proc, task[p].pc \in {"idle", "mining"}, up, up', db' = db,
             task'[p].pc \in {"idle", "mining", "choose"},
             \A q \in Proc : q # p => task'[q] = task[q],
             lock' = lock, tip' = tip, utxo' = utxo
      PROVE  LedgerInv'
  <2>1. db'.tip = db.tip /\ ChainInv'
    BY <1>0, <1>1, ForkWrites
  <2>2. QED
    BY <1>1, <2>1, UnlockedFrame DEF Locked, Uncommitted, Committed
<1>2. ASSUME NEW b \in Block, ReceiveBlock(b) PROVE LedgerInv'
  <2>1. task'[Sync] = [task[Sync] EXCEPT !.pc = "choose", !.blk = b]
    BY <1>0, <1>2 DEF ReceiveBlock
  <2>2. task'[Sync].pc = "choose"
    BY <1>0, <2>1 DEF Task
  <2>3. \A q \in Proc : q # Sync => task'[q] = task[q]
    BY <1>0, <1>2 DEF ReceiveBlock
  <2>4. QED
    BY <1>0, <1>1, <1>2, <2>2, <2>3 DEF ReceiveBlock
<1>3. ASSUME NEW b \in Mined, StartMining(b) PROVE LedgerInv'
  <2>1. task'[Miner] = [task[Miner] EXCEPT !.pc = "mining", !.blk = b]
    BY <1>0, <1>3 DEF StartMining
  <2>2. task'[Miner].pc = "mining"
    BY <1>0, <2>1 DEF Task
  <2>3. \A q \in Proc : q # Miner => task'[q] = task[q]
    BY <1>0, <1>3 DEF StartMining
  <2>4. QED
    BY <1>0, <1>1, <1>3, <2>2, <2>3 DEF StartMining
<1>4. CASE FindBlock
  <2>1. task'[Miner].pc = "choose" /\ \A q \in Proc : q # Miner => task'[q] = task[q]
    BY <1>0, <1>4 DEF FindBlock, Task
  <2>2. QED
    BY <1>0, <1>1, <1>4, <2>1 DEF FindBlock
<1>5. CASE CancelMining
  <2>1. task'[Miner].pc = "idle" /\ \A q \in Proc : q # Miner => task'[q] = task[q]
    BY <1>0, <1>5 DEF CancelMining, Idle
  <2>2. QED
    BY <1>0, <1>1, <1>5, <2>1 DEF CancelMining
<1>6. CASE Crash
  <2>1. (\A p \in Proc : task'[p].pc = "idle") /\ lock' = None
    BY <1>6 DEF Crash, Idle
  <2>2. LedgerMatchesTip' /\ ChainInv'
    BY Zenon, <1>0, <1>6 DEF Crash, LedgerMatchesTip, ChainInv, CanonicalChainIntact
  <2>3. QED
    BY <2>1, <2>2, DownPhase
<1>7. CASE GracefulStop
  <2>1. (\A p \in Proc : task'[p].pc = "idle") /\ lock' = None
    BY <1>7 DEF GracefulStop
  <2>2. LedgerMatchesTip' /\ ChainInv'
    BY <1>0, <1>7 DEF GracefulStop, LedgerMatchesTip, ChainInv, CanonicalChainIntact
  <2>3. QED
    BY <2>1, <2>2, DownPhase
<1>8. CASE Boot
  <2>1. (\A p \in Proc : task'[p].pc = "idle") /\ lock' = None
    BY <1>8 DEF Boot, LedgerInv, LockInv, TypeOK, Uncommitted, Committed
  <2>2. db'.tip = db.tip /\ ChainInv'
    BY Zenon, <1>0, <1>8, ForkWrites DEF Boot
  <2>3. LedgerMatchesTip'
    BY Zenon, <1>8, <2>2 DEF Boot, LedgerMatchesTip
  <2>4. QED
    BY <2>1, <2>2, <2>3, DownPhase
<1>9. ASSUME NEW p \in Proc, Step(p) PROVE LedgerInv'
  BY <1>9, StepInv
<1>10. QED
  BY <1>2, <1>3, <1>4, <1>5, <1>6, <1>7, <1>8, <1>9 DEF Next

-----------------------------------------------------------------------------
(* The theorems.                                                           *)

\* The invariant is inductive.
LEMMA Inductive ==
  ASSUME "forkwork" \notin Faults
  PROVE  Spec => [](TypeOK /\ LedgerInv)
<1>1. TypeOK /\ LedgerInv /\ [Next]_vars => (TypeOK /\ LedgerInv)'
  <2> SUFFICES ASSUME TypeOK, LedgerInv, [Next]_vars PROVE (TypeOK /\ LedgerInv)'
    OBVIOUS
  <2>1. CASE Next
    BY <2>1, NextType, NextInv
  <2>2. CASE UNCHANGED vars
    <3>1. TypeOK'
      BY <2>2 DEF vars, memory, TypeOK
    <3>2. LockInv' /\ LedgerMatchesTip' /\ ChainInv'
      BY <2>2 DEF vars, memory, LedgerInv, LockInv, LedgerMatchesTip, ChainInv,
                  CanonicalChainIntact
    <3>3. \A p \in Proc : Phase(p)'
      BY Zenon, <2>2 DEF vars, memory, LedgerInv, Phase
    <3>4. QED
      BY <3>1, <3>2, <3>3 DEF LedgerInv
  <2>3. QED
    BY <2>1, <2>2
<1>2. QED
  BY <1>1, InitInv, PTL DEF Spec

\* All variables keep their types in every reachable state.
THEOREM TypeCorrect ==
  ASSUME "forkwork" \notin Faults
  PROVE  Spec => []TypeOK
BY Inductive, PTL

\* Whenever the write lock is free, the in-memory UTXO set is the state the
\* header of the tip commits to and the tip is the durable one, for every
\* block tree, through races of the two tasks, failing commits, failing reads
\* of undo data and crashes.
THEOREM LedgerSafe ==
  ASSUME "forkwork" \notin Faults
  PROVE  Spec => []LedgerMatchesTip
<1>1. LedgerInv => LedgerMatchesTip
  BY DEF LedgerInv
<1>2. QED
  BY <1>1, Inductive, PTL

\* No eviction, demotion or crash removes the body, header or undo data of a
\* block of the durable tip's chain.
THEOREM CanonicalSafe ==
  ASSUME "forkwork" \notin Faults
  PROVE  Spec => []CanonicalChainIntact
<1>1. LedgerInv => CanonicalChainIntact
  BY DEF LedgerInv, ChainInv
<1>2. QED
  BY <1>1, Inductive, PTL

\* The durable tip moves only to a better block.
LEMMA TipImproves ==
  ASSUME TypeOK, LedgerInv, Next
  PROVE  db'.tip = db.tip \/ (db'.tip \in Block /\ IsBetter(db'.tip, db.tip))
<1> USE DEF At, memory, node
<1>0. db \in Database /\ ChainInv
  BY DEF TypeOK, LedgerInv
<1>1. ASSUME NEW p \in Proc, CommitExtend(p) \/ CommitReorgStep(p)
      PROVE  db'.tip \in Block /\ IsBetter(db'.tip, db.tip)
  <2> DEFINE t == task[p]
  <2>1. up /\ t.pc \in {"commit", "reorg"} /\ t.pc \in Locked
    BY <1>1 DEF CommitExtend, CommitReorgStep, Locked, Uncommitted
  <2>2. t.blk \in Block /\ t.old \in Block /\ IsBetter(t.blk, db.tip)
    BY Zenon, <2>1, HoldsLock DEF Phase, Uncommitted
  <2>3. db'.tip = t.blk
    <3>1. CASE CommitExtend(p)
      BY Zenon, <1>0, <2>2, <3>1, CommitBlockFields DEF CommitExtend
    <3>2. CASE CommitReorgStep(p)
      <4>1. db' = CommitReorg(db, t.blk, t.old)
        BY <3>2 DEF CommitReorgStep
      <4>2. CommitReorg(db, t.blk, t.old).tip = t.blk
        BY <1>0 DEF CommitReorg, Database
      <4>3. QED
        BY <4>1, <4>2
    <3>3. QED
      BY <1>1, <3>1, <3>2
  <2>4. QED
    BY <2>2, <2>3
<1>2. ASSUME NEW p \in Proc, Step(p), ~CommitExtend(p), ~CommitReorgStep(p)
      PROVE  \/ db' = db
             \/ \E x : db' = StoreFork(db, x) \/ db' = EvictFork(db, x)
  <2>1. CASE DemoteOne(p) \/ StorePut(p) \/ StoreEvict(p)
    BY Zenon, <2>1 DEF DemoteOne, StorePut, StoreEvict
  <2>2. CASE DemoteEvict(p) \/ StoreTrim(p)
    BY <2>2 DEF DemoteEvict, StoreTrim, EvictOne
  <2>3. QED
    BY Zenon, <1>2, <2>1, <2>2
       DEF Step, OptimisticChoice, Acquire, Extend, CommitExtendFails, Walk,
           WalkDone, UndoOld, UndoReadFails, UndoOldDone, ApplyNew,
           ApplyNewDone, Unapply, RedoOld, ReadForkWork, ReadForkWorkFails,
           CommitReorgFails, DemoteOneFails, DemoteDone, DemoteCommit,
           CleanupPromoted, SetTip, StoreDecide, StoreCheck, StoreCommit
<1>3. ASSUME ~\E p \in Proc : Step(p)
      PROVE  db' = db \/ \E S : db' = EvictAll(db, S)
  BY Zenon, <1>3 DEF Next, ReceiveBlock, StartMining, FindBlock, CancelMining, Crash,
              GracefulStop, Boot
<1>4. QED
  BY Zenon, <1>0, <1>1, <1>2, <1>3, ForkWrites

\* The durable tip and the height index implement AbstractChain: reorgs are
\* atomic and lead to better, fully validated chains only.
THEOREM Refinement ==
  ASSUME "forkwork" \notin Faults
  PROVE  Spec => ImplementsChain
<1>0. /\ \A b : Chain!ChainIndex(b) = ChainIndex(b)
      /\ \A b, c : Chain!IsBetter(b, c) <=> IsBetter(b, c)
      /\ \A b : Chain!ValidChain(b) <=> ValidChain(b)
  BY DEF Chain!ChainIndex, ChainIndex, Chain!AtHeight, AtHeight, Chain!IsBetter,
         IsBetter, Chain!ValidChain, ValidChain, Chain!Accepts, Accepts,
         Chain!Applies, Applies, Chain!Apply, Apply
<1>1. Init => Chain!Init
  <2>1. Init => db.tip = Genesis /\ db.index = ChainIndex(db.tip)
    <3> SUFFICES ASSUME Init PROVE db.tip = Genesis /\ db.index = ChainIndex(db.tip)
      OBVIOUS
    <3>1. db.tip = Genesis
      BY DEF Init, GenesisDb
    <3>2. LedgerInv
      BY InitInv
    <3>3. QED
      BY <3>1, <3>2 DEF LedgerInv, ChainInv
  <2>2. QED
    BY <1>0, <2>1 DEF Chain!Init
<1>2. TypeOK /\ LedgerInv /\ LedgerInv' /\ [Next]_vars
        => [Chain!Next]_<<db.tip, db.index>>
  <2> SUFFICES ASSUME TypeOK, LedgerInv, LedgerInv', [Next]_vars
               PROVE  [Chain!Next]_<<db.tip, db.index>>
    OBVIOUS
  <2>0. /\ db.index = ChainIndex(db.tip) /\ db'.index = ChainIndex(db'.tip)
        /\ ValidChain(db'.tip)
    BY DEF LedgerInv, ChainInv
  <2>1. CASE UNCHANGED vars
    BY <2>1 DEF vars
  <2>2. CASE Next
    <3>1. CASE db'.tip = db.tip
      BY <2>0, <3>1
    <3>2. CASE db'.tip \in Block /\ IsBetter(db'.tip, db.tip)
      BY <1>0, <2>0, <3>2 DEF Chain!Next, Chain!Adopt
    <3>3. QED
      BY <2>2, <3>1, <3>2, TipImproves
  <2>3. QED
    BY <2>1, <2>2
<1>3. QED
  BY <1>1, <1>2, Inductive, PTL DEF Spec, ImplementsChain, Chain!Spec
=============================================================================
