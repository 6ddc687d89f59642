--------------------------- MODULE BlockProcessing --------------------------
(***************************************************************************)
(* Node::process_block_inner and the fork pool (network/sync.rs) as run    *)
(* concurrently by the sync manager task and the mining task over one      *)
(* database, with crashes and restarts.                                    *)
(*                                                                         *)
(* One action is one access to state the tasks share: a database           *)
(* transaction, the tip lock, the UTXO write lock, the fork_blocks mutex.  *)
(* Between two actions the other task may run.  A task is a record:        *)
(*   pc     the next step           blk   the block being processed        *)
(*   old, new  the two pointers of the common-ancestor walk; when they     *)
(*             meet they are the fork point                                *)
(*   at     the block whose state the UTXO set has while a reorg undoes    *)
(*          and applies blocks (the loop counters of the code)             *)
(*   fatal  whether the error being unwound is Fatal                       *)
(*   todo   ids the current loop still has to handle                       *)
(*   keep   evict_id, or the old-chain blocks demotion has stored          *)
(*   needed whether a pending reorg trigger waits for blk                  *)
(* Everything the node has in memory is lost in a crash.                   *)
(***************************************************************************)
EXTENDS Storage, ForkPool

CONSTANTS Sync, Miner,      \* the two tasks that call process_block
          Mined,            \* blocks the mining task can find
          Faults,           \* storage calls that may fail
          MaxCrashes        \* bound on crashes

ASSUME ProcAssumption ==
  /\ Sync # Miner /\ None \notin {Sync, Miner}
  /\ Mined \subseteq Block \ {Genesis}
  /\ Faults \subseteq {"commit", "undo", "forkwork", "demote"}
  /\ MaxCrashes \in Nat

Proc == {Sync, Miner}

VARIABLES db,           \* the database
          up,           \* the node runs
          bootFailed,   \* open_chain returned an error
          shutdown,     \* Node.shutdown, set on a Fatal error
          tip,          \* Node.tip
          utxo,         \* Node.utxo_set
          lock,         \* holder of the utxo_set write lock
          forkBlocks,   \* Node.fork_blocks
          task, crashes

memory == <<shutdown, tip, utxo, lock, forkBlocks>>
vars == <<db, up, bootFailed, memory, task, crashes>>

Idle == [pc |-> "idle", blk |-> Genesis, old |-> Genesis, new |-> Genesis,
         at |-> Genesis, fatal |-> FALSE, needed |-> FALSE,
         todo |-> {}, keep |-> {}]

Steps == {"idle", "mining", "choose", "lock", "extend", "commit", "walk", "undo",
          "apply", "unapply", "redo", "forkwork", "reorg", "demote",
          "demoteCommit", "demoteEvict", "cleanup", "settip",
          "storeDecide", "storeEvict", "storePut", "storeCheck",
          "storeCommit", "storeTrim"}

Task == [pc : Steps, blk : Block, old : Block, new : Block, at : Block,
         fatal : BOOLEAN, needed : BOOLEAN,
         todo : SUBSET Block, keep : SUBSET Block]

Init ==
  /\ db = GenesisDb
  /\ up = TRUE /\ bootFailed = FALSE /\ shutdown = FALSE
  /\ tip = Genesis
  /\ utxo = StateRoot[Genesis]
  /\ lock = None
  /\ forkBlocks = {}
  /\ task = [p \in Proc |-> Idle]
  /\ crashes = 0

At(p, step) == up /\ task[p].pc = step
Goto(p, step) == task' = [task EXCEPT ![p].pc = step]
Return(p) == task' = [task EXCEPT ![p] = Idle]
node == <<up, bootFailed, crashes>>

-----------------------------------------------------------------------------
\* Lines up to the fork choice: the block is not stored, its parent header
\* and work are.  No other task inserts the body of b or removes a header,
\* so the reads count as one.  The other outcomes (already stored, orphan, future
\* timestamp, bad header) change nothing here.
ReceiveBlock(b) ==
  /\ At(Sync, "idle") /\ ~shutdown
  /\ b \notin db.body /\ Parent[b] \in db.header
  /\ task' = [task EXCEPT ![Sync].pc = "choose", ![Sync].blk = b]
  /\ UNCHANGED <<db, memory, node>>

\* mining_loop: the template is built on the tip of the moment; the watcher
\* that cancels a stale template polls, so a block may still be found after
\* the tip has moved.  A mined block reaches peers, and comes back from
\* them, only after process_block has accepted it.
StartMining(b) ==
  /\ At(Miner, "idle") /\ ~shutdown
  /\ b \in Mined \ db.header /\ Parent[b] = tip
  /\ task' = [task EXCEPT ![Miner].pc = "mining", ![Miner].blk = b]
  /\ UNCHANGED <<db, memory, node>>

FindBlock ==
  /\ At(Miner, "mining") /\ ~shutdown
  /\ Goto(Miner, "choose")
  /\ UNCHANGED <<db, memory, node>>

CancelMining ==
  /\ At(Miner, "mining") /\ (shutdown \/ tip # Parent[task[Miner].blk])
  /\ Return(Miner)
  /\ UNCHANGED <<db, memory, node>>

\* Faulty variant: the higher chain wins, whatever its work.
OptimisticChoiceByHeight(p) ==
  /\ At(p, "choose")
  /\ Goto(p, IF Height[task[p].blk] > Height[tip] THEN "lock" ELSE "storeDecide")
  /\ UNCHANGED <<db, memory, node>>

\* The optimistic fork choice on an unlocked read of the tip.
OptimisticChoice(p) ==
  /\ At(p, "choose")
  /\ Goto(p, IF IsBetter(task[p].blk, tip) THEN "lock" ELSE "storeDecide")
  /\ UNCHANGED <<db, memory, node>>

\* Faulty variant: the fork choice is not made again under the lock.
AcquireNoRecheck(p) ==
  LET b == task[p].blk IN
  /\ At(p, "lock") /\ lock = None
  /\ lock' = p
  /\ task' = [task EXCEPT ![p].pc = IF Parent[b] = tip THEN "extend" ELSE "walk",
                          ![p].old = tip, ![p].new = Parent[b], ![p].at = tip]
  /\ UNCHANGED <<db, shutdown, tip, utxo, forkBlocks, node>>

\* utxo_set.write(), then the fork choice again on the tip read under it.
Acquire(p) ==
  LET b == task[p].blk IN
  /\ At(p, "lock") /\ lock = None
  /\ IF IsBetter(b, tip)
     THEN /\ lock' = p
          /\ task' = [task EXCEPT
                        ![p].pc = IF Parent[b] = tip THEN "extend" ELSE "walk",
                        ![p].old = tip, ![p].new = Parent[b], ![p].at = tip]
     ELSE lock' = lock /\ Goto(p, "storeDecide")
  /\ UNCHANGED <<db, shutdown, tip, utxo, forkBlocks, node>>

\* Leave process_block_inner with the write lock held: the guard drops.
ReleaseAndReturn(p) == lock' = None /\ Return(p)

-----------------------------------------------------------------------------
(* The block extends the tip.                                              *)

\* Faulty variants: no rollback of a rejected block, no state root check.
ExtendNoRollback(p) ==
  LET b == task[p].blk IN
  /\ At(p, "extend")
  /\ utxo' = Apply(b, utxo)
  /\ IF Accepts(b, utxo) THEN lock' = lock /\ Goto(p, "commit") ELSE ReleaseAndReturn(p)
  /\ UNCHANGED <<db, shutdown, tip, forkBlocks, node>>

ExtendNoRootCheck(p) ==
  LET b == task[p].blk IN
  /\ At(p, "extend")
  /\ IF Applies(b, utxo)
     THEN utxo' = Apply(b, utxo) /\ lock' = lock /\ Goto(p, "commit")
     ELSE utxo' = utxo /\ ReleaseAndReturn(p)
  /\ UNCHANGED <<db, shutdown, tip, forkBlocks, node>>

\* validate_and_apply_block_transactions_atomic and the state root check.
Extend(p) ==
  LET b == task[p].blk IN
  /\ At(p, "extend")
  /\ IF Accepts(b, utxo)
     THEN utxo' = Apply(b, utxo) /\ lock' = lock /\ Goto(p, "commit")
     ELSE utxo' = utxo /\ ReleaseAndReturn(p)
  /\ UNCHANGED <<db, shutdown, tip, forkBlocks, node>>

CommitExtend(p) ==
  /\ At(p, "commit")
  /\ db' = CommitBlock(db, task[p].blk)
  /\ Goto(p, "settip")
  /\ UNCHANGED <<memory, node>>

\* commit_block_atomic failed: undo in memory.
CommitExtendFails(p) ==
  LET b == task[p].blk IN
  /\ At(p, "commit") /\ "commit" \in Faults
  /\ utxo' = Undo(b, utxo)
  /\ shutdown' = (shutdown \/ ~Undoable(b, utxo))
  /\ ReleaseAndReturn(p)
  /\ UNCHANGED <<db, tip, forkBlocks, node>>

-----------------------------------------------------------------------------
(* The block wins but does not extend the tip: a reorg under the lock.     *)

ReturnFatal(p) == shutdown' = TRUE /\ ReleaseAndReturn(p)

\* Faulty variant: of two pointers at the same height neither moves.
WalkStuck(p) ==
  LET o == task[p].old
      n == task[p].new
  IN
  /\ At(p, "walk") /\ o # n
  /\ task' = [task EXCEPT ![p].old = IF Height[o] > Height[n] THEN Parent[o] ELSE o,
                          ![p].new = IF Height[n] > Height[o] THEN Parent[n] ELSE n]
  /\ UNCHANGED <<db, memory, node>>

\* One iteration of the three loops that find the common ancestor.  A
\* canonical body that is missing is Fatal, a missing new-chain body is
\* MissingReorgAncestor; nothing has been changed yet.
Walk(p) ==
  LET o == task[p].old
      n == task[p].new
      up_o == Height[o] >= Height[n]
      up_n == Height[n] >= Height[o]
  IN
  /\ At(p, "walk") /\ o # n
  /\ IF up_o /\ o \notin db.body THEN ReturnFatal(p)
     ELSE IF up_n /\ n \notin db.body THEN shutdown' = shutdown /\ ReleaseAndReturn(p)
     ELSE /\ task' = [task EXCEPT ![p].old = IF up_o THEN Parent[o] ELSE o,
                                  ![p].new = IF up_n THEN Parent[n] ELSE n]
          /\ UNCHANGED <<shutdown, lock>>
  /\ UNCHANGED <<db, tip, utxo, forkBlocks, node>>

WalkDone(p) ==
  /\ At(p, "walk") /\ task[p].old = task[p].new
  /\ Goto(p, "undo")
  /\ UNCHANGED <<db, memory, node>>


\* Undo one old-chain block, newest first, with its stored undo data.
UndoOld(p) ==
  LET a == task[p].at IN
  /\ At(p, "undo") /\ a # task[p].old
  /\ IF a \notin db.spent
     THEN /\ task' = [task EXCEPT ![p].pc = "redo", ![p].fatal = TRUE]
          /\ UNCHANGED <<utxo, shutdown, lock>>
     ELSE IF ~Undoable(a, utxo) THEN ReturnFatal(p) /\ utxo' = utxo
     ELSE /\ utxo' = Undo(a, utxo)
          /\ task' = [task EXCEPT ![p].at = Parent[a]]
          /\ UNCHANGED <<shutdown, lock>>
  /\ UNCHANGED <<db, tip, forkBlocks, node>>

\* get_spent_utxos failed: redo what was undone, then Fatal.
UndoReadFails(p) ==
  /\ At(p, "undo") /\ task[p].at # task[p].old /\ "undo" \in Faults
  /\ task' = [task EXCEPT ![p].pc = "redo", ![p].fatal = TRUE]
  /\ UNCHANGED <<db, memory, node>>

UndoOldDone(p) ==
  /\ At(p, "undo") /\ task[p].at = task[p].old
  /\ Goto(p, "apply")
  /\ UNCHANGED <<db, memory, node>>

\* Validate and apply one new-chain block, oldest first.  A missing parent
\* header is Fatal, an invalid block Recoverable; both unwind.
ApplyNew(p) ==
  LET a == task[p].at
      b == Towards(a, task[p].blk)
  IN
  /\ At(p, "apply") /\ a # task[p].blk
  /\ IF a \in db.header /\ Accepts(b, utxo)
     THEN utxo' = Apply(b, utxo) /\ task' = [task EXCEPT ![p].at = b]
     ELSE /\ task' = [task EXCEPT ![p].pc = "unapply", ![p].fatal = a \notin db.header]
          /\ utxo' = utxo
  /\ UNCHANGED <<db, shutdown, tip, lock, forkBlocks, node>>

ApplyNewDone(p) ==
  /\ At(p, "apply") /\ task[p].at = task[p].blk
  /\ Goto(p, "forkwork")
  /\ UNCHANGED <<db, memory, node>>

\* undo_applied_new_chain
Unapply(p) ==
  LET a == task[p].at IN
  /\ At(p, "unapply")
  /\ IF a = task[p].old THEN Goto(p, "redo") /\ UNCHANGED <<utxo, shutdown, lock>>
     ELSE IF ~Undoable(a, utxo) THEN ReturnFatal(p) /\ utxo' = utxo
     ELSE /\ utxo' = Undo(a, utxo)
          /\ task' = [task EXCEPT ![p].at = Parent[a]]
          /\ UNCHANGED <<shutdown, lock>>
  /\ UNCHANGED <<db, tip, forkBlocks, node>>

\* redo_old_chain_blocks, then return the error that started the unwinding.
RedoOld(p) ==
  LET a == task[p].at
      b == Towards(a, tip)
  IN
  /\ At(p, "redo")
  /\ IF a = tip
     THEN /\ shutdown' = (shutdown \/ task[p].fatal)
          /\ utxo' = utxo
          /\ ReleaseAndReturn(p)
     ELSE IF ~Applies(b, utxo) THEN ReturnFatal(p) /\ utxo' = utxo
     ELSE /\ utxo' = Apply(b, utxo)
          /\ task' = [task EXCEPT ![p].at = b]
          /\ UNCHANGED <<shutdown, lock>>
  /\ UNCHANGED <<db, tip, forkBlocks, node>>

\* get_cumulative_work(fork point): `?` on a read error returns
\* Recoverable at once, a missing row returns Fatal at once.
ReadForkWork(p) ==
  /\ At(p, "forkwork")
  /\ IF task[p].old \in db.header
     THEN Goto(p, "reorg") /\ UNCHANGED <<shutdown, lock>>
     ELSE ReturnFatal(p)
  /\ UNCHANGED <<db, tip, utxo, forkBlocks, node>>

ReadForkWorkFails(p) ==
  /\ At(p, "forkwork") /\ "forkwork" \in Faults
  /\ ReleaseAndReturn(p)
  /\ UNCHANGED <<db, shutdown, tip, utxo, forkBlocks, node>>

CommitReorgStep(p) ==
  /\ At(p, "reorg")
  /\ db' = CommitReorg(db, task[p].blk, task[p].old)
  /\ task' = [task EXCEPT ![p].pc = "demote",
                          ![p].todo = Anc[tip] \ Anc[task[p].old]]
  /\ UNCHANGED <<memory, node>>

\* commit_reorg_atomic failed: undo the new chain, redo the old one.
CommitReorgFails(p) ==
  /\ At(p, "reorg") /\ "commit" \in Faults
  /\ Goto(p, "unapply")
  /\ UNCHANGED <<db, memory, node>>

-----------------------------------------------------------------------------
(* After the reorg is committed: demote the old chain to fork storage.     *)

\* One iteration of the demotion I/O loop (newest first).
DemoteOne(p) ==
  /\ At(p, "demote")
  /\ \E x \in task[p].todo :
        /\ IsHighest(x, task[p].todo)
        /\ db' = StoreFork(db, x)
        /\ task' = [task EXCEPT ![p].todo = @ \ {x}, ![p].keep = @ \cup {x}]
  /\ UNCHANGED <<memory, node>>

\* store_fork_block_atomic failed: warn and continue with the next block.
DemoteOneFails(p) ==
  /\ At(p, "demote") /\ "demote" \in Faults
  /\ \E x \in task[p].todo :
        /\ IsHighest(x, task[p].todo)
        /\ task' = [task EXCEPT ![p].todo = @ \ {x}]
  /\ UNCHANGED <<db, memory, node>>

DemoteDone(p) ==
  /\ At(p, "demote") /\ task[p].todo = {}
  /\ Goto(p, "demoteCommit")
  /\ UNCHANGED <<db, memory, node>>

DemoteCommit(p) ==
  /\ At(p, "demoteCommit")
  /\ \E kept \in Trims(forkBlocks \cup task[p].keep, {}) :
        /\ forkBlocks' = kept
        /\ task' = [task EXCEPT ![p].pc = "demoteEvict",
                                ![p].todo = (forkBlocks \cup task[p].keep) \ kept]
  /\ UNCHANGED <<db, shutdown, tip, utxo, lock, node>>

\* Evict one trimmed entry from disk; the loop ends at step `next`.
EvictOne(p, step, next) ==
  /\ At(p, step)
  /\ IF task[p].todo = {}
     THEN /\ IF next = "idle" THEN Return(p) ELSE Goto(p, next)
          /\ db' = db
     ELSE \E x \in task[p].todo :
             /\ db' = EvictFork(db, x)
             /\ task' = [task EXCEPT ![p].todo = @ \ {x}]
  /\ UNCHANGED <<memory, node>>

DemoteEvict(p) == EvictOne(p, "demoteEvict", "cleanup")

\* cleanup_promoted_fork_blocks
CleanupPromoted(p) ==
  /\ At(p, "cleanup")
  /\ forkBlocks' = forkBlocks \ (Anc[task[p].blk] \ Anc[task[p].old])
  /\ Goto(p, "settip")
  /\ UNCHANGED <<db, shutdown, tip, utxo, lock, node>>

\* The in-memory tip moves while the write lock is still held.
SetTip(p) ==
  /\ At(p, "settip")
  /\ tip' = task[p].blk
  /\ ReleaseAndReturn(p)
  /\ UNCHANGED <<db, shutdown, utxo, forkBlocks, node>>

-----------------------------------------------------------------------------
(* try_store_fork_block: no UTXO lock, and the fork_blocks mutex is not    *)
(* held across a database call.  Whether a pending reorg trigger waits for *)
(* the block is decided in BlockIntake; here it may or may not.  A needed  *)
(* id is a missing body, so no entry of the pool is needed.                *)

\* has_block and the decision under the mutex; the blocks that reorg
\* triggers wait for (needed) are whatever the callers left.  Only this call can insert
\* the body of its block, so the answer of has_block stays true in between.
StoreDecide(p) ==
  LET b == task[p].blk IN
  /\ At(p, "storeDecide")
  /\ IF b \in db.body \cup forkBlocks THEN Return(p)
     ELSE IF Cardinality(forkBlocks) < MAX_FORK_BLOCKS THEN Goto(p, "storePut")
     ELSE \E needed \in SUBSET (forkBlocks \cup {b}) :
            IF Victims(forkBlocks, b, needed) = {} THEN Return(p)
            ELSE \E v \in Victims(forkBlocks, b, needed) :
                   task' = [task EXCEPT ![p].pc = "storeEvict",
                                        ![p].keep = {v},
                                        ![p].needed = (b \in needed)]
  /\ UNCHANGED <<db, memory, node>>

StoreEvict(p) ==
  /\ At(p, "storeEvict")
  /\ \E x \in task[p].keep : db' = EvictFork(db, x)
  /\ Goto(p, "storePut")
  /\ UNCHANGED <<memory, node>>

StorePut(p) ==
  /\ At(p, "storePut")
  /\ db' = StoreFork(db, task[p].blk)
  /\ Goto(p, "storeCheck")
  /\ UNCHANGED <<memory, node>>

\* is_fork_block: a concurrent commit may have promoted the block.
StoreCheck(p) ==
  /\ At(p, "storeCheck")
  /\ IF task[p].blk \in db.fork THEN Goto(p, "storeCommit") ELSE Return(p)
  /\ UNCHANGED <<db, memory, node>>

\* Push under the fork_blocks mutex and trim to the cap.
StoreCommit(p) ==
  LET pool == (forkBlocks \ task[p].keep) \cup {task[p].blk} IN
  /\ At(p, "storeCommit")
  /\ \E kept \in Trims(pool, IF task[p].needed THEN {task[p].blk} ELSE {}) :
        /\ forkBlocks' = kept
        /\ task' = [task EXCEPT ![p].pc = "storeTrim", ![p].todo = pool \ kept]
  /\ UNCHANGED <<db, shutdown, tip, utxo, lock, node>>

StoreTrim(p) == EvictOne(p, "storeTrim", "idle")

-----------------------------------------------------------------------------
(* Crash at any point, and the boot sequence of main.rs.                   *)

Crash ==
  /\ up /\ crashes < MaxCrashes
  /\ up' = FALSE
  /\ crashes' = crashes + 1
  /\ task' = [p \in Proc |-> Idle]
  /\ lock' = None /\ shutdown' = FALSE /\ forkBlocks' = {}
  /\ tip' = Genesis /\ utxo' = {}
  /\ UNCHANGED <<db, bootFailed>>

\* A node that met a Fatal error stops and is started again.
GracefulStop ==
  /\ up /\ shutdown
  /\ \A p \in Proc : task[p].pc = "idle"
  /\ up' = FALSE
  /\ lock' = None /\ shutdown' = FALSE /\ forkBlocks' = {}
  /\ tip' = Genesis /\ utxo' = {}
  /\ UNCHANGED <<db, bootFailed, task, crashes>>

\* open_chain on its fast path (the snapshot and walk markers are at the
\* tip: every commit moves them), has_stale_height_entries, and
\* load_fork_blocks with its cap.
EvictAll(d, S) ==
  [d EXCEPT !.body = @ \ {x \in S : ~IsCanonical(d, x)},
            !.spent = @ \ {x \in S : ~IsCanonical(d, x)},
            !.fork = @ \ S]

Boot ==
  /\ ~up /\ ~bootFailed
  /\ IF /\ db.utxos = StateRoot[db.tip]
        /\ \A h \in 0..MaxHeight : h > Height[db.tip] => db.index[h] = None
     THEN \E kept \in Trims(db.fork, {}) :
            /\ up' = TRUE /\ bootFailed' = FALSE
            /\ tip' = db.tip /\ utxo' = db.utxos
            /\ forkBlocks' = kept
            /\ db' = EvictAll(db, db.fork \ kept)
     ELSE bootFailed' = TRUE /\ UNCHANGED <<up, tip, utxo, forkBlocks, db>>
  /\ UNCHANGED <<shutdown, lock, task, crashes>>

Step(p) ==
  \/ OptimisticChoice(p) \/ Acquire(p)
  \/ Extend(p) \/ CommitExtend(p) \/ CommitExtendFails(p)
  \/ Walk(p) \/ WalkDone(p) \/ UndoOld(p) \/ UndoOldDone(p)
  \/ UndoReadFails(p)
  \/ ApplyNew(p) \/ ApplyNewDone(p) \/ Unapply(p) \/ RedoOld(p)
  \/ ReadForkWork(p) \/ ReadForkWorkFails(p)
  \/ CommitReorgStep(p) \/ CommitReorgFails(p)
  \/ DemoteOne(p) \/ DemoteOneFails(p) \/ DemoteDone(p) \/ DemoteCommit(p)
  \/ DemoteEvict(p) \/ CleanupPromoted(p) \/ SetTip(p)
  \/ StoreDecide(p) \/ StoreEvict(p) \/ StorePut(p) \/ StoreCheck(p)
  \/ StoreCommit(p) \/ StoreTrim(p)

Next ==
  \/ \E b \in Block \ Mined : ReceiveBlock(b)
  \/ \E b \in Mined : StartMining(b)
  \/ FindBlock \/ CancelMining
  \/ \E p \in Proc : Step(p)
  \/ Crash \/ GracefulStop \/ Boot

Spec == Init /\ [][Next]_vars

\* Both tasks are polled forever once started: tokio's multi-threaded
\* runtime.  The write lock of tokio is fair, so a waiting task gets it.
FairSpec ==
  Spec /\ WF_vars(Boot) /\ \A p \in Proc : SF_vars(Step(p))

-----------------------------------------------------------------------------
\* The shape of the state; a tracked fork block always has its body.
TypeOK ==
  /\ db \in Database /\ db.fork \subseteq db.body
  /\ up \in BOOLEAN /\ bootFailed \in BOOLEAN /\ shutdown \in BOOLEAN
  /\ tip \in Block /\ utxo \subseteq OutPoint
  /\ lock \in Proc \cup {None}
  /\ forkBlocks \subseteq Block
  /\ task \in [Proc -> Task]
  /\ crashes \in 0..MaxCrashes

\* Whenever no task holds the UTXO write lock, the in-memory UTXO set is
\* exactly the state the header of the in-memory tip commits to, and that
\* tip is the durable one: every reader that takes the read lock sees a
\* consistent pair, whatever failed before (ProcessBlockError::Recoverable:
\* "processing failed, but UTXO state is consistent").
LedgerMatchesTip ==
  up /\ lock = None => utxo = StateRoot[tip] /\ tip = db.tip

\* Every block of the durable tip's chain has its body, header and undo
\* data: fork eviction racing a reorg never removes what the canonical
\* chain needs.
CanonicalChainIntact ==
  /\ Anc[db.tip] \subseteq db.body \cap db.header
  /\ Anc[db.tip] \ {Genesis} \subseteq db.spent

\* No stored block beats the durable tip: fork choice never leaves a better
\* chain waiting on disk, not even across races and crashes.  The in-memory
\* pool never exceeds its cap, although the decision to admit a block and the
\* push are two critical sections.
NoBetterBody ==
  /\ \A b \in db.body : ~IsBetter(b, db.tip)
  /\ Cardinality(forkBlocks) <= MAX_FORK_BLOCKS

\* UTXOS_TABLE is the state of the durable tip, so open_chain succeeds.
SnapshotExact == db.utxos = StateRoot[db.tip]


Chain == INSTANCE AbstractChain WITH canon <- db.tip, index <- db.index

\* The durable tip and HEIGHT_INDEX implement AbstractChain: reorgs are
\* atomic, adopt only fully validated and better chains, and leave no entry
\* of the old chain in the index.
ImplementsChain == Chain!Spec

\* The inductive invariant behind LedgerMatchesTip, ImplementsChain and
\* SnapshotExact.  While a task holds the write lock, task.at is the block
\* whose state the UTXO set has; the blocks it undoes lie on the chain of
\* the tip, the ones it applies on the chain of its block.
Uncommitted == {"extend", "commit", "walk", "undo", "apply", "unapply",
                "redo", "forkwork", "reorg"}
Committed == {"demote", "demoteCommit", "demoteEvict", "cleanup", "settip"}

Phase(p) ==
  LET t == task[p] IN
  /\ t.pc \in Uncommitted => tip = db.tip /\ IsBetter(t.blk, tip)
  /\ t.pc = "extend" => utxo = StateRoot[tip] /\ Parent[t.blk] = tip
  /\ t.pc = "commit" =>
       /\ Parent[t.blk] = tip
       /\ Accepts(t.blk, StateRoot[tip])
       /\ utxo = StateRoot[t.blk]
  /\ t.pc = "walk" =>
       /\ t.at = tip /\ utxo = StateRoot[tip]
       /\ t.old \in Anc[tip] /\ t.new \in Anc[t.blk]
  /\ t.pc \in {"undo", "apply", "unapply", "forkwork", "reorg"} =>
       t.old \in Anc[t.at] \cap Anc[tip] \cap Anc[t.blk]
  /\ t.pc \in {"undo", "apply", "unapply", "redo"} => utxo = StateRoot[t.at]
  /\ t.pc \in {"undo", "redo"} => t.at \in Anc[tip]
  /\ t.pc \in {"apply", "unapply", "forkwork", "reorg"} =>
       t.at \in Anc[t.blk] /\ ValidChain(t.at)
  /\ t.pc \in {"forkwork", "reorg"} => t.at = t.blk
  /\ t.pc \in {"forkwork", "reorg"} \cup Committed => utxo = StateRoot[t.blk]
  /\ t.pc \in Committed => db.tip = t.blk

LockInv ==
  /\ \A p \in Proc : lock = p <=> task[p].pc \in Uncommitted \cup Committed
  /\ ~up => \A p \in Proc : task[p].pc = "idle"

ChainInv ==
  ValidChain(db.tip) /\ db.index = ChainIndex(db.tip) /\ CanonicalChainIntact

\* The inductive invariant of the proofs: while a task holds the write lock of
\* the UTXO set, the set is what its phase of process_block says.
LedgerInv == LockInv /\ ChainInv /\ LedgerMatchesTip /\ \A p \in Proc : Phase(p)

\* Every call of process_block returns, so the write lock is always
\* released, also when storage calls fail.
CallsReturn ==
  \A p \in Proc : task[p].pc \notin {"idle", "mining"} ~> task[p].pc = "idle"
=============================================================================
