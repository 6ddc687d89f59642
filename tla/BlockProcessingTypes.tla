------------------------ MODULE BlockProcessingTypes ------------------------
(***************************************************************************)
(* Type correctness of the steps of BlockProcessing.                       *)
(***************************************************************************)
EXTENDS BlockProcessing, LedgerTheorems, TLAPS

-----------------------------------------------------------------------------
(* Types.                                                                  *)

\* Every write transaction keeps the shape of the database.
LEMMA WritesType ==
  ASSUME NEW d \in Database, NEW b \in Block
  PROVE  /\ StoreFork(d, b) \in Database
         /\ EvictFork(d, b) \in Database
         /\ CommitBlock(d, b) \in Database
         /\ \A S \in SUBSET Block : EvictAll(d, S) \in Database
         /\ d.fork \subseteq d.body =>
              /\ StoreFork(d, b).fork \subseteq StoreFork(d, b).body
              /\ EvictFork(d, b).fork \subseteq EvictFork(d, b).body
              /\ CommitBlock(d, b).fork \subseteq CommitBlock(d, b).body
              /\ \A S : EvictAll(d, S).fork \subseteq EvictAll(d, S).body
<1>1. StoreFork(d, b) \in Database
  BY DEF StoreFork, Database
<1>2. EvictFork(d, b) \in Database
  BY DEF EvictFork, Database
<1>3. CommitBlock(d, b) \in Database
  <2>1. Apply(b, d.utxos) \subseteq OutPoint
    BY LedgerAssumption DEF Apply, Database
  <2>2. [d.index EXCEPT ![Height[b]] = b] \in [0..MaxHeight -> Block \cup {None}]
    BY DEF Database
  <2>3. QED
    BY <2>1, <2>2 DEF CommitBlock, Database
<1>4. \A S \in SUBSET Block : EvictAll(d, S) \in Database
  BY DEF EvictAll, Database
<1>5. ASSUME d.fork \subseteq d.body
      PROVE  /\ StoreFork(d, b).fork \subseteq StoreFork(d, b).body
             /\ CommitBlock(d, b).fork \subseteq CommitBlock(d, b).body
             /\ \A S : EvictAll(d, S).fork \subseteq EvictAll(d, S).body
  BY <1>5 DEF StoreFork, CommitBlock, EvictAll, Database
<1>6. ASSUME d.fork \subseteq d.body
      PROVE  EvictFork(d, b).fork \subseteq EvictFork(d, b).body
  BY <1>6 DEF EvictFork, Database
<1>7. QED
  BY <1>1, <1>2, <1>3, <1>4, <1>5, <1>6

\* A reorg keeps the shape of the database too.
LEMMA CommitReorgType ==
  ASSUME NEW d \in Database, NEW b \in Block, NEW fp \in Anc[b]
  PROVE  /\ CommitReorg(d, b, fp) \in Database
         /\ d.fork \subseteq d.body =>
              CommitReorg(d, b, fp).fork \subseteq CommitReorg(d, b, fp).body
<1> DEFINE new == Anc[b] \ Anc[fp]
           index == [h \in 0..MaxHeight |->
                       IF h \in Height[b]+1 .. Height[d.tip] THEN None
                       ELSE IF h \in Height[fp]+1 .. Height[b] THEN AtHeight(b, h)
                       ELSE d.index[h]]
           utxos == ApplyNewChain(UndoOrphans(d.utxos, Anc[d.tip] \ Anc[fp]), new)
<1>1. new \subseteq Block
  BY TreeAssumption
<1>2. index \in [0..MaxHeight -> Block \cup {None}]
  <2>1. ASSUME NEW h \in 0..MaxHeight, h \in Height[fp]+1 .. Height[b]
        PROVE  AtHeight(b, h) \in Block
    <3>1. h \in 0..Height[b]
      BY <2>1, TreeAssumption, AncTransitive
    <3>2. QED
      BY <3>1, AtHeightIn, AncTransitive
  <2>2. QED
    BY <2>1 DEF Database
<1>3. utxos \subseteq OutPoint
  BY DEF ApplyNewChain
<1>4. CommitReorg(d, b, fp) =
        [d EXCEPT !.body = @ \cup new, !.header = @ \cup new,
                  !.spent = @ \cup new, !.fork = @ \ new, !.tip = b,
                  !.index = index, !.utxos = utxos]
  BY DEF CommitReorg, Database
<1> HIDE DEF new, index, utxos
<1>5. CommitReorg(d, b, fp) =
        [body |-> d.body \cup new, header |-> d.header \cup new,
         spent |-> d.spent \cup new, index |-> index, tip |-> b,
         fork |-> d.fork \ new, utxos |-> utxos]
  BY <1>4 DEF Database
<1>6. QED
  BY <1>1, <1>2, <1>3, <1>5 DEF Database

\* Replacing one task record keeps the type of the function.
LEMMA TaskAt ==
  ASSUME task \in [Proc -> Task], NEW p \in Proc, NEW r \in Task,
         task' = [task EXCEPT ![p] = r]
  PROVE  task' \in [Proc -> Task]
OBVIOUS

\* What a step may write into a task record.
LEMMA TaskUpdate ==
  ASSUME NEW t \in Task, NEW step \in Steps, NEW S \in SUBSET Block
  PROVE  /\ [t EXCEPT !.pc = step, !.fatal = TRUE] \in Task
         /\ [t EXCEPT !.pc = step, !.todo = S] \in Task
<1>1. [t EXCEPT !.pc = step, !.fatal = TRUE] \in Task
  BY DEF Task
<1>2. [t EXCEPT !.pc = step, !.todo = S] \in Task
  BY DEF Task
<1>3. QED
  BY <1>1, <1>2

LEMMA StepNames == {"redo", "demote", "demoteEvict"} \subseteq Steps
BY DEF Steps

\* Each step of a task keeps the type of the task records ...
LEMMA StepTaskType ==
  ASSUME TypeOK, LedgerInv, NEW p \in Proc, Step(p)
  PROVE  task' \in [Proc -> Task]
<1> USE DEF At, Goto, Return, ReleaseAndReturn, ReturnFatal
<1> DEFINE t == task[p]
<1>0. /\ task \in [Proc -> Task]
      /\ t.blk \in Block /\ t.old \in Block /\ t.new \in Block
      /\ t.at \in Block /\ t.todo \subseteq Block /\ t.keep \subseteq Block
      /\ Parent[t.blk] \in Block /\ Parent[t.at] \in Block
      /\ Parent[t.old] \in Block /\ Parent[t.new] \in Block
      /\ Idle \in Task /\ tip \in Block /\ forkBlocks \subseteq Block
  BY TreeAssumption DEF TypeOK, Task, Idle, Steps
<1>1. CASE OptimisticChoice(p)
  BY <1>0, <1>1 DEF OptimisticChoice, Task, Steps
<1>2. CASE Acquire(p)
  BY <1>0, <1>2 DEF Acquire, Task, Steps
<1>3. CASE Extend(p)
  <2>1. [t EXCEPT !.pc = "commit"] \in Task
    BY <1>0 DEF Task, Steps
  <2>2. QED
    BY <1>0, <1>3, <2>1, TaskAt DEF Extend
<1>4. CASE CommitExtend(p)
  BY <1>0, <1>4 DEF CommitExtend, Task, Steps
<1>5. CASE CommitExtendFails(p)
  BY <1>0, <1>5 DEF CommitExtendFails, Task, Steps
<1>6. CASE Walk(p)
  <2>1. CASE task' = [task EXCEPT ![p] = Idle]
    BY <1>0, <2>1 DEF Task
  <2>2. CASE \E o, n \in Block : task' = [task EXCEPT ![p].old = o, ![p].new = n]
    <3>1. PICK o, n \in Block : task' = [task EXCEPT ![p].old = o, ![p].new = n]
      BY <2>2
    <3>2. [t EXCEPT !.old = o, !.new = n] \in Task
      BY <1>0 DEF Task
    <3>3. QED
      BY <1>0, <3>1, <3>2, TaskAt
  <2>3. QED
    BY <1>0, <1>6, <2>1, <2>2 DEF Walk
<1>7. CASE WalkDone(p) \/ UndoOldDone(p) \/ ApplyNewDone(p)
  BY <1>0, <1>7 DEF WalkDone, UndoOldDone, ApplyNewDone, Task, Steps
<1>8. CASE UndoOld(p)
  BY <1>0, <1>8 DEF UndoOld, Task, Steps
<1>8a. CASE UndoReadFails(p)
  <2>1. [t EXCEPT !.pc = "redo", !.fatal = TRUE] \in Task
    BY <1>0, TaskUpdate, StepNames
  <2>2. QED
    BY <1>0, <1>8a, <2>1, TaskAt DEF UndoReadFails
<1>9. CASE ApplyNew(p)
  <2>1. t.at # t.blk /\ t.at \in Anc[t.blk]
    BY <1>9 DEF ApplyNew, LedgerInv, Phase
  <2>2. Towards(t.at, t.blk) \in Block
    BY <1>0, <2>1, TowardsStep
  <2>3. QED
    BY <1>0, <1>9, <2>2 DEF ApplyNew, Task, Steps
<1>10. CASE Unapply(p)
  <2>1. [t EXCEPT !.pc = "redo"] \in Task /\ [t EXCEPT !.at = Parent[t.at]] \in Task
    BY <1>0 DEF Task, Steps
  <2>2. QED
    BY <1>0, <1>10, <2>1, TaskAt DEF Unapply
<1>11. CASE RedoOld(p)
  <2>1. t.at \in Anc[tip]
    BY <1>11 DEF RedoOld, LedgerInv, Phase
  <2>2. t.at # tip => Towards(t.at, tip) \in Block
    BY <1>0, <2>1, TowardsStep
  <2>3. QED
    BY <1>0, <1>11, <2>2 DEF RedoOld, Task, Steps
<1>12. CASE ReadForkWork(p) \/ ReadForkWorkFails(p) \/ CommitReorgFails(p)
  BY <1>0, <1>12 DEF ReadForkWork, ReadForkWorkFails, CommitReorgFails, Task, Steps
<1>13. CASE CommitReorgStep(p)
  <2>1. Anc[tip] \ Anc[t.old] \in SUBSET Block
    BY <1>0, TreeAssumption
  <2>2. [t EXCEPT !.pc = "demote", !.todo = Anc[tip] \ Anc[t.old]] \in Task
    BY <1>0, <2>1, TaskUpdate, StepNames
  <2>3. QED
    BY <1>0, <1>13, <2>2, TaskAt DEF CommitReorgStep
<1>14. CASE DemoteOne(p) \/ DemoteOneFails(p)
  <2>1. PICK x \in t.todo :
          \/ task' = [task EXCEPT ![p].todo = @ \ {x}, ![p].keep = @ \cup {x}]
          \/ task' = [task EXCEPT ![p].todo = @ \ {x}]
    BY <1>0, <1>14 DEF DemoteOne, DemoteOneFails
  <2>2. /\ [t EXCEPT !.todo = t.todo \ {x}, !.keep = t.keep \cup {x}] \in Task
        /\ [t EXCEPT !.todo = t.todo \ {x}] \in Task
    <3>1. t.todo \ {x} \in SUBSET Block /\ t.keep \cup {x} \in SUBSET Block
      BY <1>0
    <3>2. QED
      BY <1>0, <3>1 DEF Task
  <2>3. QED
    BY <1>0, <2>1, <2>2, TaskAt
<1>15. CASE DemoteDone(p) \/ CleanupPromoted(p) \/ SetTip(p)
  BY <1>0, <1>15 DEF DemoteDone, CleanupPromoted, SetTip, Task, Steps
<1>16. CASE DemoteCommit(p)
  <2>1. PICK S \in SUBSET Block :
          task' = [task EXCEPT ![p].pc = "demoteEvict", ![p].todo = S]
    BY <1>0, <1>16 DEF DemoteCommit
  <2>2. [t EXCEPT !.pc = "demoteEvict", !.todo = S] \in Task
    BY <1>0, TaskUpdate, StepNames
  <2>3. QED
    BY <1>0, <2>1, <2>2, TaskAt
<1>17. CASE DemoteEvict(p) \/ StoreTrim(p)
  BY <1>0, <1>17 DEF DemoteEvict, StoreTrim, EvictOne, Task, Steps
<1>18. CASE StoreDecide(p)
  <2>1. CASE task' = [task EXCEPT ![p] = Idle]
    BY <1>0, <2>1 DEF Task
  <2>2. CASE task' = [task EXCEPT ![p].pc = "storePut"]
    BY <1>0, <2>2 DEF Task, Steps
  <2>3. CASE \E x \in Block, needed \in BOOLEAN :
               task' = [task EXCEPT ![p].pc = "storeEvict", ![p].keep = {x},
                                    ![p].needed = needed]
    <3>1. PICK x \in Block, needed \in BOOLEAN :
               task' = [task EXCEPT ![p].pc = "storeEvict", ![p].keep = {x},
                                    ![p].needed = needed]
      BY <2>3
    <3>2. {x} \in SUBSET Block
      OBVIOUS
    <3>3. [t EXCEPT !.pc = "storeEvict", !.keep = {x}, !.needed = needed] \in Task
      BY <1>0, <3>2 DEF Task, Steps
    <3>4. QED
      BY <1>0, <3>1, <3>3, TaskAt
  <2>4. ASSUME NEW S, NEW x \in Victims(forkBlocks, task[p].blk, S),
               task' = [task EXCEPT ![p].pc = "storeEvict", ![p].keep = {x},
                                    ![p].needed = (task[p].blk \in S)]
        PROVE  task' \in [Proc -> Task]
    <3>1. x \in Block /\ (task[p].blk \in S) \in BOOLEAN
      BY DEF Victims, Weakest, TypeOK
    <3>2. QED
      BY Zenon, <2>3, <2>4, <3>1
  <2>5. QED
    BY Zenon, <1>18, <2>1, <2>2, <2>4 DEF StoreDecide
<1>19. CASE StoreEvict(p) \/ StorePut(p) \/ StoreCheck(p)
  BY <1>0, <1>19 DEF StoreEvict, StorePut, StoreCheck, Task, Steps
<1>20. CASE StoreCommit(p)
  <2>1. PICK S \in SUBSET Block :
          task' = [task EXCEPT ![p].pc = "storeTrim", ![p].todo = S]
    BY <1>0, <1>20 DEF StoreCommit
  <2>2. [t EXCEPT !.pc = "storeTrim", !.todo = S] \in Task
    BY <1>0 DEF Task, Steps
  <2>3. QED
    BY <1>0, <2>1, <2>2, TaskAt
<1>21. QED
  BY <1>1, <1>2, <1>3, <1>4, <1>5, <1>6, <1>7, <1>8, <1>8a, <1>9, <1>10, <1>11,
     <1>12, <1>13, <1>14, <1>15, <1>16, <1>17, <1>18, <1>19, <1>20 DEF Step

\* ... and of everything else.
LEMMA StepType ==
  ASSUME TypeOK, LedgerInv, NEW p \in Proc, Step(p)
  PROVE  TypeOK'
<1> USE DEF At, Goto, Return, ReleaseAndReturn, ReturnFatal, memory, node
<1>0. /\ task[p].blk \in Block /\ task[p].keep \subseteq Block
      /\ task[p].todo \subseteq Block
  BY DEF TypeOK, Task
<1>1. task' \in [Proc -> Task]
  BY StepTaskType
<1>2. db' \in Database /\ db'.fork \subseteq db'.body
  <2>1. CASE CommitReorgStep(p)
    BY <1>0, <2>1, CommitReorgType DEF CommitReorgStep, TypeOK, LedgerInv, Phase
  <2>2. CASE DemoteOne(p)
    <3>1. PICK x \in Block : db' = StoreFork(db, x)
      BY <1>0, <2>2 DEF DemoteOne
    <3>2. QED
      BY <3>1, WritesType DEF TypeOK
  <2>3. CASE DemoteEvict(p) \/ StoreTrim(p)
    <3>1. db' = db \/ \E x \in task[p].todo : db' = EvictFork(db, x)
      BY <2>3 DEF DemoteEvict, StoreTrim, EvictOne
    <3>2. db \in Database /\ db.fork \subseteq db.body
      BY DEF TypeOK
    <3>3. QED
      BY <1>0, <3>1, <3>2, WritesType
  <2>4. CASE StoreEvict(p)
    BY <1>0, <2>4, WritesType DEF StoreEvict, TypeOK
  <2>5. CASE StorePut(p) \/ CommitExtend(p)
    BY <1>0, <2>5, WritesType DEF StorePut, CommitExtend, TypeOK
  <2>6. CASE db' = db
    BY <2>6 DEF TypeOK
  <2>7. QED
    BY <2>1, <2>2, <2>3, <2>4, <2>5, <2>6
       DEF Step, OptimisticChoice, Acquire, Extend, CommitExtendFails, Walk,
           WalkDone, UndoOld, UndoReadFails, UndoOldDone, ApplyNew,
           ApplyNewDone, Unapply, RedoOld, ReadForkWork, ReadForkWorkFails,
           CommitReorgFails, DemoteOneFails, DemoteDone, DemoteCommit,
           CleanupPromoted, SetTip, StoreDecide, StoreCheck, StoreCommit
<1>3. utxo' \subseteq OutPoint
  <2>1. \A b \in Block : Apply(b, utxo) \subseteq OutPoint
    BY LedgerAssumption DEF Apply, TypeOK
  <2>2. \A b \in Block : Undo(b, utxo) \subseteq OutPoint
    BY LedgerAssumption DEF Undo, TypeOK
  <2>3. CASE Extend(p) \/ CommitExtendFails(p)
    BY <1>0, <2>1, <2>2, <2>3 DEF Extend, CommitExtendFails, TypeOK
  <2>4. CASE UndoOld(p) \/ Unapply(p)
    BY <2>2, <2>4 DEF UndoOld, Unapply, TypeOK, Task
  <2>5. CASE ApplyNew(p)
    <3>1. Towards(task[p].at, task[p].blk) \in Block
      BY <1>0, <2>5, TowardsStep DEF ApplyNew, LedgerInv, Phase
    <3>2. QED
      BY <2>1, <2>5, <3>1 DEF ApplyNew, TypeOK
  <2>6. CASE RedoOld(p)
    <3>1. task[p].at # tip => Towards(task[p].at, tip) \in Block
      BY <1>0, <2>6, TowardsStep DEF RedoOld, LedgerInv, Phase, TypeOK
    <3>2. QED
      BY <2>1, <2>6, <3>1 DEF RedoOld, TypeOK
  <2>7. CASE utxo' = utxo
    BY <2>7 DEF TypeOK
  <2>8. QED
    BY <2>3, <2>4, <2>5, <2>6, <2>7
       DEF Step, OptimisticChoice, Acquire, CommitExtend, Walk, WalkDone,
           UndoReadFails, UndoOldDone, ApplyNewDone, ReadForkWork,
           ReadForkWorkFails, CommitReorgStep, CommitReorgFails, DemoteOne,
           DemoteOneFails, DemoteDone, DemoteCommit, DemoteEvict, EvictOne,
           CleanupPromoted, SetTip, StoreDecide, StoreEvict, StorePut,
           StoreCheck, StoreCommit, StoreTrim
<1>4. forkBlocks' \subseteq Block
  <2>1. CASE DemoteCommit(p) \/ StoreCommit(p)
    BY <1>0, <2>1 DEF DemoteCommit, StoreCommit, Trims, TypeOK
  <2>2. CASE CleanupPromoted(p)
    BY <2>2 DEF CleanupPromoted, TypeOK
  <2>3. CASE forkBlocks' = forkBlocks
    BY <2>3 DEF TypeOK
  <2>4. QED
    BY <2>1, <2>2, <2>3
       DEF Step, OptimisticChoice, Acquire, Extend, CommitExtend,
           CommitExtendFails, Walk, WalkDone, UndoOld, UndoReadFails,
           UndoOldDone, ApplyNew, ApplyNewDone, Unapply, RedoOld, ReadForkWork,
           ReadForkWorkFails, CommitReorgStep, CommitReorgFails, DemoteOne,
           DemoteOneFails, DemoteDone, DemoteEvict, EvictOne, SetTip,
           StoreDecide, StoreEvict, StorePut, StoreCheck, StoreTrim
<1>5. /\ up' \in BOOLEAN /\ bootFailed' \in BOOLEAN /\ crashes' \in 0..MaxCrashes
      /\ shutdown' \in BOOLEAN /\ tip' \in Block /\ lock' \in Proc \cup {None}
  BY <1>0
     DEF TypeOK, Step, OptimisticChoice, Acquire, Extend, CommitExtend,
         CommitExtendFails, Walk, WalkDone, UndoOld, UndoReadFails,
         UndoOldDone, ApplyNew, ApplyNewDone, Unapply, RedoOld, ReadForkWork,
         ReadForkWorkFails, CommitReorgStep, CommitReorgFails, DemoteOne,
         DemoteOneFails, DemoteDone, DemoteCommit, DemoteEvict, EvictOne,
         CleanupPromoted, SetTip, StoreDecide, StoreEvict, StorePut,
         StoreCheck, StoreCommit, StoreTrim
<1>6. QED
  BY <1>1, <1>2, <1>3, <1>4, <1>5 DEF TypeOK
=============================================================================
