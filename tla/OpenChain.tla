------------------------------ MODULE OpenChain ------------------------------
(***************************************************************************)
(* Opening the chain at start (chain/open.rs, run_node in main.rs) and the *)
(* two markers that let it be quick: the snapshot marker (UTXOS_TABLE is   *)
(* complete, and is the state of this block) and the walk marker (the      *)
(* chain up to this block has been checked).  Every write transaction is   *)
(* a step of its own and the node may crash between any two.  Block        *)
(* processing is taken as its commits (see BlockProcessing).               *)
(*                                                                         *)
(* A data directory may come from a release without the snapshot: then the *)
(* table is empty and there are no markers.  Such a release may also have  *)
(* run later on a directory that has them, and left them as they were.     *)
(***************************************************************************)
EXTENDS Storage

CONSTANT MaxOld   \* bound on runs of an old release after the first start

ASSUME OldAssumption == MaxOld \in Nat

VARIABLES
  db,
  snap,     \* UTXO_SNAPSHOT_TIP_KEY, or None while UTXO_SNAPSHOT_COMPLETE_KEY is absent
  walk,     \* WALK_VERIFIED_TIP_KEY, or None
  phase,    \* "down", a step of the start, "running" or "failed"
  flags,    \* of this start: --rebuild-state, auto_migrate, --full-verify
  mem,      \* the UTXO set in memory, or None
  old       \* runs of an old release

bootVars == <<db, snap, walk, phase, flags, mem, old>>

Flags == [rebuild : BOOLEAN, migrate : BOOLEAN, verify : BOOLEAN]
Branch(b) == Anc[b] \ {Genesis}

\* The tables after b and its ancestors have been committed by a release that
\* knows no snapshot.
LegacyDb(b) ==
  [body |-> Anc[b], header |-> Anc[b], spent |-> Branch(b), index |-> ChainIndex(b),
   tip |-> b, fork |-> {}, utxos |-> {}]

BootInit ==
  /\ \/ db = GenesisDb /\ snap = Genesis /\ walk = Genesis
     \/ /\ \E b \in Block : ValidChain(b) /\ db = LegacyDb(b)
        /\ snap = None /\ walk = None
  /\ phase = "down" /\ mem = None /\ old = 0
  /\ flags = [rebuild |-> FALSE, migrate |-> TRUE, verify |-> FALSE]
-----------------------------------------------------------------------------
\* run_node: --rebuild-state implies migration.
Start(f) ==
  /\ phase = "down"
  /\ flags' = [f EXCEPT !.migrate = @ \/ f.rebuild]
  /\ phase' = IF f.rebuild THEN "clear" ELSE "open"
  /\ UNCHANGED <<db, snap, walk, mem, old>>

\* clear_utxo_snapshot.
Clear ==
  /\ phase = "clear"
  /\ db' = [db EXCEPT !.utxos = {}] /\ snap' = None /\ walk' = None
  /\ phase' = "open"
  /\ UNCHANGED <<flags, mem, old>>

\* replay_chain: every block of the height index is there, is linked to the one
\* below and is valid, and the last is the tip.
Replays ==
  /\ \A h \in 0..Height[db.tip] :
       /\ db.index[h] \in db.body
       /\ h > 0 => Parent[db.index[h]] = db.index[h - 1]
  /\ db.index[0] = Genesis /\ db.index[Height[db.tip]] = db.tip
  /\ ValidChain(db.tip)

\* The snapshot is not the one of the tip: run_replay_and_maybe_migrate.
OpenByReplay ==
  /\ phase = "open" /\ snap # db.tip
  /\ IF Replays
     THEN mem' = StateRoot[db.tip] /\ phase' = IF flags.migrate THEN "finalize" ELSE "running"
     ELSE mem' = None /\ phase' = "failed"
  /\ UNCHANGED <<db, snap, walk, flags, old>>

\* finalize_utxo_snapshot: inserts, and removes nothing.
Finalize ==
  /\ phase = "finalize"
  /\ db' = [db EXCEPT !.utxos = @ \cup mem] /\ snap' = db.tip /\ walk' = db.tip
  /\ phase' = "running"
  /\ UNCHANGED <<flags, mem, old>>

\* The first height the structural walk looks at.
WalkFrom ==
  IF flags.verify \/ walk = None THEN 0
  ELSE IF walk \in db.header /\ Height[walk] <= Height[db.tip] THEN Height[walk] + 1 ELSE 0

\* The walk from there: every block is linked to the one before, the first to
\* the marker, and the last is the tip.
WalkHolds ==
  LET from == WalkFrom
      top == Height[db.tip]
  IN /\ \A h \in from..top :
          /\ db.index[h] \in db.body
          /\ h > 0 => Parent[db.index[h]] = IF h = from THEN walk ELSE db.index[h - 1]
     /\ (IF from > top THEN walk ELSE db.index[top]) = db.tip

\* The snapshot is the one of the tip: walk, load UTXOS_TABLE, compare its root
\* with the one of the header.
OpenBySnapshot ==
  /\ phase = "open" /\ snap = db.tip
  /\ IF WalkHolds /\ db.utxos = StateRoot[db.tip]
     THEN mem' = db.utxos /\ phase' = IF WalkFrom <= Height[db.tip] THEN "stamp" ELSE "running"
     ELSE mem' = None /\ phase' = "failed"
  /\ UNCHANGED <<db, snap, walk, flags, old>>

\* set_walk_verified_tip.
Stamp ==
  /\ phase = "stamp"
  /\ walk' = db.tip
  /\ phase' = "running"
  /\ UNCHANGED <<db, snap, flags, mem, old>>

Boot == \/ \E f \in Flags : Start(f)
        \/ Clear \/ OpenByReplay \/ Finalize \/ OpenBySnapshot \/ Stamp
-----------------------------------------------------------------------------
\* Faulty variant: marks a snapshot that was never completed.
AdvanceSnapshotAlways(b) == snap' = b

\* advance_snapshot_marker_in_txn: only a complete snapshot stays one.
AdvanceSnapshot(b) == snap' = IF snap = None THEN None ELSE b

\* Faulty variant: a reorganisation leaves the walk marker behind.
AdvanceWalkOnExtend(b) == walk' = IF Parent[b] = db.tip THEN b ELSE walk

\* advance_walk_marker_in_txn.
AdvanceWalk(b) == walk' = b

ForkPoint(b) == CHOOSE x \in Anc[b] \cap Anc[db.tip] :
                  \A y \in Anc[b] \cap Anc[db.tip] : Height[y] <= Height[x]

\* commit_block_atomic or commit_reorg_atomic of a better valid chain.
Commit(b) ==
  /\ phase = "running" /\ IsBetter(b, db.tip) /\ ValidChain(b)
  /\ db' = IF Parent[b] = db.tip THEN CommitBlock(db, b) ELSE CommitReorg(db, b, ForkPoint(b))
  /\ AdvanceSnapshot(b) /\ AdvanceWalk(b)
  /\ mem' = StateRoot[b]
  /\ UNCHANGED <<phase, flags, old>>

\* The node stops or crashes.
Crash ==
  /\ phase \notin {"down", "failed"}
  /\ phase' = "down" /\ mem' = None
  /\ UNCHANGED <<db, snap, walk, flags, old>>

\* After a failed start the operator tries again.
Retry ==
  /\ phase = "failed"
  /\ phase' = "down"
  /\ UNCHANGED <<db, snap, walk, flags, mem, old>>

\* An old release runs in between and moves the tip.
OldRelease(b) ==
  /\ phase = "down" /\ old < MaxOld
  /\ IsBetter(b, db.tip) /\ ValidChain(b)
  /\ old' = old + 1
  /\ db' = [db EXCEPT !.body = @ \cup Anc[b], !.header = @ \cup Anc[b], !.spent = @ \cup Branch(b),
                      !.index = ChainIndex(b), !.tip = b]
  /\ UNCHANGED <<snap, walk, phase, flags, mem>>

BootNext == Boot \/ Crash \/ Retry \/ \E b \in Block : Commit(b) \/ OldRelease(b)

BootSpec == BootInit /\ [][BootNext]_bootVars
-----------------------------------------------------------------------------
\* Every component has its type; a rebuild comes with a migration.
BootTypeOK ==
  /\ db \in Database
  /\ snap \in Block \cup {None} /\ walk \in Block \cup {None}
  /\ phase \in {"down", "clear", "open", "finalize", "stamp", "running", "failed"}
  /\ flags \in Flags /\ (flags.rebuild => flags.migrate)
  /\ old \in 0..MaxOld

\* Whatever a crash interrupted and whatever the flags of the starts before,
\* the chain opens (open_chain: "Falls through to [`replay_chain`] when the
\* snapshot is missing, stale, or fails the cross-check"), unless an old release
\* has run in between.
BootsAlways == phase = "failed" => old > 0

\* A snapshot marked complete is the one of the tip, and exact.  An incomplete
\* UTXOS_TABLE, which the commits of a run without a snapshot have written to,
\* holds only outputs that are unspent at the tip: this is why
\* finalize_utxo_snapshot, which only inserts, makes the table exact.  The walk
\* marker "can never point at a block that did not become canonical", and no
\* reorganisation leaves it behind on a branch that is not.  Whatever was in
\* UTXOS_TABLE, --rebuild-state makes it exact, also after a run of an old
\* release.
MarkersExact ==
  /\ [](/\ BootTypeOK
        /\ old = 0 =>
             /\ IF snap = None THEN db.utxos \subseteq StateRoot[db.tip]
                ELSE snap = db.tip /\ db.utxos = StateRoot[db.tip]
             /\ walk # None => walk \in Anc[db.tip])
  /\ [][phase = "finalize" /\ phase' = "running" /\ flags.rebuild =>
          snap' = db'.tip /\ db'.utxos = StateRoot[db'.tip]]_bootVars
=============================================================================
