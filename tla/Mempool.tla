------------------------------ MODULE Mempool -------------------------------
(***************************************************************************)
(* The pool of unconfirmed transactions (mempool/mempool.rs) and the tasks *)
(* that share it behind one mutex: the handlers that admit a transaction   *)
(* (NewTx in network/sync.rs, send_raw_transaction in rpc.rs), the tail of *)
(* process_block in the sync manager and in the mining loop, and the block *)
(* template of the mining loop (main.rs, miner/miner.rs).                  *)
(*                                                                         *)
(* The UTXO set and the tip change in one step: both are written under the *)
(* UTXO lock, and both are read under it for a validation.  An output is a *)
(* member of Output; a coinbase output may be spent from a height on.      *)
(***************************************************************************)
EXTENDS BlockTree, Sequences, SequencesExt

CONSTANTS Tx, Output,
          Inputs, Outputs,   \* of a transaction: sets of Output
          ScriptHeights,     \* the heights at which its scripts succeed
          Density, TxId,     \* fee density; the order of transaction ids
          Size, Script,      \* serialized size; the script of an output
          Txs, Reward,       \* of a block: its transactions; coinbase outputs
          SpendableFrom,     \* height an output may be spent at
          MEMPOOL_CAPACITY, MAX_MEMPOOL_BYTES, MAX_TX_SPACE,
          Handler,           \* handlers that admit transactions
          Task,              \* who runs process_block: "sync", "mine"
          Faults             \* whether process_block may fail on a storage error

Spends(b) == UNION {Inputs[t] : t \in Range(Txs[b])}
Creates(b) == Reward[b] \cup UNION {Outputs[t] : t \in Range(Txs[b])}

\* The UTXO set after a block.
Utxo[b \in Block] ==
  (Creates(b) \cup IF b = Genesis THEN {} ELSE Utxo[Parent[b]]) \ Spends(b)

ASSUME MempoolAssumption ==
  /\ \A t \in Tx : Inputs[t] \subseteq Output /\ Outputs[t] \subseteq Output
  /\ \A t \in Tx : Inputs[t] # {} /\ \A u \in Tx \ {t} :
        Outputs[t] \cap Outputs[u] = {} /\ TxId[t] # TxId[u]
  /\ \A t \in Tx : ScriptHeights[t] \subseteq Nat
  /\ \A t \in Tx : Density[t] \in Nat /\ TxId[t] \in Nat /\ Size[t] \in Nat
  /\ Txs \in [Block -> Seq(Tx)] /\ Reward \in [Block -> SUBSET Output]
  /\ SpendableFrom \in [Output -> Nat]
  /\ \A b \in Block \ {Genesis} : Spends(b) \subseteq Utxo[Parent[b]] \cup Creates(b)
  /\ Task \subseteq {"sync", "mine"} /\ Faults \in BOOLEAN
  /\ MEMPOOL_CAPACITY \in Nat \ {0}
  /\ MAX_MEMPOOL_BYTES \in Nat /\ \A t \in Tx : Size[t] <= MAX_MEMPOOL_BYTES
  /\ MAX_TX_SPACE \in Nat

VARIABLES
  tip,
  pool,    \* entries, spent_outpoints, by_script and total_bytes
  adm,     \* a handler: its transaction, the tip of its snapshot, the tip read last
  tail,    \* a task in the tail of process_block
  miner,   \* the mining loop: its snapshot and the outcome of the template
  crossed  \* history: a block became the tip inside the tail of another one,
           \* or between a handler's second look at the tip and the mutex

vars == <<tip, pool, adm, tail, miner, crossed>>

Idle == [pc |-> "idle", confirmed |-> {}, orphans |-> <<>>, ok |-> <<>>, points |-> {}, 
         height |-> 0, utxo |-> {}]

Init ==
  /\ tip = Genesis
  /\ pool = [entries |-> {}, spent |-> {}, index |-> {}, bytes |-> 0]
  /\ adm = [h \in Handler |-> [pc |-> "idle"]]
  /\ tail = [k \in Task |-> Idle]
  /\ miner = [pc |-> "top"]
  /\ crossed = FALSE

\* validate_transaction against a snapshot of the UTXO set, at a height.
Valid(t, utxo, height) ==
  /\ Inputs[t] \subseteq utxo
  /\ \A o \in Inputs[t] : SpendableFrom[o] <= height
  /\ height \in ScriptHeights[t]

\* A transaction that may be in the next block after the tip.
Current(t) == Valid(t, Utxo[tip], Height[tip] + 1)

-----------------------------------------------------------------------------
\* The pool itself: every operation runs under the mutex.

\* The scripts a transaction pays to or spends from.
Touches(t) == {Script[o] : o \in Inputs[t] \cup Outputs[t]}

\* remove, evict_lowest.
RemoveTx(p, t) ==
  IF t \notin p.entries THEN p
  ELSE [entries |-> p.entries \ {t},
        spent   |-> p.spent \ Inputs[t],
        index   |-> p.index \ (Touches(t) \X {t}),
        bytes   |-> IF p.bytes > Size[t] THEN p.bytes - Size[t] ELSE 0]

RemoveAll(p, T) == FoldLeft(RemoveTx, p, SetToSeq(T))

\* pre_check: unknown, and no conflict with an entry.
PreCheck(p, t) == t \notin p.entries /\ Inputs[t] \cap p.spent = {}

\* The order of by_fee_density.
Below(t, u) ==
  Density[t] < Density[u] \/ (Density[t] = Density[u] /\ TxId[t] < TxId[u])

Lowest(T) == CHOOSE t \in T : \A u \in T \ {t} : Below(t, u)

Full(p, t) ==
  Cardinality(p.entries) >= MEMPOOL_CAPACITY \/ p.bytes + Size[t] > MAX_MEMPOOL_BYTES

\* Evict the lowest fee density until the newcomer fits.  An eviction frees at
\* least one entry, so as many rounds as entries are enough.
EvictFor(p, t) ==
  FoldLeft(LAMBDA q, i : IF Full(q, t) /\ q.entries # {} THEN RemoveTx(q, Lowest(q.entries)) ELSE q,
           p, [i \in 1..Cardinality(p.entries) |-> i])

\* add_validated; a full pool refuses a fee density not above its lowest.
AddValidated(p, t) ==
  IF \/ ~PreCheck(p, t)
     \/ (Full(p, t) /\ p.entries # {} /\ Density[t] <= Density[Lowest(p.entries)])
  THEN p
  ELSE LET q == EvictFor(p, t)
       IN [entries |-> q.entries \cup {t},
           spent   |-> q.spent \cup Inputs[t],
           index   |-> q.index \cup (Touches(t) \X {t}),
           bytes   |-> q.bytes + Size[t]]

\* remove_confirmed: the transactions themselves, then those that conflict.
RemoveConfirmed(p, confirmed) ==
  LET q == RemoveAll(p, confirmed)
      gone == UNION {Inputs[t] : t \in confirmed}
  IN RemoveAll(q, {t \in q.entries : Inputs[t] \cap gone # {}})

\* referenced_outpoints.
ReferencedOutpoints(p) == UNION {Inputs[t] : t \in p.entries}

\* revalidate.
Revalidate(p, utxo, height) == RemoveAll(p, {t \in p.entries : ~Valid(t, utxo, height)})
-----------------------------------------------------------------------------
\* Admission by a handler.

\* pre_check under the mutex; a refused transaction is dropped.
Offer(h, t) ==
  /\ adm[h].pc = "idle"
  /\ PreCheck(pool, t)
  /\ adm' = [adm EXCEPT ![h] = [pc |-> "validate", tx |-> t]]
  /\ UNCHANGED <<tip, pool, tail, miner, crossed>>

\* The snapshot of the tip and of the inputs, and validate_transaction.
Validate(h) ==
  /\ adm[h].pc = "validate"
  /\ adm' = [adm EXCEPT ![h] = IF Current(@.tx) THEN [pc |-> "tip", tx |-> @.tx, tip |-> tip]
                                                ELSE [pc |-> "idle"]]
  /\ UNCHANGED <<tip, pool, tail, miner, crossed>>

\* Faulty variant: no second look at the tip.
ReadTipSkipped(h) ==
  /\ adm[h].pc = "tip"
  /\ adm' = [adm EXCEPT ![h] = [@ EXCEPT !.pc = "lock"] @@ [current |-> @.tip]]
  /\ UNCHANGED <<tip, pool, tail, miner, crossed>>

\* The second look at the tip, before the mutex is awaited.
ReadTip(h) ==
  /\ adm[h].pc = "tip"
  /\ adm' = [adm EXCEPT ![h] = [@ EXCEPT !.pc = "lock"] @@ [current |-> tip]]
  /\ UNCHANGED <<tip, pool, tail, miner, crossed>>

\* Under the mutex: discard if the tip moved, else add_validated.
Admit(h) ==
  /\ adm[h].pc = "lock"
  /\ pool' = IF adm[h].current = adm[h].tip THEN AddValidated(pool, adm[h].tx) ELSE pool
  /\ adm' = [adm EXCEPT ![h] = [pc |-> "idle"]]
  /\ UNCHANGED <<tip, tail, miner, crossed>>

-----------------------------------------------------------------------------
\* A new tip and the tail of process_block.

\* The blocks of S, the newest first, and their transactions.
NewestFirst(S) == SetToSortSeq(S, LAMBDA a, b : Height[a] > Height[b])
TxsOf(S) == FlattenSeq([i \in DOMAIN NewestFirst(S) |-> Txs[NewestFirst(S)[i]]])

\* A block becomes the tip: it extends the tip, or it is the first of its
\* branch that is better.
BecomesTip(b) ==
  IsBetter(b, tip) /\ (Parent[b] = tip \/ ~IsBetter(Parent[b], tip))

Commit(k, b) ==
  LET confirmed == Range(TxsOf(Anc[b] \ Anc[tip]))
  IN /\ tail[k].pc = "idle"
     /\ BecomesTip(b)
     /\ tip' = b
     /\ tail' = [tail EXCEPT ![k] =
          [Idle EXCEPT !.pc = "clean", !.confirmed = confirmed,
                       !.orphans = SelectSeq(TxsOf(Anc[tip] \ Anc[b]), LAMBDA t : t \notin confirmed)]]
     /\ crossed' = \/ crossed
                   \/ \E j \in Task : tail[j].pc # "idle"
                   \/ \E h \in Handler : adm[h].pc = "lock"
     /\ UNCHANGED <<pool, adm>>

\* remove_confirmed and referenced_outpoints, under the mutex.
Clean(k) ==
  /\ tail[k].pc = "clean"
  /\ pool' = RemoveConfirmed(pool, tail[k].confirmed)
  /\ tail' = [tail EXCEPT ![k] = [@ EXCEPT !.pc = "height", !.confirmed = {},
                                           !.points = ReferencedOutpoints(pool')]]
  /\ UNCHANGED <<tip, adm, miner, crossed>>

\* The height of the next block, read from the tip.
ReadHeight(k) ==
  /\ tail[k].pc = "height"
  /\ tail' = [tail EXCEPT ![k] = [@ EXCEPT !.pc = "snapshot", !.height = Height[tip] + 1]]
  /\ UNCHANGED <<tip, pool, adm, miner, crossed>>

\* snapshot_for_outpoints.
Snapshot(k) ==
  /\ tail[k].pc = "snapshot"
  /\ tail' = [tail EXCEPT ![k] = [@ EXCEPT !.pc = "revalidate", !.utxo = Utxo[tip] \cap tail[k].points]]
  /\ UNCHANGED <<tip, pool, adm, miner, crossed>>

RevalidatePool(k) ==
  /\ tail[k].pc = "revalidate"
  /\ pool' = Revalidate(pool, tail[k].utxo, tail[k].height)
  /\ tail' = [tail EXCEPT ![k] = IF @.orphans = <<>> THEN Idle
                                 ELSE [@ EXCEPT !.pc = "orphans"]]
  /\ UNCHANGED <<tip, adm, miner, crossed>>

\* Faulty variant: the orphans are validated against the tail's snapshot.
ValidateOrphansReused(k) ==
  /\ tail[k].pc = "orphans"
  /\ LET ok == SelectSeq(tail[k].orphans, LAMBDA t : Valid(t, tail[k].utxo, tail[k].height))
     IN tail' = [tail EXCEPT ![k] = IF ok = <<>> THEN Idle
                                    ELSE [@ EXCEPT !.pc = "reintroduce", !.ok = ok]]
  /\ UNCHANGED <<tip, pool, adm, miner, crossed>>

\* The orphaned transactions that are valid in a snapshot of their inputs.
ValidateOrphans(k) ==
  /\ tail[k].pc = "orphans"
  /\ LET ok == SelectSeq(tail[k].orphans, LAMBDA t : Valid(t, Utxo[tip], tail[k].height))
     IN tail' = [tail EXCEPT ![k] = IF ok = <<>> THEN Idle
                                    ELSE [@ EXCEPT !.pc = "reintroduce", !.ok = ok]]
  /\ UNCHANGED <<tip, pool, adm, miner, crossed>>

Reintroduce(k) ==
  /\ tail[k].pc = "reintroduce"
  /\ pool' = FoldLeft(AddValidated, pool, tail[k].ok)
  /\ tail' = [tail EXCEPT ![k] = Idle]
  /\ UNCHANGED <<tip, adm, miner, crossed>>

\* The sync manager commits a block of the network.
SyncCommit(b) ==
  /\ "sync" \in Task /\ Commit("sync", b) /\ UNCHANGED miner

-----------------------------------------------------------------------------
\* The mining loop.

\* select_transactions: the highest fee density first, what does not fit is
\* passed over.
Select(p) ==
  LET ranked == SetToSortSeq(p.entries, LAMBDA t, u : Below(u, t))
      Take(s, t) == IF s.size + Size[t] > MAX_TX_SPACE THEN s
                    ELSE [txs |-> Append(s.txs, t), size |-> s.size + Size[t]]
  IN FoldLeft(Take, [txs |-> <<>>, size |-> 0], ranked).txs

\* build_template_from_txs: each candidate is validated and applied to a trial
\* UTXO set; the ones that fail are reported.
Template(txs, utxo, height) ==
  LET Try(s, t) ==
        IF Valid(t, s.utxo, height)
        THEN [s EXCEPT !.utxo = (@ \ Inputs[t]) \cup Outputs[t], !.applied = Append(@, t)]
        ELSE [s EXCEPT !.skipped = @ \cup {t}]
  IN FoldLeft(Try, [utxo |-> utxo, applied |-> <<>>, skipped |-> {}], txs)

\* The snapshot of tip and UTXO set.
Top ==
  /\ "mine" \in Task /\ miner.pc = "top" /\ tail["mine"].pc = "idle"
  /\ miner' = [pc |-> "select", tip |-> tip]
  /\ UNCHANGED <<tip, pool, adm, tail, crossed>>

\* The candidates under the mutex, the template without it.
BuildTemplate ==
  /\ miner.pc = "select"
  /\ LET T == Template(Select(pool), Utxo[miner.tip], Height[miner.tip] + 1)
     IN miner' = [pc |-> "purge", tip |-> miner.tip, txs |-> T.applied, skipped |-> T.skipped]
  /\ UNCHANGED <<tip, pool, adm, tail, crossed>>


\* Purge what the template skipped; grind only if the tip is still the same.
Purge ==
  /\ miner.pc = "purge"
  /\ pool' = RemoveAll(pool, miner.skipped)
  /\ miner' = IF tip = miner.tip THEN [pc |-> "grind", tip |-> tip, txs |-> miner.txs]
                                 ELSE [pc |-> "top"]
  /\ UNCHANGED <<tip, adm, tail, crossed>>

\* Cancelled (a new tip, CatchingUp, the clock), or found too late to be the tip.
NoBlock ==
  /\ miner.pc = "grind"
  /\ miner' = [pc |-> "top"]
  /\ UNCHANGED <<tip, pool, adm, tail, crossed>>

\* The mined block carries the transactions of the template.
MineCommit(b) ==
  /\ miner.pc = "grind"
  /\ Parent[b] = miner.tip /\ Txs[b] = miner.txs
  /\ Commit("mine", b)
  /\ miner' = [pc |-> "top"]

\* process_block fails on a storage error: not a header-only rejection, so the
\* transactions of the block are purged.
MineRejected ==
  /\ miner.pc = "grind" /\ Faults
  /\ pool' = RemoveAll(pool, Range(miner.txs))
  /\ miner' = [pc |-> "top"]
  /\ UNCHANGED <<tip, adm, tail, crossed>>

Admission(h) == (\E t \in Tx : Offer(h, t)) \/ Validate(h) \/ ReadTip(h) \/ Admit(h)
AfterCommit(k) ==
  \/ Clean(k) \/ ReadHeight(k) \/ Snapshot(k) \/ RevalidatePool(k)
  \/ ValidateOrphans(k) \/ Reintroduce(k)
Mining == Top \/ BuildTemplate \/ Purge \/ NoBlock \/ MineRejected

Next ==
  \/ \E h \in Handler : Admission(h)
  \/ \E k \in Task : AfterCommit(k)
  \/ \E b \in Block \ {Genesis} : SyncCommit(b) \/ MineCommit(b)
  \/ Mining

Spec == Init /\ [][Next]_vars

\* The tasks keep running, and the mining loop is not gated.
FairSpec ==
  /\ Spec
  /\ \A h \in Handler : WF_vars(Validate(h) \/ ReadTip(h) \/ Admit(h))
  /\ \A k \in Task : WF_vars(AfterCommit(k))
  /\ WF_vars(Mining)
-----------------------------------------------------------------------------
\* Every component has its type.
TypeOK ==
  /\ tip \in Block
  /\ pool.entries \subseteq Tx /\ pool.spent \subseteq Output /\ pool.bytes \in Nat
  /\ \A h \in Handler : adm[h].pc \in {"idle", "validate", "tip", "lock"}
  /\ \A k \in Task : tail[k].pc \in {"idle", "clean", "height", "snapshot", "revalidate",
                                     "orphans", "reintroduce"}
  /\ \A k \in Task : Range(tail[k].ok) \subseteq Range(tail[k].orphans)
  /\ miner.pc \in {"top", "select", "purge", "grind"}

\* However admissions, evictions, tails and purges interleave, no two entries
\* spend the same output, and spent_outpoints, by_script and total_bytes are
\* those of the entries: nothing is pinned by a transaction that left.  The
\* limits hold, also when the orphans of a reorganisation are added in one go.
\* When no tail of process_block is under way, every entry could be in the next
\* block: the admissions that validated against an older tip were discarded or
\* cleaned up (the staleness check of the handlers).
PoolExact ==
  /\ TypeOK
  /\ \A t, u \in pool.entries : t # u => Inputs[t] \cap Inputs[u] = {}
  /\ pool.spent = ReferencedOutpoints(pool)
  /\ pool.index = UNION {Touches(t) \X {t} : t \in pool.entries}
  /\ pool.bytes = MapThenSumSet(LAMBDA t : Size[t], pool.entries)
  /\ Cardinality(pool.entries) <= MEMPOOL_CAPACITY
  /\ pool.bytes <= MAX_MEMPOOL_BYTES
  /\ ~crossed /\ (\A k \in Task : tail[k].pc = "idle") => \A t \in pool.entries : Current(t)

\* The tail of a reorganisation gives every orphaned transaction that is still
\* valid back to the pool, unless it conflicts with an entry or the pool is full.
OrphansReturn ==
  [][\A k \in Task : ~crossed /\ tail[k].pc # "idle" /\ tail'[k].pc = "idle" =>
       \A t \in Range(tail[k].orphans) : Current(t) =>
          \/ t \in pool'.entries
          \/ Inputs[t] \cap pool'.spent # {}
          \/ Full(pool', t)]_vars

Pinned(t) ==
  /\ t \in pool.entries
  /\ \E o \in Inputs[t] \ Utxo[tip] : \A u \in pool.entries : o \notin Outputs[u]

=============================================================================
