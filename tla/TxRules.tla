------------------------------- MODULE TxRules ------------------------------
(***************************************************************************)
(* The money: what makes the transactions of a block valid, and what       *)
(* applying, rejecting, undoing and replaying a block does to the UTXO set *)
(* (consensus/validation.rs, consensus/cost.rs, consensus/reward.rs,       *)
(* chain/state.rs).                                                        *)
(*                                                                         *)
(* One chain, extended and cut at its tip.  A transaction is known by its  *)
(* height and its position in the block, the coinbase at position 0.  The  *)
(* checks that do not look at values or other transactions are the field   *)
(* "flaw": which of them fails.                                            *)
(***************************************************************************)
EXTENDS Integers, Sequences, SequencesExt, FiniteSets, FiniteSetsExt, TLC

CONSTANTS
  U64Max,            \* u64::MAX; sums are u128 in the code, exact here
  Dust,              \* DUST_THRESHOLD
  Maturity,          \* coinbase_maturity()
  FeePerInput, FeePerOutput, FeeDivisor,   \* the costs of cost.rs
  BaseReward, DecayComponent, HalfLife,    \* reward.rs
  LutSize, LutK, One,                      \* its table: entries, factor, 1.0
  MaxSpent,          \* MAX_SPENT_UTXOS_SIZE, in entries
  OutValues,         \* the values an output is given
  MaxTxHeight        \* bound on the height

ASSUME TxRulesAssumption ==
  /\ Dust \in Nat \ {0} /\ Maturity \in Nat /\ FeeDivisor \in Nat \ {0}
  /\ HalfLife \in Nat \ {0} /\ LutSize \in Nat \ {0, 1} /\ LutK < One
  /\ OutValues \subseteq 0..U64Max

VARIABLES
  tchain,     \* the blocks of the chain with the entries they spent
  tset,       \* the UTXO set
  replayed    \* the UTXO set of a node that replays the chain assumed valid

txVars == <<tchain, tset, replayed>>

TxHeight == Len(tchain)

-----------------------------------------------------------------------------
\* The reward.

\* LUT: powers of the factor, rounded down.
Lut[i \in 0..LutSize - 1] == IF i = 0 THEN One ELSE (Lut[i - 1] * LutK) \div One

\* block_reward: the decay of the whole half-lives, interpolated in the table.
BlockReward(h) ==
  LET bucketSize == (HalfLife + LutSize - 2) \div (LutSize - 1)
      r == h % HalfLife
      lo == Lut[r \div bucketSize]
      hi == Lut[r \div bucketSize + 1]
      interp == lo - ((lo - hi) * (r % bucketSize)) \div bucketSize
  IN  BaseReward + (DecayComponent * interp) \div (One * 2^(h \div HalfLife))

-----------------------------------------------------------------------------
\* The rules of a transaction.

SumOf(outs) == FoldLeft(LAMBDA acc, v : acc + v, 0, outs)

Distinct(s) == Cardinality(ToSet(s)) = Len(s)

\* The flaws a block can be rejected for without the UTXO set, and the one
\* that takes it: a witness that does not authorise the spend.
StructuralFlaw == {"witness_count", "oversized", "datum_hash", "inadmissible_script"}
Flaw == StructuralFlaw \cup {"witness_invalid"}

CeilDiv(a, b) == (a + b - 1) \div b

MinFee(tx) == CeilDiv(Len(tx.ins) * FeePerInput + Len(tx.outs) * FeePerOutput, FeeDivisor)

\* Faulty variant: the sum of the outputs wraps at the width of u64.
OutputTotalWraps(outs) == SumOf(outs) % (U64Max + 1)

\* The sum of the outputs, as u128.
OutputTotal(outs) == SumOf(outs)

Mature(entry, h) == entry.cb => h - entry.height >= Maturity

\* validate_transaction: the fee of the transaction, or -1.
ValidateTransaction(tx, set, h) ==
  LET total == SumOf([i \in DOMAIN tx.ins |-> set[tx.ins[i]].value])
      fee == total - OutputTotal(tx.outs)
  IN  IF /\ tx.ins # <<>> /\ tx.outs # <<>>
         /\ tx.flaw \notin Flaw
         /\ Distinct(tx.ins)
         /\ \A i \in DOMAIN tx.outs : tx.outs[i] >= Dust
         /\ \A i \in DOMAIN tx.ins : tx.ins[i] \in DOMAIN set /\ Mature(set[tx.ins[i]], h)
         /\ total <= U64Max /\ OutputTotal(tx.outs) <= U64Max /\ fee >= 0
         /\ fee >= MinFee(tx)
      THEN fee ELSE -1

\* validate_coinbase, for the height and the exact reward.
ValidateCoinbase(cb, h, reward) ==
  /\ cb.index = h /\ cb.flaw \notin Flaw
  /\ \A i \in DOMAIN cb.outs : cb.outs[i] >= Dust
  /\ SumOf(cb.outs) <= U64Max /\ SumOf(cb.outs) = reward

\* Faulty variant: an output of exactly the threshold is dust.
StructuralOutputsStrict(outs) == \A i \in DOMAIN outs : outs[i] > Dust

StructuralOutputs(outs) == \A i \in DOMAIN outs : outs[i] >= Dust

\* validate_block_structure: what a block of a fork is held to before it is
\* stored.
ValidateBlockStructure(b, h) ==
  /\ b.cb.index = h /\ b.cb.flaw \notin Flaw /\ StructuralOutputs(b.cb.outs)
  /\ \A n \in DOMAIN b.txs :
       LET tx == b.txs[n]
       IN  /\ tx.ins # <<>> /\ tx.outs # <<>> /\ tx.flaw \notin StructuralFlaw
           /\ Distinct(tx.ins) /\ StructuralOutputs(tx.outs)

-----------------------------------------------------------------------------
\* The UTXO set.

OutPoints(h, n, outs) == {<<h, n, i>> : i \in DOMAIN outs}

\* apply_transaction, for a transaction whose inputs are there.
ApplyTransaction(set, h, n, ins, outs) ==
  LET kept == DOMAIN set \ ToSet(ins)
  IN  [o \in kept \cup OutPoints(h, n, outs) |->
         IF o \in kept THEN set[o]
         ELSE [value |-> outs[o[3]], height |-> h, cb |-> n = 0]]

\* undo_transaction: the outputs go, the inputs come back as they were spent;
\* an incomplete record of them is an error.
UndoTransaction(set, h, n, ins, outs, spent) ==
  IF ~(ToSet(ins) \subseteq DOMAIN spent) THEN set
  ELSE [o \in (DOMAIN set \ OutPoints(h, n, outs)) \cup ToSet(ins) |->
          IF o \in ToSet(ins) THEN spent[o] ELSE set[o]]

\* undo_applied_transactions: the first n transactions, the last one first,
\* then the coinbase.
UndoApplied(set, b, h, n, spent) ==
  LET step(acc, k) ==
        UndoTransaction(acc, h, n - k + 1, b.txs[n - k + 1].ins, b.txs[n - k + 1].outs, spent)
      noTxs == FoldLeft(step, set, [k \in 1..n |-> k])
  IN  UndoTransaction(noTxs, h, 0, <<>>, b.cb.outs, spent)

\* The entries a transaction spends are recorded before it is applied, so
\* those an earlier transaction of the block created are too.
RecordSpent(acc, tx) == acc.spent @@ [o \in ToSet(tx.ins) |-> acc.set[o]]

\* validate_and_apply_block_transactions_atomic: the set after the block and
\* what was spent, or ok = FALSE and the set rolled back.
ApplyBlock(b, h, set0) ==
  LET applyTx(acc, n) ==
        LET tx == b.txs[n]
            fee == ValidateTransaction(tx, acc.set, h)
            spent == RecordSpent(acc, tx)
        IN  IF ~acc.ok THEN acc
            ELSE IF fee < 0 \/ Cardinality(DOMAIN spent) > MaxSpent
            THEN [acc EXCEPT !.ok = FALSE]
            ELSE [ok |-> TRUE, applied |-> n, spent |-> spent, fees |-> acc.fees + fee,
                  set |-> ApplyTransaction(acc.set, h, n, tx.ins, tx.outs)]
      start == [ok |-> TRUE, applied |-> 0, spent |-> <<>>, fees |-> 0,
                set |-> ApplyTransaction(set0, h, 0, <<>>, b.cb.outs)]
      done == FoldLeft(applyTx, start, [n \in DOMAIN b.txs |-> n])
      reward == BlockReward(h) + done.fees
  IN  IF /\ done.ok /\ done.fees <= U64Max /\ reward <= U64Max
         /\ ValidateCoinbase(b.cb, h, reward)
      THEN done
      ELSE [done EXCEPT !.ok = FALSE,
                        !.set = UndoApplied(@, b, h, done.applied, done.spent)]

\* apply_block_transactions_assume_valid: no transaction is validated, inputs
\* must exist and cover the outputs.
ApplyAssumeValid(b, h, set0) ==
  LET applyTx(acc, n) ==
        LET tx == b.txs[n]
            total == SumOf([i \in DOMAIN tx.ins |-> acc.set[tx.ins[i]].value])
        IN  IF ~acc.ok THEN acc
            ELSE IF \/ \E i \in DOMAIN tx.ins : tx.ins[i] \notin DOMAIN acc.set
                    \/ ~Distinct(tx.ins) \/ total < SumOf(tx.outs)
                    \/ Cardinality(DOMAIN RecordSpent(acc, tx)) > MaxSpent
            THEN [acc EXCEPT !.ok = FALSE]
            ELSE [ok |-> TRUE, applied |-> n, spent |-> RecordSpent(acc, tx),
                  fees |-> acc.fees + total - SumOf(tx.outs),
                  set |-> ApplyTransaction(acc.set, h, n, tx.ins, tx.outs)]
      start == [ok |-> TRUE, applied |-> 0, spent |-> <<>>, fees |-> 0,
                set |-> ApplyTransaction(set0, h, 0, <<>>, b.cb.outs)]
      done == FoldLeft(applyTx, start, [n \in DOMAIN b.txs |-> n])
  IN  IF done.ok /\ done.fees <= U64Max THEN done
      ELSE [done EXCEPT !.ok = FALSE,
                        !.set = UndoApplied(@, b, h, done.applied, done.spent)]

-----------------------------------------------------------------------------
\* The blocks offered at height h over the set: a first transaction of one or
\* two inputs, perhaps missing ones, and a second that spends an output of
\* the first or an old one.
Nowhere == <<99, 1, 1>>

FirstTxs(set) ==
  LET ops == DOMAIN set \cup {Nowhere}
      ins == {<<o>> : o \in ops} \cup {<<o, p>> : o \in DOMAIN set, p \in ops}
      outs == {<<v>> : v \in OutValues} \cup {<<v, v>> : v \in OutValues}
  IN  {[ins |-> i, outs |-> o, flaw |-> "none"] : i \in ins, o \in outs}
        \cup {[ins |-> <<o>>, outs |-> <<Dust>>, flaw |-> f] : o \in DOMAIN set, f \in Flaw}

SecondTxs(first, h, set) ==
  {[ins |-> <<o>>, outs |-> <<Dust>>, flaw |-> f] :
     o \in OutPoints(h, 1, first.outs) \cup DOMAIN set, f \in {"none", "witness_invalid"}}

TxLists(h, set) ==
  {<<>>} \cup {<<tx>> : tx \in FirstTxs(set)}
    \cup UNION {{<<tx, tx2>> : tx2 \in SecondTxs(tx, h, set)} :
                  tx \in {t \in FirstTxs(set) : Len(t.ins) = 1 /\ t.flaw = "none"}}

\* The coinbase claims the reward and some fees, in one output or two.
Coinbases(h) ==
  {[index |-> i, outs |-> o, flaw |-> "none"] : i \in {h, h + 1},
     o \in UNION {{<<v>>, <<Dust, v - Dust>>} : v \in BlockReward(h)..BlockReward(h) + 2}}

\* validate_block_header, as far as transactions go: no outpoint is spent
\* twice in a block.
NoDoubleSpend(b) == Distinct(FlattenSeq([n \in DOMAIN b.txs |-> b.txs[n].ins]))

TxInit == tchain = <<>> /\ tset = <<>> /\ replayed = <<>>

\* A block is offered at the tip; the replaying node sees it when it is on the
\* chain.
ConnectTxs ==
  /\ TxHeight <= MaxTxHeight
  /\ \E txs \in TxLists(TxHeight, tset), cb \in Coinbases(TxHeight) :
       LET b == [cb |-> cb, txs |-> txs]
           res == ApplyBlock(b, TxHeight, tset)
       IN  /\ NoDoubleSpend(b)
           /\ tset' = res.set
           /\ IF res.ok
              THEN /\ tchain' = Append(tchain, [block |-> b, spent |-> res.spent])
                   /\ replayed' = ApplyAssumeValid(b, TxHeight, replayed).set
              ELSE UNCHANGED <<tchain, replayed>>

\* undo_block_transactions: a reorg takes the tip off, on both nodes.
DisconnectTxs ==
  /\ tchain # <<>>
  /\ LET top == Last(tchain)
         undo(set) == UndoApplied(set, top.block, TxHeight - 1, Len(top.block.txs), top.spent)
     IN  tset' = undo(tset) /\ replayed' = undo(replayed)
  /\ tchain' = Front(tchain)

TxNext == ConnectTxs \/ DisconnectTxs

-----------------------------------------------------------------------------
\* Reference: the outputs the blocks of the chain create, with their values,
\* and the outpoints they spend.
Created ==
  UNION {LET b == tchain[k].block
         IN  {<<<<k - 1, 0, i>>, b.cb.outs[i]>> : i \in DOMAIN b.cb.outs} \cup
             UNION {{<<<<k - 1, n, i>>, b.txs[n].outs[i]>> : i \in DOMAIN b.txs[n].outs} :
                      n \in DOMAIN b.txs} : k \in DOMAIN tchain}

Spent == UNION {UNION {ToSet(tchain[k].block.txs[n].ins) : n \in DOMAIN tchain[k].block.txs} :
                  k \in DOMAIN tchain}

\* No money appears or disappears: the coins of the UTXO set are the rewards
\* of the chain's heights, whatever was spent, split, rejected or undone.
SupplyExact ==
  MapThenSumSet(LAMBDA o : tset[o].value, DOMAIN tset)
    = MapThenSumSet(LAMBDA h : BlockReward(h), 0..TxHeight - 1)

\* The UTXO set is the outputs of the chain's blocks that none of them spends:
\* a rejected block leaves nothing behind and an undone one restores all it
\* spent, also what it had created itself.
SetMatchesChain ==
  {<<o, tset[o].value>> : o \in DOMAIN tset} = {c \in Created : c[1] \notin Spent}

\* The paths that check less agree with the full validation: a replay that
\* assumes the chain valid has the same set, entry by entry, and every block
\* of the chain passes the structural checks a fork block is held to.
PathsAgree ==
  replayed = tset /\ \A k \in DOMAIN tchain : ValidateBlockStructure(tchain[k].block, k - 1)

\* Applying and undoing blocks conserves the money and the set, whatever was
\* rejected half-way (validate_and_apply_block_transactions, rollback_utxos,
\* undo_block).
MoneyConserved == SupplyExact /\ SetMatchesChain
=============================================================================
