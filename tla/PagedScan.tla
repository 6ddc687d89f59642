------------------------------ MODULE PagedScan -----------------------------
(***************************************************************************)
(* The paged read of a script's unspent outputs (rpc.rs get_address_utxos  *)
(* and get_script_utxos over chain/state.rs utxos_for_script_paged), called*)
(* by clients that walk a script page by page while blocks are committed.  *)
(* A call is charged to its address's budget of the minute, waits for the  *)
(* one scan permit, and reads a page under the UTXO set's read lock.       *)
(*                                                                         *)
(* The set is the one of the walked script; an outpoint is its place in    *)
(* the set's order.  A tip never recurs: the chain only moves to a tip of  *)
(* more work.                                                              *)
(***************************************************************************)
EXTENDS Integers, Sequences, SequencesExt, FiniteSets

CONSTANTS
  Walker,        \* clients, all behind one address
  ScanOutPoint,  \* outpoints of the script, a set of numbers above 0
  Minted,        \* those that are coinbase outputs
  ScanMaturity,  \* coinbase_maturity()
  PageLimit,     \* resolve_page_limit(limit)
  MaxScan,       \* MAX_RPC_SCAN_PER_MIN
  MaxTip         \* bound on the commits

ASSUME PagedScanAssumption ==
  /\ ScanOutPoint \subseteq Nat \ {0} /\ Minted \subseteq ScanOutPoint
  /\ ScanMaturity \in Nat /\ PageLimit \in Nat \ {0} /\ MaxScan \in Nat \ {0} /\ MaxTip \in Nat

VARIABLES
  coins,    \* by_script: the unspent outpoints, as [outpoint -> height]
  scanTip,  \* node.tip: [id, height]
  calls,    \* calls of the address in the current minute
  walk      \* [Walker -> the client's walk and the call it has in progress]

scanVars == <<coins, scanTip, calls, walk>>

NoCursor == [tip |-> 0, after |-> 0]
Fresh == [pc |-> "idle", cursor |-> NoCursor, got |-> <<>>, tip |-> 0]

ScanInit ==
  /\ coins \in UNION {[s -> {0}] : s \in SUBSET ScanOutPoint}
  /\ scanTip = [id |-> 1, height |-> 1]
  /\ calls = 0 /\ walk = [w \in Walker |-> Fresh]

Scanning == {w \in Walker : walk[w].pc = "scanning"}

\* A block, or a reorganisation to a branch of the same height or one more: the
\* set and the tip change under the write lock.
ScanCommit ==
  /\ scanTip.id < MaxTip
  /\ \E h \in {scanTip.height, scanTip.height + 1},
        spent \in SUBSET DOMAIN coins, made \in SUBSET (ScanOutPoint \ DOMAIN coins) :
       /\ Cardinality(spent) <= 1 /\ Cardinality(made) <= 1
       /\ coins' = [o \in (DOMAIN coins \ spent) \cup made |-> IF o \in made THEN h ELSE coins[o]]
       /\ scanTip' = [id |-> scanTip.id + 1, height |-> h]
  /\ UNCHANGED <<calls, walk>>

\* current_height.saturating_sub(entry.height) >= coinbase_maturity()
MatureAt(h) == {o \in DOMAIN coins : o \in Minted => (h + 1) - coins[o] >= ScanMaturity}

\* The first n of them after the cursor, in order.
UtxosForScriptPaged(h, after, n) ==
  LET all == SetToSortSeq({o \in MatureAt(h) : o > after}, <)
  IN SubSeq(all, 1, IF Len(all) < n THEN Len(all) ELSE n)

\* How many are asked of the set for a page.
Probe == PageLimit + 1

\* Faulty variant: any cursor serves.
CursorServesAny(c) == TRUE

\* A cursor serves only the tip it was issued at.
CursorServes(c) == c = NoCursor \/ c.tip = scanTip.id

\* check_scan_rate_limit: a call over the budget is refused, and counted.
Charge(w) ==
  /\ walk[w].pc = "idle" /\ calls <= MaxScan
  /\ calls' = calls + 1
  /\ walk' = IF calls < MaxScan THEN [walk EXCEPT ![w].pc = "queued"] ELSE walk
  /\ UNCHANGED <<coins, scanTip>>

\* The window of the address is over at its next call.
Minute ==
  /\ calls > 0 /\ calls' = 0
  /\ UNCHANGED <<coins, scanTip, walk>>

Acquire(w) ==
  /\ walk[w].pc = "queued" /\ Scanning = {}
  /\ walk' = [walk EXCEPT ![w].pc = "scanning"]
  /\ UNCHANGED <<coins, scanTip, calls>>

\* paged_utxos_for_script under the read lock, the answer, and what the client
\* makes of it: it goes on from next_cursor, or from the start when the
\* snapshot has expired.
ReadPage(w) ==
  LET c == walk[w].cursor
      matched == UtxosForScriptPaged(scanTip.height, c.after, Probe)
      page == SubSeq(matched, 1, IF Len(matched) > PageLimit THEN PageLimit ELSE Len(matched))
      next == [tip |-> scanTip.id, after |-> Last(page)]
      got == walk[w].got \o page
  IN /\ walk[w].pc = "scanning"
     /\ walk' = [walk EXCEPT ![w] =
          IF ~CursorServes(c) THEN Fresh
          ELSE IF Len(matched) > PageLimit THEN [pc |-> "idle", cursor |-> next, got |-> got, tip |-> scanTip.id]
          ELSE [pc |-> "done", cursor |-> NoCursor, got |-> got, tip |-> scanTip.id]]
     /\ UNCHANGED <<coins, scanTip, calls>>

ScanStep == \E w \in Walker : Charge(w) \/ Acquire(w) \/ ReadPage(w)

ScanNext == ScanCommit \/ Minute \/ ScanStep

\* The minute passes, the server finishes a call, and the clients go on with
\* their walks.
ScanSpec == ScanInit /\ [][ScanNext]_scanVars /\ WF_scanVars(Minute) /\ WF_scanVars(ScanStep)

-----------------------------------------------------------------------------
\* A walk that ran to its last page has returned every spendable output of the
\* script at the tip it ended on, each once and in order, whatever was spent,
\* created or matured between its pages (paged_utxos_for_script: "Pinning the
\* walk to a single tip keeps 'walk to completion' actually complete").
WalkExact ==
  \A w \in Walker : walk[w].pc = "done" /\ walk[w].tip = scanTip.id
     => walk[w].got = SetToSortSeq(MatureAt(scanTip.height), <)

\* Once blocks pause, every walk comes to its end, though callers share one scan
\* permit and one budget per minute, and an expired cursor sends them back to
\* the start (dispatch, check_scan_rate_limit, utxo_scan_sem).
WalksFinish == \A w \in Walker : <>(walk[w].pc = "done")
=============================================================================
