------------------------------ MODULE ChainStep -----------------------------
(***************************************************************************)
(* process_block (network/sync.rs) as one step: the results it may have.   *)
(* BlockProcessing models its interleavings; the modules about the callers *)
(* of process_block take it as a whole.                                    *)
(*                                                                         *)
(* A chain is the tip, the stored bodies and headers, and the fork pool.   *)
(* The transactions are abstracted to the set of invalid blocks; a header  *)
(* stays when its body is evicted.                                         *)
(***************************************************************************)
EXTENDS ForkPool

CONSTANTS Invalid,    \* blocks whose transactions do not validate
          Timestamp   \* the wall clock at which a block is acceptable

ASSUME StepAssumption ==
  /\ Invalid \subseteq Block \ {Genesis}
  /\ Timestamp \in [Block -> Nat]

Chain == [tip : Block, body : SUBSET Block, header : SUBSET Block, pool : SUBSET Block]

GenesisChain == [tip |-> Genesis, body |-> {Genesis}, header |-> {Genesis}, pool |-> {}]

AddFork(c, b) ==
  [c EXCEPT !.body = @ \cup {b}, !.header = @ \cup {b}, !.pool = @ \cup {b}]

DropFork(c, v) == [c EXCEPT !.body = @ \ {v}, !.pool = @ \ {v}]

\* try_store_fork_block.
TryStoreFork(c, b, needed) ==
  IF Cardinality(c.pool) < MAX_FORK_BLOCKS THEN {AddFork(c, b)}
  ELSE IF Victims(c.pool, b, needed) = {} THEN {c}
  ELSE {AddFork(DropFork(c, v), b) : v \in Victims(c.pool, b, needed)}

\* The switch to b, an extension of the tip or a reorg: the old chain is
\* demoted to the pool, which is trimmed before the promoted blocks leave it.
SwitchTo(c, b) ==
  LET demoted == Anc[c.tip] \ Anc[b]
      all == c.pool \cup demoted
  IN  {[tip    |-> b,
        body   |-> (c.body \cup {b}) \ ((all \ kept) \ Anc[b]),
        header |-> c.header \cup (Anc[b] \ Anc[c.tip]),
        pool   |-> kept \ Anc[b]] : kept \in Trims(all, {})}

Result(out, c, missing) == [out |-> out, chain |-> c, missing |-> missing]

\* process_block_inner.  A reorg walks back from b and reports the first
\* body it misses.
ProcessBlock(c, b, needed, now) ==
  LET new == Anc[b] \ Anc[c.tip]
      gap == (new \ {b}) \ c.body
  IN
  IF b \in c.body THEN {Result("stored", c, None)}
  ELSE IF Parent[b] \notin c.header THEN {Result("rejected", c, None)}
  ELSE IF Timestamp[b] > now THEN {Result("future", c, None)}
  ELSE IF ~IsBetter(b, c.tip)
       THEN {Result("stored", d, None) : d \in TryStoreFork(c, b, needed)}
  ELSE IF gap # {}
       THEN {Result("missing", c, x) :
               x \in {y \in gap : \A z \in gap : Height[z] <= Height[y]}}
  ELSE IF new \cap Invalid # {} THEN {Result("rejected", c, None)}
  ELSE {Result("accepted", d, None) : d \in SwitchTo(c, b)}

Done(r) == r.out \in {"accepted", "stored"}
=============================================================================
