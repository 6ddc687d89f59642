--------------------------- MODULE RetainedHeaders --------------------------
(***************************************************************************)
(* The headers that stay when the body of a fork block is evicted          *)
(* (RETAINED_FORK_HEADERS_TABLE, chain/storage.rs).  evict_fork_block adds *)
(* a row in the transaction that deletes the body.  A cap pass follows: it *)
(* reads the rows in one transaction and deletes headers in another, and   *)
(* the other task that processes blocks can write in between.              *)
(*                                                                         *)
(* HEADERS_TABLE and WORK_TABLE are written and deleted together: header   *)
(* stands for both.  The evictions of one call of process_block share one  *)
(* cap pass.                                                               *)
(***************************************************************************)
EXTENDS ChainStep

CONSTANTS Task,                      \* the tasks that process blocks
          MAX_RETAINED_FORK_HEADERS

ASSUME RetainedAssumption == MAX_RETAINED_FORK_HEADERS \in Nat

VARIABLES chain, retained,
          pass,  \* the cap pass of each task: "none", "owed" or "read"
          rows,  \* the rows that it has read
          lost   \* a restart has lost a pass and none has read the rows since

retainedVars == <<chain, retained, pass, rows, lost>>

NoPass == [t \in Task |-> "none"]
NoRows == [t \in Task |-> {}]

RetainedInit ==
  /\ chain = GenesisChain /\ retained = {}
  /\ pass = NoPass /\ rows = NoRows /\ lost = FALSE

\* The bodies that a call deletes.
Evicted(old, new) == old.body \ new.body

\* A reorg re-validates the header of every new block against its parent's.
ParentsKnown(b) == \A x \in Anc[b] \ Anc[chain.tip] : Parent[x] \in chain.header

\* process_block of one task.
Deliver(t, b) ==
  /\ pass[t] = "none" /\ b \notin chain.body
  /\ Parent[b] \in chain.header /\ (IsBetter(b, chain.tip) => ParentsKnown(b))
  /\ \E r \in ProcessBlock(chain, b, {}, 0) :
       /\ chain' = r.chain
       /\ retained' = retained \cup Evicted(chain, r.chain)
       /\ pass' = [pass EXCEPT ![t] = IF chain.body \subseteq r.chain.body THEN "none" ELSE "owed"]
  /\ UNCHANGED <<rows, lost>>

ReadRows(t) ==
  /\ pass[t] = "owed"
  /\ lost' = FALSE
  /\ IF Cardinality(retained) <= MAX_RETAINED_FORK_HEADERS
     THEN pass' = [pass EXCEPT ![t] = "none"] /\ UNCHANGED rows
     ELSE pass' = [pass EXCEPT ![t] = "read"] /\ rows' = [rows EXCEPT ![t] = retained]
  /\ UNCHANGED <<chain, retained>>

\* The rows beyond the cap, lowest first.
Excess(S) ==
  {E \in SUBSET S :
     /\ Cardinality(E) = Cardinality(S) - MAX_RETAINED_FORK_HEADERS
     /\ \A x \in E, y \in S \ E : Height[x] <= Height[y]}


\* A canonical block only loses its row.
Deletable(E) == E \ Anc[chain.tip]

DeleteExcess(t) ==
  /\ pass[t] = "read"
  /\ \E E \in Excess(rows[t]) :
       /\ retained' = retained \ E
       /\ chain' = [chain EXCEPT !.header = @ \ Deletable(E)]
  /\ pass' = [pass EXCEPT ![t] = "none"] /\ rows' = [rows EXCEPT ![t] = {}]
  /\ UNCHANGED lost

\* The process stops: the passes under way are lost.
LosePasses ==
  /\ pass # NoPass
  /\ pass' = NoPass /\ rows' = NoRows /\ lost' = TRUE
  /\ UNCHANGED <<chain, retained>>

\* A missing parent header in a reorg is fatal: the node stops.
Halt(b) ==
  /\ b \notin chain.body /\ Parent[b] \in chain.header /\ IsBetter(b, chain.tip)
  /\ Anc[Parent[b]] \subseteq chain.body /\ ~ParentsKnown(b)
  /\ pass' = NoPass /\ rows' = NoRows /\ lost' = (lost \/ pass # NoPass)
  /\ UNCHANGED <<chain, retained>>

RetainedNext ==
  \/ \E b \in Block : Halt(b)
  \/ \E t \in Task : (\E b \in Block : Deliver(t, b)) \/ ReadRows(t) \/ DeleteExcess(t)
  \/ LosePasses

RetainedSpec == RetainedInit /\ [][RetainedNext]_retainedVars

-----------------------------------------------------------------------------
\* The number of rows to delete (entries.len() - max_retained) never
\* underflows.
RetainedTypeOK ==
  /\ chain \in Chain /\ retained \subseteq Block
  /\ pass \in [Task -> {"none", "owed", "read"}]
  /\ rows \in [Task -> SUBSET Block]
  /\ \A t \in Task : pass[t] = "read" => Cardinality(rows[t]) - MAX_RETAINED_FORK_HEADERS > 0
  /\ lost \in BOOLEAN

=============================================================================
