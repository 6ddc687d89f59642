----------------------------- MODULE BlockIntake ----------------------------
(***************************************************************************)
(* What the sync manager does with the blocks peers deliver                *)
(* (network/sync.rs): process_block_event, the orphan cache, the buffer of *)
(* blocks from the future, and the reorg triggers that wait for a missing  *)
(* ancestor.                                                               *)
(*                                                                         *)
(* process_block is one step here (BlockProcessing has its interleavings); *)
(* the recursion of the handlers is a stack of jobs, so a handler that     *)
(* drains orphans or retries triggers is interrupted at each of its calls  *)
(* of process_block.  Only the sync manager task runs these handlers, one  *)
(* event at a time.                                                        *)
(*                                                                         *)
(* The caps on bytes are left out: every block has the same size.          *)
(***************************************************************************)
EXTENDS ChainStep, Sequences

CONSTANTS IbdBlocks,        \* the blocks an initial sync fetches meanwhile
          MAX_ORPHAN_BLOCKS, MAX_FUTURE_BLOCKS, FUTURE_BLOCK_MAX_AGE,
          MAX_TRIGGERS_PER_ANCESTOR, MAX_GLOBAL_TRIGGERS,
          MaxClock,         \* bound on the clock
          MaxLost           \* bound on lost requests

ASSUME IntakeAssumption ==
  /\ IbdBlocks \subseteq Block \ {Genesis}
  /\ {MAX_ORPHAN_BLOCKS, MAX_FUTURE_BLOCKS, FUTURE_BLOCK_MAX_AGE,
      MAX_TRIGGERS_PER_ANCESTOR, MAX_GLOBAL_TRIGGERS} \subseteq Nat \ {0}
  /\ MaxClock \in Nat /\ MaxLost \in Nat

VARIABLES chain,      \* tip, stored bodies and headers, fork pool
          orphans,    \* Node.orphan_blocks
          future,     \* Node.future_blocks, in Vec order
          triggers,   \* ReorgTriggerState.triggers: ancestor -> blocks
          order,      \* ReorgTriggerState.order
          requests,   \* blocks asked for with GetBlocks, not yet answered
          todo,       \* the stack of jobs of the running handler
          clock, lost

vars == <<chain, orphans, future, triggers, order, requests, todo, clock, lost>>

Entry == [blk : Block, since : 0..MaxClock]

\* A job: children taken from the orphan cache (kids), processed blocks
\* whose own orphans are still to be drained (done), triggers or future
\* blocks still to be retried (seq).
Job(op, kids, done, seq) == [op |-> op, kids |-> kids, done |-> done, seq |-> seq]
Drain(b) == Job("orphans", {}, {b}, <<>>)
Retry(b) == Job("retry", {}, {b}, <<>>)

Init ==
  /\ chain = GenesisChain
  /\ orphans = {} /\ future = <<>>
  /\ triggers = [a \in Block |-> <<>>] /\ order = <<>>
  /\ requests = {} /\ todo = <<>>
  /\ clock = 0 /\ lost = 0

-----------------------------------------------------------------------------
Needed == {a \in Block : triggers[a] # <<>>}

Process(b) == ProcessBlock(chain, b, Needed, clock)

-----------------------------------------------------------------------------
(* ReorgTriggerState::insert and take.                                     *)

\* A result "missing" saves block b under the ancestor and requests it.
SaveTrigger(r, b, asked) ==
  LET a == r.missing
      full == Len(order) >= MAX_GLOBAL_TRIGGERS
      freed == IF full /\ triggers[Head(order)] # <<>>
               THEN [triggers EXCEPT ![Head(order)] = Tail(@)] ELSE triggers
  IN
  IF r.out # "missing" THEN requests' = asked /\ UNCHANGED <<triggers, order>>
  ELSE /\ requests' = asked \cup {a}
       /\ IF Len(triggers[a]) >= MAX_TRIGGERS_PER_ANCESTOR
          THEN UNCHANGED <<triggers, order>>
          ELSE /\ triggers' = [freed EXCEPT ![a] = Append(@, b)]
               /\ order' = Append(IF full THEN Tail(order) ELSE order, a)

TakeTriggers(a) ==
  /\ triggers' = [triggers EXCEPT ![a] = <<>>]
  /\ order' = SelectSeq(order, LAMBDA x : x # a)

-----------------------------------------------------------------------------
(* The buffer of blocks from the future.                                   *)

Unexpired(buf) == SelectSeq(buf, LAMBDA e : clock - e.since < FUTURE_BLOCK_MAX_AGE)

Has(buf, b) == \E i \in DOMAIN buf : buf[i].blk = b

\* buffer_future_block
Buffer(buf, b) ==
  LET live == Unexpired(buf)
      room == IF Len(live) >= MAX_FUTURE_BLOCKS THEN Tail(live) ELSE live
  IN  IF Has(live, b) THEN live ELSE Append(room, [blk |-> b, since |-> clock])

-----------------------------------------------------------------------------
(* The handlers.                                                           *)

\* The parent of a delivered block is unknown: cache it, ask for the parent
\* unless another orphan already waits for it.
CacheOrphan(b) ==
  /\ \/ b \in orphans /\ UNCHANGED orphans
     \/ /\ b \notin orphans
        /\ Cardinality(orphans) < MAX_ORPHAN_BLOCKS
        /\ orphans' = orphans \cup {b}
     \/ /\ b \notin orphans
        /\ Cardinality(orphans) >= MAX_ORPHAN_BLOCKS
        /\ \E v \in orphans : orphans' = (orphans \ {v}) \cup {b}
  /\ requests' = (requests \ {b}) \cup
       IF b \in orphans \/ \E o \in orphans : Parent[o] = Parent[b] THEN {} ELSE {Parent[b]}
  /\ UNCHANGED <<chain, future, triggers, order, todo>>

\* Faulty variant: only a new tip retries the triggers.
AfterBlockAccepted(b, r) ==
  (IF Done(r) THEN <<Drain(b)>> ELSE <<>>) \o
  (IF r.out = "accepted" THEN <<Retry(b)>> ELSE <<>>)

\* The orphans of a stored block are drained; the triggers that wait for the
\* block are retried whatever the outcome.
AfterBlock(b, r) == (IF Done(r) THEN <<Drain(b)>> ELSE <<>>) \o <<Retry(b)>>

\* process_block_event, for an answer to a request or a block a peer
\* announces; peers have every block.  The reader task filters the blocks
\* the node has, but a copy may already be in the event queue.
HandleBlock(b) ==
  /\ todo = <<>> /\ b # Genesis
  /\ \/ Parent[b] \notin chain.header /\ CacheOrphan(b)
     \/ /\ Parent[b] \in chain.header
        /\ \E r \in Process(b) :
             /\ chain' = r.chain
             /\ future' = IF r.out = "future" THEN Buffer(future, b) ELSE future
             /\ SaveTrigger(r, b, requests \ {b})
             /\ todo' = AfterBlock(b, r)
        /\ UNCHANGED orphans
  /\ UNCHANGED <<clock, lost>>

Top == Head(todo)
Running(op) == todo # <<>> /\ Top.op = op
Push(job, stack) == <<job>> \o stack

\* try_process_orphans: process one child.  A child that misses a reorg
\* ancestor is dropped.
ProcessOrphan ==
  /\ Running("orphans")
  /\ \E k \in Top.kids : \E r \in Process(k) :
       /\ chain' = r.chain
       /\ future' = IF r.out = "future" THEN Buffer(future, k) ELSE future
       /\ todo' = Push(Job("orphans", Top.kids \ {k},
                           Top.done \cup (IF Done(r) THEN {k} ELSE {}), <<>>), Tail(todo))
  /\ UNCHANGED <<orphans, triggers, order, requests, clock, lost>>

\* All children processed: recurse on the next processed block.
DrainOrphans ==
  /\ Running("orphans") /\ Top.kids = {}
  /\ IF Top.done = {} THEN todo' = Tail(todo) /\ UNCHANGED orphans
     ELSE \E p \in Top.done :
            LET kids == {o \in orphans : Parent[o] = p} IN
            /\ orphans' = orphans \ kids
            /\ todo' = Push(Job("orphans", kids, {}, <<>>),
                            Push(Job("orphans", {}, Top.done \ {p}, <<>>), Tail(todo)))
  /\ UNCHANGED <<chain, future, triggers, order, requests, clock, lost>>

\* retry_reorg_triggers: take the triggers that wait for the block ...
RetryTriggers ==
  /\ Running("retry")
  /\ \E a \in Top.done :
       /\ todo' = Push(Job("triggers", {}, {}, triggers[a]), Tail(todo))
       /\ TakeTriggers(a)
  /\ UNCHANGED <<chain, orphans, future, requests, clock, lost>>

\* ... and process them one by one.
ProcessTrigger ==
  /\ Running("triggers")
  /\ IF Top.seq = <<>>
     THEN todo' = Tail(todo) /\ UNCHANGED <<chain, future, triggers, order, requests>>
     ELSE LET t == Head(Top.seq)
              rest == Push(Job("triggers", {}, {}, Tail(Top.seq)), Tail(todo))
          IN  \E r \in Process(t) :
                /\ chain' = r.chain
                /\ future' = IF r.out = "future" THEN Buffer(future, t) ELSE future
                /\ SaveTrigger(r, t, requests)
                /\ todo' = IF Done(r) THEN Push(Drain(t), rest) ELSE rest
  /\ UNCHANGED <<orphans, clock, lost>>

\* retry_future_blocks: drain the buffer ...
RetryFuture ==
  /\ todo = <<>> /\ future # <<>>
  /\ todo' = <<Job("future", {}, {}, Unexpired(future))>>
  /\ future' = <<>>
  /\ UNCHANGED <<chain, orphans, triggers, order, requests, clock, lost>>

\* A block that is still in the future keeps the time it was first buffered.
Rebuffer(buf, e) ==
  LET new == Buffer(buf, e.blk) IN
  [i \in DOMAIN new |-> IF new[i].blk = e.blk THEN e ELSE new[i]]

AfterFuture(r, e, rest) == IF Done(r) THEN Push(Drain(e.blk), rest) ELSE rest

\* ... and process the blocks one by one.
ProcessFuture ==
  /\ Running("future")
  /\ IF Top.seq = <<>>
     THEN todo' = Tail(todo) /\ UNCHANGED <<chain, future, triggers, order, requests>>
     ELSE LET e == Head(Top.seq)
              rest == Push(Job("future", {}, {}, Tail(Top.seq)), Tail(todo))
          IN  \E r \in Process(e.blk) :
                /\ chain' = r.chain
                /\ future' = IF r.out = "future" THEN Rebuffer(future, e)
                             ELSE IF r.out = "rejected" /\ Len(future) < MAX_FUTURE_BLOCKS
                                  THEN Append(future, e)
                             ELSE future
                /\ SaveTrigger(r, e.blk, requests)
                /\ todo' = AfterFuture(r, e, rest)
  /\ UNCHANGED <<orphans, clock, lost>>

\* run_ibd processes the blocks of a round itself (recv_ibd_block hands it
\* the expected block): no orphan is drained, no trigger retried.
IbdBlock(b) ==
  /\ todo = <<>> /\ b \in IbdBlocks \ chain.body
  /\ \E r \in Process(b) :
       /\ chain' = r.chain
       /\ future' = IF r.out = "future" THEN Buffer(future, b) ELSE future
  /\ UNCHANGED <<orphans, triggers, order, requests, todo, clock, lost>>

Tick ==
  /\ clock < MaxClock
  /\ clock' = clock + 1
  /\ UNCHANGED <<chain, orphans, future, triggers, order, requests, todo, lost>>

\* A request, its answer or the delivered block (rate caps) is lost.
Lose(b) ==
  /\ b \in requests /\ lost < MaxLost
  /\ requests' = requests \ {b}
  /\ lost' = lost + 1
  /\ UNCHANGED <<chain, orphans, future, triggers, order, todo, clock>>

Handle == ProcessOrphan \/ DrainOrphans \/ RetryTriggers \/ ProcessTrigger \/ ProcessFuture

Next ==
  \/ \E b \in Block : HandleBlock(b) \/ IbdBlock(b)
  \/ Handle \/ RetryFuture \/ Tick
  \/ \E b \in Block : Lose(b)

Spec == Init /\ [][Next]_vars

\* The sync manager runs its handler to the end and retries future blocks
\* periodically; a peer answers a request, and the event queue is first in
\* first out, so other deliveries do not keep the answer waiting for ever.
FairSpec ==
  /\ Spec /\ WF_vars(Handle) /\ WF_vars(RetryFuture)
  /\ \A b \in Block \ {Genesis} : SF_vars(b \in requests \ chain.body /\ HandleBlock(b))

-----------------------------------------------------------------------------
TypeOK ==
  /\ chain \in Chain
  /\ orphans \subseteq Block /\ future \in Seq(Entry)
  /\ triggers \in [Block -> Seq(Block)] /\ order \in Seq(Block)
  /\ requests \subseteq Block
  /\ clock \in 0..MaxClock /\ lost \in 0..MaxLost

\* Blocks stored without a retry of the triggers that wait for them: those an
\* initial sync fetches, and those of retry_future_blocks.
StoredElsewhere == IbdBlocks \cup {b \in Block : Timestamp[b] > 0}

\* The caches are well formed and within their caps whatever peers deliver in
\* whatever order, and ReorgTriggerState keeps one order entry per stored
\* trigger (the comment of take): the global cap evicts the oldest trigger
\* that really exists.  Between events no cached orphan has a known parent:
\* whichever way the handlers stored the parent, they drained its orphans.  Only
\* the parents an initial sync fetches leave orphans behind.  And no trigger
\* waits for a body that process_block_event stored: as long as no message is
\* lost the ancestor it waits for is on order.
IntakeExact ==
  /\ TypeOK
  /\ \A a \in Block : Len(triggers[a]) = Len(SelectSeq(order, LAMBDA x : x = a))
  /\ Len(order) <= MAX_GLOBAL_TRIGGERS
  /\ Cardinality(orphans) <= MAX_ORPHAN_BLOCKS
  /\ Len(future) <= MAX_FUTURE_BLOCKS
  /\ Cardinality(chain.pool) <= MAX_FORK_BLOCKS
  /\ todo = <<>> =>
       /\ \A o \in orphans : Parent[o] \in chain.header => Parent[o] \in IbdBlocks
       /\ \A a \in Needed : IF a \in chain.body THEN a \in StoredElsewhere
                            ELSE lost = 0 => a \in requests

=============================================================================
