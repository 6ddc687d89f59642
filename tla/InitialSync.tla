----------------------------- MODULE InitialSync ----------------------------
(***************************************************************************)
(* One round of initial block download (run_ibd, network/sync.rs, above    *)
(* the assume-valid anchor): the binary search for the common ancestor,    *)
(* the headers and blocks of the peer's chain, and the recovery of a       *)
(* missing reorg ancestor.  While the round waits for an answer, blocks of *)
(* other peers and of the miner are processed (Background), so the local   *)
(* chain can change under it.                                              *)
(*                                                                         *)
(* Batches of headers and blocks are requested whole and processed block   *)
(* by block; the peer is honest and serves the chain of Target.            *)
(***************************************************************************)
EXTENDS ChainStep, Sequences, FiniteSetsExt

CONSTANTS Target,    \* the tip of the peer's chain
          Others,    \* the blocks that arrive from elsewhere
          MaxClock,  \* bound on the clock
          MaxDrops   \* bound on lost sessions

ASSUME SyncAssumption ==
  /\ Target \in Block \ {Genesis}
  /\ Others \subseteq Block \ {Genesis}
  /\ MaxClock \in Nat /\ MaxDrops \in Nat

VARIABLES chain, clock, drops,
          pc,          \* where the round is
          lo, hi,      \* the bounds of the search; lo becomes the fork point
          next,        \* the height of the next block
          ancestors    \* recovered ancestors still to be processed

syncVars == <<chain, clock, drops, pc, lo, hi, next, ancestors>>

PeerAt(h) == AtHeight(Target, h)
OurAt(h) == IF h <= Height[chain.tip] THEN AtHeight(chain.tip, h) ELSE None
Process(b) == ProcessBlock(chain, b, {}, clock)

SyncInit ==
  /\ chain = GenesisChain /\ clock = 0 /\ drops = 0
  /\ pc = "idle" /\ lo = 0 /\ hi = 0 /\ next = 0 /\ ancestors = <<>>

\* The sync manager starts a round with a peer whose chain is better.
Start ==
  /\ pc \in {"idle", "done"} /\ IsBetter(Target, chain.tip)
  /\ hi' = Min({Height[chain.tip], Height[Target]})
  /\ lo' = 0 /\ next' = 0 /\ pc' = "first" /\ ancestors' = <<>>
  /\ UNCHANGED <<chain, clock, drops>>

Fail == pc' = "idle" /\ UNCHANGED <<lo, hi, next, ancestors>>

\* The first probe, at the lower of the two tips.  A reorg to a shorter
\* chain meanwhile leaves the node without a block at that height: the
\* round is given up, as in the later probes.
FirstProbe ==
  /\ pc = "first"
  /\ IF OurAt(hi) = None THEN Fail
     ELSE IF OurAt(hi) = PeerAt(hi)
     THEN lo' = hi /\ next' = hi + 1 /\ pc' = "headers" /\ UNCHANGED <<hi, ancestors>>
     ELSE pc' = "search" /\ UNCHANGED <<lo, hi, next, ancestors>>
  /\ UNCHANGED <<chain, clock, drops>>


Below(h) == h - 1

Mid == lo + ((hi - lo + 1) \div 2)

\* One probe of the search, or its end.
Probe ==
  /\ pc = "search"
  /\ IF lo >= hi THEN pc' = "headers" /\ next' = lo + 1 /\ UNCHANGED <<lo, hi, ancestors>>
     ELSE IF OurAt(Mid) = None THEN Fail
     ELSE /\ IF OurAt(Mid) = PeerAt(Mid) THEN lo' = Mid /\ UNCHANGED hi
             ELSE hi' = Below(Mid) /\ UNCHANGED lo
          /\ UNCHANGED <<pc, next, ancestors>>
  /\ UNCHANGED <<chain, clock, drops>>

\* The first header must link to the local block below it.
Headers ==
  /\ pc = "headers"
  /\ IF OurAt(next - 1) \notin {None, PeerAt(next - 1)} THEN Fail
     ELSE pc' = "block" /\ UNCHANGED <<lo, hi, next, ancestors>>
  /\ UNCHANGED <<chain, clock, drops>>

\* The ancestors fetched for a missing one, down to the first whose parent
\* has a known header, in the order in which they are processed.
Recovered(x) ==
  LET fetched == {y \in Anc[x] : \A z \in Anc[x] :
                    Height[y] <= Height[z] /\ z # x => z \notin chain.header}
      n == Cardinality(fetched)
  IN  [i \in 1..n |-> AtHeight(x, Height[x] - n + i)]

\* Faulty variant: a rejected block does not end the round.
OkRejected(r) == r.out # "missing"

\* Ok(_): a block buffered as a future one counts.
Ok(r) == Done(r) \/ r.out = "future"

Advance == next' = next + 1 /\ pc' = "block" /\ UNCHANGED <<lo, hi, ancestors>>

\* Process the next block of the peer's chain; a block the node has is
\* skipped.
FetchBlock ==
  /\ pc = "block" /\ next <= Height[Target]
  /\ \E r \in Process(PeerAt(next)) :
       /\ chain' = r.chain
       /\ IF r.out = "missing"
          THEN pc' = "recover" /\ ancestors' = Recovered(r.missing) /\ UNCHANGED <<lo, hi, next>>
          ELSE IF Ok(r) THEN Advance ELSE Fail
  /\ UNCHANGED <<clock, drops>>

ProcessAncestor ==
  /\ pc = "recover" /\ ancestors # <<>>
  /\ \E r \in Process(Head(ancestors)) :
       /\ chain' = r.chain
       /\ IF Ok(r)
          THEN ancestors' = Tail(ancestors) /\ UNCHANGED <<pc, lo, hi, next>>
          ELSE Fail
  /\ UNCHANGED <<clock, drops>>

\* The block is processed again; any error ends the round.
RetryBlock ==
  /\ pc = "recover" /\ ancestors = <<>>
  /\ \E r \in Process(PeerAt(next)) :
       /\ chain' = r.chain
       /\ IF Ok(r) THEN Advance ELSE Fail
  /\ UNCHANGED <<clock, drops>>

\* All blocks processed: the tip must have advanced past the fork point.
Finish ==
  /\ pc = "block" /\ next > Height[Target]
  /\ IF Height[chain.tip] <= lo THEN Fail
     ELSE pc' = "done" /\ UNCHANGED <<lo, hi, next, ancestors>>
  /\ UNCHANGED <<chain, clock, drops>>

\* The session ends or an answer times out.
Drop ==
  /\ pc \notin {"idle", "done"} /\ drops < MaxDrops
  /\ drops' = drops + 1
  /\ Fail
  /\ UNCHANGED <<chain, clock>>

\* A block of another peer or of the miner.
Background(b) ==
  /\ b \in Others \ chain.body /\ Parent[b] \in chain.header
  /\ \E r \in Process(b) : chain' = r.chain
  /\ UNCHANGED <<clock, drops, pc, lo, hi, next, ancestors>>

Tick ==
  /\ clock < MaxClock
  /\ clock' = clock + 1
  /\ UNCHANGED <<chain, drops, pc, lo, hi, next, ancestors>>

Round == Start \/ FirstProbe \/ Probe \/ Headers \/ FetchBlock \/ ProcessAncestor \/ RetryBlock \/ Finish

SyncNext == Round \/ Drop \/ (\E b \in Block : Background(b)) \/ Tick

\* The peer answers, the sync manager tries again after its cooldown and
\* time passes.
SyncSpec == SyncInit /\ [][SyncNext]_syncVars /\ WF_syncVars(Round) /\ WF_syncVars(Tick)

-----------------------------------------------------------------------------
SyncTypeOK ==
  /\ chain \in Chain /\ clock \in 0..MaxClock /\ drops \in 0..MaxDrops
  /\ pc \in {"idle", "first", "search", "headers", "block", "recover", "done"}
  /\ lo \in 0..MaxHeight /\ hi \in 0..MaxHeight
  /\ next \in 0..(MaxHeight + 1) /\ ancestors \in Seq(Block)

\* A round that reports success has left nothing of the peer's chain behind:
\* the peer's tip is no longer better, unless it is still in the future.
\* The sync manager takes the success as proof that the node is current.
SuccessMeansSynced ==
  SyncTypeOK /\ (pc = "done" => ~IsBetter(Target, chain.tip) \/ Timestamp[Target] > 0)

=============================================================================
