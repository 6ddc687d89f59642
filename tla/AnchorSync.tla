----------------------------- MODULE AnchorSync -----------------------------
(***************************************************************************)
(* Cold bootstrap below the assume-valid anchor (network/sync.rs): Stage A *)
(* fetches the headers 0..ASSUME_VALID_HEIGHT from one peer over a window  *)
(* of pipelined GetHeaders, links them by hash and compares the one at the *)
(* anchor with ASSUME_VALID_HASH; Stage B fetches the blocks that vector   *)
(* names and stores them without proof-of-work checks.                     *)
(*                                                                         *)
(* A header stands for its hash; the height it claims and its prev_block_id*)
(* are functions of it.  One peer is honest: it serves the anchored chain, *)
(* in the order of the requests, up to a bounded number of faults (an      *)
(* answer lost or emptied by the response budget, a session or subscription*)
(* lost, a restart).  A liar sends any batch of any headers, and may stop  *)
(* answering.  The stored blocks are the anchored chain up to a height;    *)
(* what ProcessBlock does with a block is in BlockProcessing.              *)
(***************************************************************************)
EXTENDS Integers, Sequences, FiniteSets, SequencesExt

CONSTANTS Hdr, HdrPrev, HdrHeight,  \* headers, their prev_block_id and height
          Anchored,                 \* the headers the honest peer has, from 0
          AnchorHeight,             \* ASSUME_VALID_HEIGHT
          Honest, Liars,            \* peers at or above the anchor
          BatchSize,                \* MAX_GETBLOCKS_ITEMS
          MaxInFlight,              \* MAX_IN_FLIGHT
          SubscriberCap,            \* the subscriber's channel
          ChunkSize, MaxChunks,     \* MAX_GETBLOCKS_RESPONSE, MAX_CHUNKS_IN_FLIGHT
          Probes,                   \* requests of a tip validation
          MaxFaults                 \* bound on the faults of the honest peer

ASSUME AnchorAssumption ==
  /\ HdrHeight \in [Hdr -> Nat]
  /\ Anchored \in Seq(Hdr) /\ AnchorHeight \in 1..(Len(Anchored) - 1)
  /\ \A i \in 1..Len(Anchored) : HdrHeight[Anchored[i]] = i - 1
  /\ \A i \in 2..Len(Anchored) : HdrPrev[Anchored[i]] = Anchored[i - 1]
  /\ Honest \notin Liars
  /\ BatchSize \in Nat \ {0} /\ MaxInFlight \in Nat \ {0} /\ SubscriberCap >= MaxInFlight
  /\ ChunkSize \in Nat \ {0} /\ MaxChunks \in Nat \ {0}
  /\ Probes \subseteq [start : 0..AnchorHeight, count : 1..BatchSize] /\ MaxFaults \in Nat

VARIABLES
  stage,      \* "idle", "a", "b", "wait" (recv_ibd_block waits), "done"
  peer,       \* the candidate
  cooling,    \* peers with an ibd_cooldown_until, in the order it ends
  sendNext, recvNext, inFlight, headers,   \* the locals of stage_a_inner
  asked,      \* requests the honest peer has yet to answer: start and count
  chan,       \* the subscriber's channel
  vector,     \* stage_a_authenticated_headers
  verified,   \* assume_valid_verified
  storedTo,   \* the height up to which the anchored chain is stored
  bSend, bNext, chunks,                    \* the locals of Stage B
  confirmed,  \* ever_confirmed_peer, as set by the anchor block
  faults, lossy, probed,   \* history: faults, a lost answer, a probe in Stage A
  struck                   \* the honest peer has been struck

aVars == <<sendNext, recvNext, inFlight, headers>>
bVars == <<bSend, bNext, chunks>>
wire == <<asked, chan>>
history == <<faults, lossy, probed, struck>>
anchorVars == <<stage, peer, cooling, aVars, wire, vector, verified, storedTo, bVars, confirmed, history>>

HashAt(h) == Anchored[h + 1]
AnchorHash == HashAt(AnchorHeight)
Batches == (AnchorHeight + BatchSize) \div BatchSize   \* n, rounded up
NoVector == <<>>
Peers == Liars \cup {Honest}

AnchorInit ==
  /\ stage = "idle" /\ peer = Honest /\ cooling = <<>>
  /\ sendNext = 0 /\ recvNext = 0 /\ inFlight = 0 /\ headers = <<>>
  /\ asked = <<>> /\ chan = <<>>
  /\ vector = NoVector /\ verified = FALSE /\ storedTo = 0
  /\ bSend = 0 /\ bNext = 0 /\ chunks = <<>> /\ confirmed = FALSE
  /\ faults = 0 /\ lossy = FALSE /\ probed = FALSE /\ struck = FALSE

Fault == faults < MaxFaults /\ faults' = faults + 1
NoFault == UNCHANGED <<faults, lossy, probed>>

-----------------------------------------------------------------------------
(* The pre-anchor branch of the sync manager.                              *)

\* run_ibd enters Stage B above the common ancestor with the peer, unless that is
\* at the anchor.  A liar can make the search end below the highest one.
EnterStageB(p) ==
  \E fork \in IF p = Honest THEN {storedTo} ELSE 0..storedTo :
    IF fork < AnchorHeight
    THEN stage' = "b" /\ bSend' = fork + 1 /\ bNext' = fork + 1 /\ chunks' = <<>>
    ELSE stage' = "done" /\ UNCHANGED bVars

\* The locals of Stage A as it starts.
StageAStart == sendNext' = 0 /\ recvNext' = 0 /\ inFlight' = 0 /\ headers' = <<>>

\* A candidate that is not cooling: Stage A when the node has no vector, on a
\* fresh subscription.
PickPeer(p) ==
  /\ stage = "idle" /\ ~Contains(cooling, p)
  /\ peer' = p
  /\ StageAStart /\ chan' = <<>>
  /\ IF vector = NoVector THEN stage' = "a" /\ UNCHANGED bVars ELSE EnterStageB(p)
  /\ UNCHANGED <<cooling, asked, vector, verified, storedTo, confirmed, history>>

\* The outcomes that end a stage: back to the scheduler, the peer cooling, with
\* a strike for a provable lie.  The subscription is removed.
EndStage(strike) ==
  /\ stage' = "idle" /\ cooling' = Append(cooling, peer)
  /\ struck' = (struck \/ (strike /\ peer = Honest))
  /\ chan' = <<>> /\ StageAStart

\* Time passes while a stage runs, or while every peer is cooling.  Answers that
\* were on the way arrive before a cooldown ends, or are late: a fault.
CooldownEnds ==
  /\ cooling # <<>> /\ (stage # "idle" \/ ToSet(cooling) = Peers)
  /\ cooling' = Tail(cooling)
  /\ IF asked = <<>> \/ Head(cooling) # Honest THEN UNCHANGED faults ELSE Fault
  /\ UNCHANGED <<stage, peer, aVars, wire, vector, verified, storedTo, bVars, confirmed,
                 lossy, probed, struck>>

-----------------------------------------------------------------------------
(* The wire between the node and the honest peer.                          *)

\* GetHeaders as the peer serves it.
Serve(req) ==
  SubSeq(Anchored, req.start + 1,
         IF req.start + req.count < Len(Anchored) THEN req.start + req.count ELSE Len(Anchored))

\* route_headers_if_subscribed: to the subscriber, lost when its channel is full.
\* Without a subscriber the answer goes to the manager, which has no use for it.
Route(batch) ==
  IF stage = "a" /\ peer = Honest
  THEN IF Len(chan) < SubscriberCap
       THEN chan' = Append(chan, batch) /\ UNCHANGED lossy
       ELSE lossy' = TRUE /\ UNCHANGED chan
  ELSE UNCHANGED <<chan, lossy>>

Answer ==
  /\ asked # <<>> /\ asked' = Tail(asked)
  /\ Route(Serve(Head(asked)))
  /\ UNCHANGED <<stage, peer, cooling, aVars, vector, verified, storedTo, bVars, confirmed,
                 faults, probed, struck>>

\* The peer is over its response budget and sends no header, or no answer.
AnswerEmpty ==
  /\ asked # <<>> /\ asked' = Tail(asked) /\ Fault
  /\ Route(<<>>)
  /\ UNCHANGED <<stage, peer, cooling, aVars, vector, verified, storedTo, bVars, confirmed,
                 probed, struck>>

AnswerLost ==
  /\ asked # <<>> /\ asked' = Tail(asked) /\ Fault /\ lossy' = TRUE
  /\ UNCHANGED <<stage, peer, cooling, aVars, chan, vector, verified, storedTo, bVars,
                 confirmed, probed, struck>>

\* A tip validation that runs on the same session asks for headers of its own;
\* the answer comes to the subscriber of Stage A.
ForeignProbe(req) ==
  /\ stage = "a" /\ peer = Honest /\ ~probed /\ probed' = TRUE
  /\ asked' = Append(asked, req)
  /\ UNCHANGED <<stage, peer, cooling, aVars, chan, vector, verified, storedTo, bVars,
                 confirmed, faults, lossy, struck>>

-----------------------------------------------------------------------------
(* Stage A.                                                                *)

WindowOpen == inFlight < MaxInFlight /\ sendNext < Batches

SendHeaders ==
  /\ stage = "a" /\ WindowOpen
  /\ sendNext' = sendNext + 1 /\ inFlight' = inFlight + 1
  /\ asked' = IF peer = Honest
              THEN Append(asked, [start |-> sendNext * BatchSize, count |-> BatchSize])
              ELSE asked
  /\ UNCHANGED <<stage, peer, cooling, recvNext, headers, chan, vector, verified, storedTo, bVars,
                 confirmed, history>>

\* verify_stage_a_batch_linkage: heights and hashes inside the batch, and the
\* seam to the header before it.
Contiguous(batch) ==
  \A i \in 2..Len(batch) :
    /\ HdrHeight[batch[i]] = HdrHeight[batch[i - 1]] + 1
    /\ HdrPrev[batch[i]] = batch[i - 1]

\* Faulty variant: the seam is left out.
LinkedNoSeam(batch, before) == Contiguous(batch)

Linked(batch, before) ==
  Contiguous(batch) /\ (before # <<>> => HdrPrev[batch[1]] = Last(before))

\* An answer belongs to the oldest request when its first header is the one
\* that was asked for, by height.
Correlated(batch) == batch # <<>> /\ HdrHeight[batch[1]] = recvNext * BatchSize

Receive(batch) ==
  \/ ~Correlated(batch) /\ EndStage(FALSE)
  \/ Correlated(batch) /\ ~Linked(batch, headers) /\ EndStage(TRUE)
  \/ /\ Correlated(batch) /\ Linked(batch, headers)
     /\ headers' = headers \o batch /\ recvNext' = recvNext + 1
     /\ inFlight' = IF inFlight = 0 THEN 0 ELSE inFlight - 1
     /\ chan' = IF peer = Honest THEN Tail(chan) ELSE chan
     /\ UNCHANGED <<stage, cooling, sendNext, struck>>

\* A liar's answer: any headers, also more than were asked for.
LiarBatch == UNION {[1..n -> Hdr] : n \in 0..(BatchSize + 1)}

ReceiveHeaders ==
  /\ stage = "a" /\ ~WindowOpen /\ recvNext < Batches
  /\ IF peer = Honest THEN chan # <<>> /\ Receive(Head(chan))
                      ELSE \E batch \in LiarBatch : Receive(batch)
  /\ UNCHANGED <<peer, asked, vector, verified, storedTo, bVars, confirmed>> /\ NoFault

\* verify_stage_a_anchor; then the vector is installed and the flag set.
CheckAnchor ==
  /\ stage = "a" /\ ~WindowOpen /\ recvNext = Batches
  /\ IF Len(headers) > AnchorHeight /\ headers[AnchorHeight + 1] = AnchorHash
     THEN /\ vector' = headers /\ verified' = TRUE
          /\ EnterStageB(peer)
          /\ StageAStart /\ chan' = <<>> /\ UNCHANGED <<cooling, struck>>
     ELSE /\ EndStage(Len(headers) > AnchorHeight)
          /\ UNCHANGED <<vector, verified, bVars>>
  /\ UNCHANGED <<peer, asked, storedTo, confirmed>> /\ NoFault

\* STAGE_A_PROGRESS_TIMEOUT: nothing comes, from a liar or because it was lost.
TimeoutA ==
  /\ stage = "a" /\ ~WindowOpen /\ recvNext < Batches
  /\ peer = Honest => asked = <<>> /\ chan = <<>>
  /\ EndStage(FALSE)
  /\ UNCHANGED <<peer, asked, vector, verified, storedTo, bVars, confirmed>> /\ NoFault

-----------------------------------------------------------------------------
(* Stage B.                                                                *)

HasBlock(b) == \E h \in 0..storedTo : HashAt(h) = b
Expected == vector[bNext + 1]
ChunksOpen == Len(chunks) < MaxChunks /\ bSend <= AnchorHeight

SendBlocks ==
  LET n == IF bSend + ChunkSize - 1 < AnchorHeight THEN ChunkSize ELSE AnchorHeight - bSend + 1 IN
  /\ stage = "b" /\ ChunksOpen
  /\ chunks' = Append(chunks, n) /\ bSend' = bSend + n
  /\ UNCHANGED <<stage, peer, cooling, aVars, wire, vector, verified, storedTo, bNext, 
                 confirmed, history>>

\* The block at the head of the first chunk: stored already, or processed without
\* proof of work; the anchor block confirms the peer.
TakeBlock ==
  /\ stage' = "b"
  /\ bNext' = bNext + 1
  /\ chunks' = IF Head(chunks) = 1 THEN Tail(chunks) ELSE [chunks EXCEPT ![1] = @ - 1]
  /\ IF HasBlock(Expected) THEN UNCHANGED storedTo
     ELSE storedTo' = IF Expected = HashAt(storedTo + 1) THEN storedTo + 1 ELSE storedTo
  /\ confirmed' = (confirmed \/ HdrHeight[Expected] = AnchorHeight)
  /\ UNCHANGED <<peer, cooling, aVars, wire, vector, verified, bSend, history>>

\* recv_ibd_block takes a stored block from the database, and waits for another.
ExpectBlock ==
  /\ stage = "b" /\ ~ChunksOpen /\ chunks # <<>>
  /\ IF HasBlock(Expected) THEN TakeBlock
     ELSE /\ stage' = "wait"
          /\ UNCHANGED <<peer, cooling, aVars, wire, vector, verified, storedTo, bVars,
                         confirmed, history>>

\* Only the expected block ends the wait.
Deliver == stage = "wait" /\ TakeBlock

\* The deadline of the wait: a liar is silent, or the block was stored by way of
\* another peer and the reader, which filters known blocks, keeps it back.
TimeoutB ==
  /\ stage = "wait" /\ (peer = Honest => HasBlock(Expected))
  /\ EndStage(FALSE)
  /\ UNCHANGED <<peer, asked, vector, verified, storedTo, bVars, confirmed>> /\ NoFault

FinishB ==
  /\ stage = "b" /\ ~ChunksOpen /\ chunks = <<>>
  /\ stage' = "done"
  /\ UNCHANGED <<peer, cooling, aVars, wire, vector, verified, storedTo, bVars, confirmed,
                 history>>

-----------------------------------------------------------------------------
\* While recv_ibd_block waits it has the blocks of other peers processed, after a
\* full check (process_block_event); one may be the next of the anchored chain.
Elsewhere ==
  /\ stage = "wait" /\ storedTo < AnchorHeight /\ storedTo' = storedTo + 1
  /\ UNCHANGED <<stage, peer, cooling, aVars, wire, vector, verified, bVars, confirmed,
                 history>>

\* The honest peer's session or subscription is lost, or it is too slow.
Disconnect ==
  /\ stage \in {"a", "b", "wait"} /\ peer = Honest /\ Fault
  /\ EndStage(FALSE) /\ asked' = <<>>
  /\ UNCHANGED <<peer, vector, verified, storedTo, bVars, confirmed,
                 lossy, probed>>

\* The node starts again: checkpoint_proven when the anchor block is stored.
StartAgain ==
  /\ Fault
  /\ stage' = "idle" /\ cooling' = <<>> /\ asked' = <<>> /\ chan' = <<>> /\ StageAStart
  /\ vector' = NoVector /\ verified' = (storedTo >= AnchorHeight) /\ confirmed' = FALSE
  /\ UNCHANGED <<peer, storedTo, bVars, lossy, probed, struck>>

StageStep ==
  \/ \E p \in Peers : PickPeer(p)
  \/ CooldownEnds
  \/ SendHeaders \/ ReceiveHeaders \/ CheckAnchor \/ TimeoutA
  \/ SendBlocks \/ ExpectBlock \/ Deliver \/ TimeoutB \/ FinishB

AnchorNext ==
  \/ StageStep
  \/ Answer \/ AnswerEmpty \/ AnswerLost
  \/ \E req \in Probes : ForeignProbe(req)
  \/ Elsewhere \/ Disconnect \/ StartAgain

\* The manager's task runs and its timeouts fire; the honest peer answers.
AnchorSpec ==
  AnchorInit /\ [][AnchorNext]_anchorVars /\ WF_anchorVars(StageStep) /\ WF_anchorVars(Answer)

-----------------------------------------------------------------------------
AnchorTypeOK ==
  /\ stage \in {"idle", "a", "b", "wait", "done"} /\ peer \in Peers
  /\ headers \in Seq(Hdr) /\ vector \in Seq(Hdr) /\ chan \in Seq(Seq(Hdr))
  /\ inFlight \in 0..MaxInFlight /\ Len(chunks) <= MaxChunks
  /\ storedTo \in 0..AnchorHeight /\ faults \in 0..MaxFaults

\* However a peer cuts the headers into batches and whatever heights it claims,
\* the vector Stage A installs is, up to the anchor, the chain that ends in
\* ASSUME_VALID_HASH, each header at the index of its height, and only blocks of
\* it skip proof of work ("the block is Stage-A-authenticated and skip-Argon2 is
\* safe").  The flag is set only with the vector or the anchor block there
\* ("Populate Node field BEFORE flipping assume_valid_verified"), and the anchor
\* block that confirms the peer is stored.  An honest peer is struck only when an
\* answer of its was lost and the answer to another task's request took its
\* place: a late, repeated, empty or misrouted answer alone is "not a provable
\* peer lie".
StageExact ==
  /\ AnchorTypeOK
  /\ vector # NoVector =>
       Len(vector) > AnchorHeight /\ \A h \in 0..AnchorHeight : vector[h + 1] = HashAt(h)
  /\ verified => vector # NoVector \/ storedTo = AnchorHeight
  /\ stage \in {"b", "wait"} => verified /\ vector # NoVector
  /\ stage = "wait" => bNext <= AnchorHeight /\ Expected = HashAt(bNext)
  /\ confirmed => storedTo = AnchorHeight
  /\ struck => lossy /\ probed

\* With one honest peer the node gets past the anchor and stays there, whatever
\* the liars send and however often they stall, once the honest peer's answers
\* are no longer lost.
AnchorReached == <>[](stage = "done" /\ storedTo = AnchorHeight /\ verified)
=============================================================================
