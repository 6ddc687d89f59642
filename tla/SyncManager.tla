----------------------------- MODULE SyncManager ----------------------------
(***************************************************************************)
(* The central sync manager (run_sync_manager, network/sync.rs): it scans  *)
(* the peer registry, picks the peer to download from, runs the download   *)
(* and decides between Live and CatchingUp.                                *)
(*                                                                         *)
(* A chain is its cumulative work.  Each wall-clock timer of the code is a *)
(* value that an action of its own lets run out.  SyncState, mining_cancel *)
(* and is_live are always written together: they are one variable.         *)
(***************************************************************************)
EXTENDS Integers, FiniteSetsExt

CONSTANTS Peers,
          NoPeer,
          Overclaiming,   \* peers whose tip claim is more than they deliver
          Growing,        \* peers whose chain may still grow
          InitialWork,    \* our work at boot
          PeerWork,       \* the work of each peer's chain at boot
          MaxWork,        \* bound on the work of a chain
          Anchor,         \* the work at ASSUME_VALID_HEIGHT
          MaxFaults       \* bound on lost sessions, failed downloads and
                          \* scans that find the tip's lock taken

ASSUME SyncManagerAssumption ==
  /\ NoPeer \notin Peers /\ Overclaiming \subseteq Peers /\ Growing \subseteq Peers
  /\ InitialWork \in 1..MaxWork /\ PeerWork \in [Peers -> 1..MaxWork]
  /\ MaxWork \in Nat /\ Anchor \in Nat /\ MaxFaults \in Nat

VARIABLES
  work,     \* the work of our tip
  chain,    \* the work of each peer's chain
  reg,      \* the registry: session, tip, cooldown of each peer
  pending,  \* peers whose Connected event is still in the channel
  pc,       \* "scan", "event" or "ibd"
  ibd,      \* active_ibd_peer
  session,  \* whether the session of the download is still the same
  live, proven, everHadPeer,
  seen, recent,     \* last_tip_height, and whether it changed lately
  absent,           \* strict_absent_since: "none", "counting", "armed"
  booted,           \* past the grace period of the bootstrap
  contended,        \* history: a scan has found the tip's lock taken
  faults

node == <<live, proven, everHadPeer, seen, recent, absent>>
vars == <<work, chain, reg, pending, pc, ibd, session, node, booted, contended, faults>>

\* What a peer answers when asked for its tip.
Tip(p) == IF p \in Overclaiming THEN MaxWork + 1 ELSE chain[p]

Up == {p \in Peers : reg[p].up}
Confirmed == {p \in Up : reg[p].confirmed}
Ahead == {p \in Up : reg[p].claim > work}
BestConfirmedWork == IF Confirmed = {} THEN 0 ELSE Max({reg[p].claim : p \in Confirmed})

Init ==
  /\ work = InitialWork /\ chain = PeerWork
  /\ reg = [p \in Peers |-> [up |-> FALSE, claim |-> 0, confirmed |-> FALSE,
                             ever |-> FALSE, cool |-> 0]]
  /\ pending = {} /\ pc = "scan" /\ ibd = NoPeer /\ session = FALSE
  /\ live = FALSE /\ proven = 0 /\ everHadPeer = FALSE
  /\ seen = InitialWork /\ recent = TRUE /\ absent = "counting"
  /\ booted = FALSE /\ contended = FALSE /\ faults = 0

-----------------------------------------------------------------------------
\* The candidates of a scan.

Strict == {p \in Ahead : (reg[p].confirmed \/ reg[p].ever) /\ reg[p].cool = 0}
Relaxed == {p \in Ahead : reg[p].cool = 0}

BlocksFallback(p) == reg[p].confirmed /\ reg[p].claim > work

AnyConfirmed == \E p \in Up : BlocksFallback(p)

\* The strict bucket, or the relaxed one when the fallback may be used.
Bucket ==
  IF Strict # {} THEN Strict
  ELSE IF absent = "armed" /\ ~AnyConfirmed THEN Relaxed ELSE {}

Best(S) == {p \in S : \A q \in S : reg[q].claim <= reg[p].claim}

NextAbsent ==
  IF Strict # {} \/ AnyConfirmed THEN "none"
  ELSE IF absent = "none" THEN "counting" ELSE absent

\* Tip tracking at the head of the loop.
Recent == recent \/ work # seen
TrackTip == seen' = work /\ recent' = Recent

\* A scan has looked at every cooldown that was just set.
Scanned(r) == [p \in Peers |-> [r[p] EXCEPT !.cool = Min({@, 1})]]

-----------------------------------------------------------------------------
\* The decision between Live and CatchingUp, with our work as it was read.

\* Faulty variant: a completed download is no proof.
HasProofConfirmedOnly(ours) == BestConfirmedWork # 0

HasProof(ours) == BestConfirmedWork # 0 \/ (proven # 0 /\ ours >= proven)

BootstrapEligible == Up = {} /\ ~everHadPeer /\ booted


GoLive(ours) ==
  \/ /\ HasProof(ours)
     /\ BestConfirmedWork <= ours \/ Recent
     /\ BestConfirmedWork # 0 \/ Recent
  \/ BootstrapEligible

Behind(ours) == BestConfirmedWork > ours \/ (Ahead # {} /\ BestConfirmedWork = 0)

StayLive(ours) == Recent \/ ~Behind(ours)

NextIsLive(ours) == IF live THEN StayLive(ours) ELSE GoLive(ours)

\* The work of our tip, or nothing when another task holds the tip's lock.
OurWork == {work} \cup (IF faults < MaxFaults THEN {0} ELSE {})

\* A scan above the anchor that starts no download.
Iterate ==
  /\ pc = "scan" /\ work > Anchor /\ Bucket = {}
  /\ TrackTip
  /\ absent' = NextAbsent
  /\ \E ours \in OurWork :
       /\ contended' = (contended \/ ours = 0)
       /\ faults' = IF ours = 0 THEN faults + 1 ELSE faults
       /\ live' = NextIsLive(ours)
       /\ proven' = IF live /\ ~NextIsLive(ours) THEN 0 ELSE proven
  /\ reg' = Scanned(reg)
  /\ pc' = "event"
  /\ UNCHANGED <<work, chain, pending, ibd, session, everHadPeer, booted>>

StopMining == live' = FALSE

\* A scan above the anchor that starts a download.
StartIbd ==
  /\ pc = "scan" /\ work > Anchor
  /\ \E p \in Best(Bucket) : ibd' = p
  /\ TrackTip
  /\ absent' = NextAbsent
  /\ StopMining /\ session' = TRUE /\ pc' = "ibd"
  /\ reg' = Scanned(reg)
  /\ UNCHANGED <<work, chain, pending, proven, everHadPeer, booted, contended, faults>>

\* At or below the anchor any peer past it will do, confirmed or not.
ColdCandidates == {p \in Up : reg[p].claim >= Anchor /\ reg[p].cool = 0}

StartColdIbd ==
  /\ pc = "scan" /\ work <= Anchor
  /\ \E p \in ColdCandidates : ibd' = p
  /\ TrackTip
  /\ StopMining /\ session' = TRUE /\ pc' = "ibd"
  /\ reg' = Scanned(reg)
  /\ UNCHANGED <<work, chain, pending, proven, everHadPeer, absent, booted, contended, faults>>

\* No candidate below the anchor: sleep and scan again, without events.
ColdWait ==
  /\ pc = "scan" /\ work <= Anchor /\ ColdCandidates = {}
  /\ TrackTip
  /\ reg' = Scanned(reg)
  /\ UNCHANGED <<work, chain, pending, pc, ibd, session, live, proven, everHadPeer,
                 absent, booted, contended, faults>>

-----------------------------------------------------------------------------
\* The download.

\* The block at the anchor is applied: its sender counts as confirmed, with
\* the work it claimed.
AnchorApplied(r, w) ==
  IF work < Anchor /\ w >= Anchor
  THEN [r EXCEPT ![ibd].confirmed = TRUE, ![ibd].ever = TRUE] ELSE r

\* Tips that arrive while the manager waits for the tip of the peer it has
\* synced from: it is confirmed when its tip is a block of ours, and any
\* other peer is set to its claim, unconfirmed.
TipsAfterSync(r, w, D) ==
  [p \in Peers |->
     IF p \notin D THEN r[p]
     ELSE [r[p] EXCEPT !.claim = Tip(p), !.confirmed = (p = ibd /\ Tip(p) <= w)]]

\* The set of peers whose tips arrive then: nobody's if the session is gone.
Answering == IF session THEN SUBSET Up ELSE {{}}

IbdOk ==
  /\ pc = "ibd" /\ reg[ibd].claim <= chain[ibd]
  /\ LET w == Max({work, reg[ibd].claim})
         r == AnchorApplied(reg, w)
     IN /\ work' = w /\ seen' = w /\ recent' = TRUE
        /\ IF work <= Anchor
           THEN reg' = r /\ UNCHANGED proven
           ELSE /\ proven' = w
                /\ \E D \in Answering :
                     reg' = TipsAfterSync([r EXCEPT ![ibd].ever = TRUE], w, D)
  /\ ibd' = NoPeer /\ session' = FALSE /\ pc' = "scan"
  /\ UNCHANGED <<chain, pending, live, everHadPeer, absent, booted, contended, faults>>


Cooldown == 2

\* The download fails, after some blocks: the peer has no more, its session
\* is lost, or an answer is late.
IbdFail ==
  /\ pc = "ibd"
  /\ IF reg[ibd].claim > chain[ibd] \/ ~session THEN UNCHANGED faults
     ELSE faults < MaxFaults /\ faults' = faults + 1
  /\ \E w \in work..Max({work, chain[ibd]}) :
       /\ work' = w
       /\ reg' = [AnchorApplied(reg, w) EXCEPT ![ibd].cool = Cooldown]
  /\ ibd' = NoPeer /\ session' = FALSE /\ pc' = "scan"
  /\ UNCHANGED <<chain, pending, node, booted, contended>>

-----------------------------------------------------------------------------
\* Events, handled by the loop or, during a download, in the background.

\* Only the loop itself remembers that there has been a peer.
HandleConnected(p) ==
  /\ pc \in {"event", "ibd"} /\ p \in pending
  /\ pending' = pending \ {p}
  /\ everHadPeer' = (everHadPeer \/ pc = "event")
  /\ pc' = IF pc = "event" THEN "scan" ELSE pc
  /\ UNCHANGED <<work, chain, reg, ibd, session, live, proven, seen, recent, absent,
                 booted, contended, faults>>

\* A peer reports its tip; the claim of a confirmed peer is kept until the
\* new one is confirmed.
HandleTip(p) ==
  /\ pc \in {"event", "ibd"} /\ p \in Up
  /\ reg' = IF reg[p].confirmed THEN reg ELSE [reg EXCEPT ![p].claim = Tip(p)]
  /\ pc' = IF pc = "event" THEN "scan" ELSE pc
  /\ UNCHANGED <<work, chain, pending, ibd, session, node, booted, contended, faults>>

\* The validation of a reported tip succeeds, in its own task or in the
\* handler: the claim is exact and confirmed.
Confirm(p) ==
  /\ p \in Up \ Overclaiming /\ work > Anchor
  /\ reg' = [reg EXCEPT ![p].claim = chain[p], ![p].confirmed = TRUE, ![p].ever = TRUE]
  /\ UNCHANGED <<work, chain, pending, pc, ibd, session, node, booted, contended, faults>>

\* A relayed block extends our tip.
HandleBlock(p) ==
  /\ pc \in {"event", "ibd"} /\ p \in Up /\ chain[p] = work + 1
  /\ work' = work + 1
  /\ pc' = IF pc = "event" THEN "scan" ELSE pc
  /\ UNCHANGED <<chain, reg, pending, ibd, session, node, booted, contended, faults>>

EventTimeout ==
  /\ pc = "event" /\ pc' = "scan"
  /\ UNCHANGED <<work, chain, reg, pending, ibd, session, node, booted, contended, faults>>

-----------------------------------------------------------------------------
\* Peers and time.

Connect(p) ==
  /\ ~reg[p].up
  /\ reg' = [reg EXCEPT ![p].up = TRUE, ![p].claim = Tip(p), ![p].confirmed = FALSE]
  /\ pending' = pending \cup {p}
  /\ UNCHANGED <<work, chain, pc, ibd, session, node, booted, contended, faults>>

Disconnect(p) ==
  /\ reg[p].up /\ faults < MaxFaults
  /\ reg' = [reg EXCEPT ![p].up = FALSE]
  /\ session' = (session /\ ibd # p) /\ faults' = faults + 1
  /\ UNCHANGED <<work, chain, pending, pc, ibd, node, booted, contended>>

\* The chain of a peer grows.
Grow(p) ==
  /\ p \in Growing /\ chain[p] < MaxWork
  /\ chain' = [chain EXCEPT ![p] = @ + 1]
  /\ UNCHANGED <<work, reg, pending, pc, ibd, session, node, booted, contended, faults>>

\* A minute passes without a new tip: not between a new tip and the scan
\* that follows it at once.
RecentExpires ==
  /\ recent /\ pc # "scan" /\ recent' = FALSE
  /\ UNCHANGED <<work, chain, reg, pending, pc, ibd, session, live, proven, everHadPeer,
                 seen, absent, booted, contended, faults>>

AbsentExpires ==
  /\ absent = "counting" /\ absent' = "armed"
  /\ UNCHANGED <<work, chain, reg, pending, pc, ibd, session, live, proven, everHadPeer,
                 seen, recent, booted, contended, faults>>

\* A cooldown outlasts the scan that follows it.
CooldownExpires(p) ==
  /\ reg[p].cool = 1 /\ reg' = [reg EXCEPT ![p].cool = 0]
  /\ UNCHANGED <<work, chain, pending, pc, ibd, session, node, booted, contended, faults>>

BootGraceExpires ==
  /\ ~booted /\ booted' = TRUE
  /\ UNCHANGED <<work, chain, reg, pending, pc, ibd, session, node, contended, faults>>

Next ==
  \/ Iterate \/ StartIbd \/ StartColdIbd \/ ColdWait \/ IbdOk \/ IbdFail
  \/ EventTimeout \/ RecentExpires \/ AbsentExpires \/ BootGraceExpires
  \/ \E p \in Peers : \/ HandleConnected(p) \/ HandleTip(p) \/ HandleBlock(p) \/ Confirm(p)
                      \/ Connect(p) \/ Disconnect(p) \/ Grow(p) \/ CooldownExpires(p)

Spec == Init /\ [][Next]_vars

\* The manager's task keeps running, the channel is read, downloads end and
\* timers run out; nothing is assumed of connections, relayed blocks and
\* the validation of tips.
Scheduling ==
  /\ WF_vars(Iterate) /\ WF_vars(StartIbd) /\ WF_vars(StartColdIbd) /\ WF_vars(ColdWait)
  /\ WF_vars(IbdOk \/ IbdFail) /\ WF_vars(EventTimeout)
  /\ WF_vars(RecentExpires) /\ SF_vars(AbsentExpires) /\ WF_vars(BootGraceExpires)
  /\ \A p \in Peers : /\ SF_vars(HandleConnected(p)) /\ SF_vars(HandleTip(p))
                      /\ WF_vars(CooldownExpires(p))

FairSpec == Spec /\ Scheduling

-----------------------------------------------------------------------------
\* Types; and the node is never Live, so it never mines, while the sync
\* manager is inside run_ibd.
TypeOK ==
  /\ work \in 1..MaxWork /\ chain \in [Peers -> 1..MaxWork]
  /\ reg \in [Peers -> [up : BOOLEAN, claim : 0..(MaxWork + 1), confirmed : BOOLEAN,
                        ever : BOOLEAN, cool : 0..2]]
  /\ pending \subseteq Peers /\ pc \in {"scan", "event", "ibd"}
  /\ ibd \in Peers \cup {NoPeer} /\ session \in BOOLEAN
  /\ live \in BOOLEAN /\ proven \in 0..MaxWork /\ everHadPeer \in BOOLEAN
  /\ seen \in 1..MaxWork /\ recent \in BOOLEAN /\ absent \in {"none", "counting", "armed"}
  /\ booted \in BOOLEAN /\ contended \in BOOLEAN /\ faults \in 0..MaxFaults
  /\ (pc = "ibd") = (ibd # NoPeer)
  /\ pc = "ibd" => ~live


\* A download that leaves nobody ahead makes the node Live although no peer
\* is confirmed (proven_by_delivery of has_liveness_proof), unless the scan
\* that follows it cannot read our tip.  And the node does not stay Live for
\* ever on a tip that a connected peer claims to be ahead of (the staleness
\* revert of next_is_live, and the fallback when another peer is confirmed), and
\* never mines while it downloads.
LiveFollowsProof ==
  /\ []TypeOK
  /\ (pc = "scan" /\ recent /\ proven = work) ~> (live \/ Ahead # {} \/ proven = 0 \/ contended)
  /\ (live /\ Ahead # {}) ~> (~live \/ Ahead = {})

=============================================================================
