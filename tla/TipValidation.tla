---------------------------- MODULE TipValidation ---------------------------
(***************************************************************************)
(* How the tip reported by a peer becomes confirmed (network/sync.rs and   *)
(* network/tip_validation.rs): the handler of the sync manager asks for    *)
(* the header at the tip, and a task of its own validates the headers from *)
(* a common ancestor up to it.                                             *)
(*                                                                         *)
(* One session of an honest peer whose chain ends in Theirs.  Headers      *)
(* carry no request id: the answers come in the order of the requests, and *)
(* go to the validating task while it has a subscription, to the manager's *)
(* channel otherwise.  A header is the block it belongs to, None an empty  *)
(* answer; batches are walked one header at a time.                        *)
(***************************************************************************)
EXTENDS BlockTree, Sequences, FiniteSetsExt

CONSTANTS Theirs,      \* the peer's tip
          OurTips,     \* the tips our chain may have, the first is OurTip
          OurTip,
          KnownPeer,   \* whether some peer has been confirmed before
          MaxTips,     \* bound on reported tips
          MaxOpen,     \* bound on reported tips under way or being handled
          MaxSyncs,    \* bound on header requests of a download
          MaxReorgs    \* bound on changes of our chain

ASSUME TipValidationAssumption ==
  /\ Theirs \in Block \ {Genesis} /\ OurTips \subseteq Block /\ OurTip \in OurTips
  /\ KnownPeer \in BOOLEAN
  /\ MaxTips \in Nat /\ MaxOpen \in Nat /\ MaxSyncs \in Nat /\ MaxReorgs \in Nat

VARIABLES
  ours, known,      \* our tip, the headers we have
  asks,             \* heights asked for, to be answered in order
  events,           \* the manager's channel: "tip" or a header
  mgr,              \* "idle", "followup", "headers" or "blocks"
  want,             \* the height the manager waits for
  active, sub,      \* the reservation and the subscription of the session
  val,              \* "off", "spawned", "first", "search" or "walk"
  lo, hi, at, last, \* the validator: search bounds, awaited height, last header
  chan,             \* headers routed to the validator
  confirmed,        \* the work recorded with confirmed = true, or 0
  everConfirmed,    \* ever_confirmed_peer
  quiet,            \* history: no answer was late or empty, and no tip came
                    \* while the handler waited for the header of another
  struck, tips, syncs, reorgs

manager == <<mgr, want, syncs>>
validator == <<val, lo, hi, at, last>>
tipVars == <<ours, known, asks, events, manager, active, sub, validator, chan, confirmed,
          everConfirmed, quiet, struck, tips, reorgs>>

Claim == Height[Theirs]
OurAt(h) == IF h <= Height[ours] THEN AtHeight(ours, h) ELSE None
TheirAt(h) == IF h <= Claim THEN AtHeight(Theirs, h) ELSE None
BlockWork(b) == Work[b] - Work[Parent[b]]

TipInit ==
  /\ ours = OurTip /\ known = Anc[OurTip]
  /\ asks = <<>> /\ events = <<>> /\ mgr = "idle" /\ want = 0
  /\ active = FALSE /\ sub = FALSE
  /\ val = "off" /\ lo = 0 /\ hi = 0 /\ at = 0 /\ last = Genesis /\ chan = <<>>
  /\ confirmed = 0 /\ everConfirmed = KnownPeer
  /\ quiet = TRUE /\ struck = FALSE /\ tips = 0 /\ syncs = 0 /\ reorgs = 0

-----------------------------------------------------------------------------
\* The session.

\* The peer reports its tip, in answer to a GetTip: one is sent when the
\* session starts and then every 60 s, a dropped answer is asked for again.
TipArrives ==
  /\ tips < MaxTips /\ tips' = tips + 1
  /\ Cardinality({i \in DOMAIN events : events[i] = "tip"})
       + Cardinality({"followup"} \cap {mgr}) < MaxOpen
  /\ events' = Append(events, "tip")
  /\ UNCHANGED <<quiet, ours, known, asks, manager, active, sub, validator, chan, confirmed,
                 everConfirmed, struck, reorgs>>

\* The next answer is read from the session and routed; a peer whose byte
\* budget is used up answers without headers.
Answer ==
  /\ asks # <<>> /\ asks' = Tail(asks)
  /\ \E h \in {TheirAt(Head(asks)), None} :
       /\ quiet' = (quiet /\ h = TheirAt(Head(asks)))
       /\ IF sub THEN chan' = Append(chan, h) /\ UNCHANGED events
          ELSE events' = Append(events, h) /\ UNCHANGED chan
  /\ UNCHANGED <<ours, known, manager, active, sub, validator, confirmed, everConfirmed,
                 struck, tips, reorgs>>

\* Our chain moves, by a block or a reorg.
Reorg ==
  /\ reorgs < MaxReorgs /\ reorgs' = reorgs + 1
  /\ ours' \in {t \in OurTips : IsBetter(t, ours)} /\ known' = known \cup Anc[ours']
  /\ UNCHANGED <<quiet, asks, events, manager, active, sub, validator, chan, confirmed,
                 everConfirmed, struck, tips>>

-----------------------------------------------------------------------------
\* The manager.

\* No answer to the manager is under way.
NothingComes == asks = <<>> /\ \A i \in DOMAIN events : events[i] = "tip"

\* try_reserve, and the spawn of the validator.
Dispatch ==
  IF active THEN UNCHANGED <<active, val>>
  ELSE active' = TRUE /\ val' = "spawned"

\* Faulty variant: the handler does not look for a running validation.
SkipTipNever == FALSE

SkipTip == active

\* The main loop takes a reported tip: it asks for the header at the tip.
HandleTip ==
  /\ mgr = "idle" /\ events # <<>> /\ Head(events) = "tip"
  /\ events' = Tail(events)
  /\ IF SkipTip THEN UNCHANGED <<asks, mgr, want>>
     ELSE asks' = Append(asks, Claim) /\ mgr' = "followup" /\ want' = Claim
  /\ UNCHANGED <<quiet, ours, known, active, sub, validator, chan, confirmed, everConfirmed,
                 struck, tips, syncs, reorgs>>

\* A tip that is read while the manager waits for something else.
BackgroundTip ==
  /\ mgr # "idle" /\ events # <<>> /\ Head(events) = "tip"
  /\ events' = Tail(events) /\ quiet' = (quiet /\ mgr # "followup")
  /\ IF mgr # "headers" /\ everConfirmed THEN Dispatch ELSE UNCHANGED <<active, val>>
  /\ UNCHANGED <<ours, known, asks, manager, sub, lo, hi, at, last, chan, confirmed,
                 everConfirmed, struck, tips, reorgs>>

\* Headers nobody waits for.
StrayHeaders ==
  /\ mgr \in {"idle", "blocks"} /\ events # <<>> /\ Head(events) # "tip"
  /\ events' = Tail(events)
  /\ UNCHANGED <<quiet, ours, known, asks, manager, active, sub, validator, chan, confirmed,
                 everConfirmed, struck, tips, reorgs>>

\* The work recorded for a tip whose header checks out on its own.
LegacyWork == IF Theirs \in known THEN Work[Theirs] ELSE Work[ours] + BlockWork(Theirs)

\* The header at the tip: an empty answer ends the attempt, a wrong one is a
\* strike, an unknown parent is left to the validator.
FollowUp ==
  /\ mgr = "followup" /\ events # <<>> /\ Head(events) # "tip"
  /\ events' = Tail(events) /\ mgr' = "idle"
  /\ CASE Head(events) = None -> UNCHANGED <<active, val, confirmed, everConfirmed, struck>>
       [] Head(events) = Theirs /\ Parent[Theirs] \notin known ->
            Dispatch /\ UNCHANGED <<confirmed, everConfirmed, struck>>
       [] Head(events) = Theirs /\ Parent[Theirs] \in known ->
            /\ confirmed' = LegacyWork /\ everConfirmed' = TRUE
            /\ UNCHANGED <<active, val, struck>>
       [] OTHER -> struck' = TRUE /\ UNCHANGED <<active, val, confirmed, everConfirmed>>
  /\ UNCHANGED <<quiet, ours, known, asks, want, sub, lo, hi, at, last, chan, tips, syncs, reorgs>>

FollowUpTimeout ==
  /\ mgr = "followup" /\ quiet' = (quiet /\ NothingComes)
  /\ mgr' = "idle" /\ struck' = TRUE
  /\ UNCHANGED <<ours, known, asks, events, want, active, sub, validator, chan, confirmed,
                 everConfirmed, tips, syncs, reorgs>>

\* A download from this peer asks for headers, then waits for blocks.
AskHeaders ==
  /\ mgr \in {"idle", "blocks"} /\ syncs < MaxSyncs /\ syncs' = syncs + 1
  /\ mgr' = "headers" /\ \E h \in 1..Claim : want' = h /\ asks' = Append(asks, h)
  /\ UNCHANGED <<quiet, ours, known, events, active, sub, validator, chan, confirmed,
                 everConfirmed, struck, tips, reorgs>>

SyncHeaders ==
  /\ mgr = "headers" /\ events # <<>> /\ Head(events) # "tip"
  /\ events' = Tail(events)
  /\ mgr' = IF Head(events) = TheirAt(want) THEN "blocks" ELSE "idle"
  /\ UNCHANGED <<quiet, ours, known, asks, want, active, sub, validator, chan, confirmed,
                 everConfirmed, struck, tips, syncs, reorgs>>

\* The download ends, or fails without an answer.
SyncEnds ==
  /\ mgr \in {"headers", "blocks"} /\ mgr' = "idle"
  /\ quiet' = (quiet /\ (mgr = "headers" => NothingComes))
  /\ UNCHANGED <<ours, known, asks, events, want, active, sub, validator, chan, confirmed,
                 everConfirmed, struck, tips, syncs, reorgs>>

-----------------------------------------------------------------------------
\* The validating task, past the assume-valid height.

\* The task ends: the subscription goes with it, the reservation after it.
End(strike) ==
  /\ val' = "off" /\ active' = FALSE /\ chan' = <<>> /\ sub' = FALSE
  /\ struck' = (struck \/ strike)

Fail(strike) ==
  /\ End(strike)
  /\ UNCHANGED <<asks, lo, hi, at, last, confirmed, everConfirmed>>

Succeed(w) ==
  /\ End(FALSE) /\ confirmed' = w /\ everConfirmed' = TRUE
  /\ UNCHANGED <<asks, lo, hi, at, last>>

\* The answer has been used, the next request is sent.
AskAt(pc, h) ==
  /\ val' = pc /\ at' = h /\ asks' = Append(asks, h) /\ chan' = Tail(chan)
  /\ UNCHANGED <<active, sub, confirmed, everConfirmed, struck>>

\* get_block_id_by_height of the ancestor; the walk starts above it.
AnchorAt(h) ==
  IF OurAt(h) = None THEN Fail(FALSE)
  ELSE IF Claim <= h THEN Succeed(Work[OurAt(h)])
  ELSE AskAt("walk", h + 1) /\ last' = OurAt(h) /\ lo' = h /\ hi' = h

\* The next probe of the binary search between l and h.
Search(l, h) ==
  IF l < h THEN AskAt("search", l + (h - l + 1) \div 2) /\ lo' = l /\ hi' = h /\ UNCHANGED last
  ELSE AnchorAt(l)

\* try_acquire_owned may fail; then the subscription, and the first probe.
ValStart ==
  /\ val = "spawned"
  /\ \/ Fail(FALSE)
     \/ /\ sub' = TRUE /\ chan' = <<>> /\ val' = "first"
        /\ at' = Min({Height[ours], Claim}) /\ asks' = Append(asks, at')
        /\ UNCHANGED <<lo, hi, last, active, confirmed, everConfirmed, struck>>
  /\ UNCHANGED <<quiet, ours, known, events, manager, tips, reorgs>>

\* A probe answered: our block at that height decides.
ValProbe ==
  /\ val \in {"first", "search"} /\ chan # <<>>
  /\ LET h == Head(chan) IN
     \/ h = None /\ Fail(FALSE)
     \/ h # None /\ Height[h] # at /\ Fail(TRUE)
     \/ h # None /\ Height[h] = at /\ OurAt(at) = None /\ Fail(FALSE)
     \/ /\ h # None /\ Height[h] = at /\ OurAt(at) # None
        /\ CASE val = "first" /\ h = OurAt(at) -> AnchorAt(at)
             [] val = "first" /\ h # OurAt(at) -> Search(0, at)
             [] val = "search" /\ h = OurAt(at) -> Search(at, hi)
             [] OTHER -> Search(lo, at - 1)
  /\ UNCHANGED <<quiet, ours, known, events, manager, tips, reorgs>>

MoreToWalk == at < Claim


VerifiedWork(h) == Work[AtHeight(h, lo)] + (Work[h] - Work[AtHeight(h, lo)])

\* The walk up from the anchor; at the end the anchor must still be ours.
ValWalk ==
  /\ val = "walk" /\ chan # <<>>
  /\ LET h == Head(chan) IN
     \/ h = None /\ Fail(FALSE)
     \/ h # None /\ (Height[h] # at \/ Parent[h] # last) /\ Fail(TRUE)
     \/ /\ h # None /\ Height[h] = at /\ Parent[h] = last
        /\ IF MoreToWalk
           THEN AskAt("walk", at + 1) /\ last' = h /\ UNCHANGED <<lo, hi>>
           ELSE IF h # Theirs THEN Fail(TRUE)
           ELSE IF OurAt(lo) # AtHeight(h, lo) THEN Fail(FALSE)
           ELSE Succeed(VerifiedWork(h))
  /\ UNCHANGED <<quiet, ours, known, events, manager, tips, reorgs>>

\* await_header_batch times out, the deadline passes, or the session is gone.
ValTimeout ==
  /\ val \in {"first", "search", "walk"} /\ chan = <<>>
  /\ quiet' = (quiet /\ asks = <<>>)
  /\ Fail(FALSE)
  /\ UNCHANGED <<ours, known, events, manager, tips, reorgs>>

TipNext ==
  \/ TipArrives \/ Answer \/ Reorg
  \/ HandleTip \/ BackgroundTip \/ StrayHeaders \/ FollowUp \/ FollowUpTimeout
  \/ AskHeaders \/ SyncHeaders \/ SyncEnds
  \/ ValStart \/ ValProbe \/ ValWalk \/ ValTimeout

TipSpec == TipInit /\ [][TipNext]_tipVars

-----------------------------------------------------------------------------
Headers == {Theirs, None} \cup {TheirAt(h) : h \in 0..Claim}
Tasks == {"off", "spawned", "first", "search", "walk"}

\* The state of the session, the handler and the validator.
TipTypeOK ==
  /\ ours \in OurTips /\ known \subseteq Block
  /\ asks \in Seq(0..Claim) /\ events \in Seq({"tip"} \cup Headers) /\ chan \in Seq(Headers)
  /\ mgr \in {"idle", "followup", "headers", "blocks"} /\ want \in 0..Claim
  /\ active \in BOOLEAN /\ sub \in BOOLEAN /\ val \in Tasks
  /\ {lo, hi} \subseteq 0..Claim /\ at \in 0..Claim + 1 /\ last \in Block
  /\ confirmed \in Nat /\ everConfirmed \in BOOLEAN /\ {quiet, struck} \subseteq BOOLEAN
  /\ tips \in 0..MaxTips /\ syncs \in 0..MaxSyncs /\ reorgs \in 0..MaxReorgs

\* An honest peer that answers in time, one reported tip after the other, is
\* never struck while our chain stands still and no download uses its session
\* (tip_validation: "strike only on delivered-but-invalid headers").
HonestPeerNotStruck == quiet /\ syncs = 0 /\ reorgs = 0 => ~struck

=============================================================================
