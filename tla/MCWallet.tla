------------------------------ MODULE MCWallet ------------------------------
(***************************************************************************)
(* What a wallet relies on: the push feed (EventFeed), the paged reads of  *)
(* its outputs (PagedScan) and the covenants it pays to (Covenants).  A    *)
(* behaviour is of one of the three.                                       *)
(***************************************************************************)
EXTENDS Covenants, EventFeed, PagedScan, TLC

VARIABLE part   \* the component that moves

\* Two clients behind one address; both watch b.
MCWatches == (1 :> {"a", "b"}) @@ (2 :> {"b"})
MCIpOf == (1 :> "ip") @@ (2 :> "ip")

\* Every template, the hash time-locked contract with both assignments of keys.
MCPreimage == <<1>>
MCContract(kind, a, b, c) ==
  [kind |-> kind, a |-> a, b |-> b, c |-> c, lock |-> Sha256(MCPreimage), height |-> 1]
MCContracts ==
  {MCContract("p2pkh", 0, 0, 0), MCContract("2of2", 0, 1, 0), MCContract("1of2", 0, 1, 0),
   MCContract("2of3", 0, 1, 2), MCContract("vault", 0, 1, 0), MCContract("delegation", 0, 1, 0),
   MCContract("escrow", 0, 1, 2), MCContract("htlc", 0, 1, 0), MCContract("htlc", 1, 0, 1),
   MCContract("close", 0, 1, 0), MCContract("dispute", 0, 1, 0)}
MCValues == {Unit}
MCContext == SpendContext(1)

vars == <<part, covVars, scriptVars, feedVars, scanVars>>

Init ==
  /\ part \in {"feed", "scan", "covenant"}
  /\ CovInit /\ ScriptInit /\ FeedInit /\ ScanInit
  /\ part # "covenant" => contract.kind = "p2pkh"
  /\ part # "scan" => DOMAIN coins = {}

Feed == part = "feed" /\ FeedNext /\ UNCHANGED <<part, covVars, scriptVars, scanVars>>
Scan == part = "scan" /\ ScanNext /\ UNCHANGED <<part, covVars, scriptVars, feedVars>>
Covenant == part = "covenant" /\ CovNext /\ UNCHANGED <<part, scriptVars, feedVars, scanVars>>

Next == Feed \/ Scan \/ Covenant

\* The fairness of the feed and of the scan, each for its own behaviours.
Spec == /\ Init /\ [][Next]_vars
        /\ WF_vars(FeedStep /\ part = "feed" /\ UNCHANGED <<part, covVars, scriptVars, scanVars>>)
        /\ WF_vars(ScanStep /\ part = "scan" /\ UNCHANGED <<part, covVars, scriptVars, feedVars>>)
        /\ WF_vars(Minute /\ part = "scan" /\ UNCHANGED <<part, covVars, scriptVars, feedVars>>)


\* Once blocks pause, a client of the feed is up to date or has its lagged flag
\* up, and a client that walks its outputs comes to the end (FeedSettles and
\* WalksFinish).
ClientsServed ==
  /\ part = "feed" => FeedSettles
  /\ part = "scan" => WalksFinish
=============================================================================
