-------------------------- MODULE MCHeaderDownload --------------------------
(***************************************************************************)
(* A download of headers and blocks (InitialSync), the one below the       *)
(* assume-valid anchor (AnchorSync), and the rules a header is held to     *)
(* (HeaderChain).  A behaviour is of one of the three.                     *)
(*                                                                         *)
(* The peer has b4.  The node collects the other blocks from other peers   *)
(* or mines them, before or while it syncs; c2 beats a3 but is lower.      *)
(*                                                                         *)
(*   g - a1 - a2 - a3         work 1, 2, 3, 4                              *)
(*          - b2 - b3 - b4    work 3, 6, 9                                 *)
(*     - c1 - c2              work 2, 5                                    *)
(***************************************************************************)
EXTENDS InitialSync, AnchorSync, HeaderChain

VARIABLE part   \* the component that moves

MCParent == [g |-> "g", a1 |-> "g", a2 |-> "a1", a3 |-> "a2",
             b2 |-> "a1", b3 |-> "b2", b4 |-> "b3",
             c1 |-> "g", c2 |-> "c1"]
MCBlock  == DOMAIN MCParent
MCHeight == [g |-> 0, a1 |-> 1, a2 |-> 2, a3 |-> 3,
             b2 |-> 2, b3 |-> 3, b4 |-> 4,
             c1 |-> 1, c2 |-> 2]
MCWork   == [g |-> 1, a1 |-> 2, a2 |-> 3, a3 |-> 4,
             b2 |-> 3, b3 |-> 6, b4 |-> 9,
             c1 |-> 2, c2 |-> 5]
MCAnc    == [g |-> {"g"}, a1 |-> {"g", "a1"}, a2 |-> {"g", "a1", "a2"}, a3 |-> {"g", "a1", "a2", "a3"},
             b2 |-> {"g", "a1", "b2"}, b3 |-> {"g", "a1", "b2", "b3"}, b4 |-> {"g", "a1", "b2", "b3", "b4"},
             c1 |-> {"g", "c1"}, c2 |-> {"g", "c1", "c2"}]
MCTimestamp == [b \in MCBlock |-> IF b = "b3" THEN 1 ELSE 0]

\* Timestamps before the parent's, after it, and beyond the gap.
MCDeltas == {-1, 1, 6, 17}

\* Below the anchor a4: headers a liar may put between those of the chain, among
\* them a sibling of the anchor and one that skips a height.
MCHdrs == [a0 |-> <<"none", 0>>, a1 |-> <<"a0", 1>>, a2 |-> <<"a1", 2>>, a3 |-> <<"a2", 3>>,
           a4 |-> <<"a3", 4>>, a5 |-> <<"a4", 5>>,
           x2 |-> <<"a1", 2>>, x4 |-> <<"a3", 4>>, z2 |-> <<"a0", 2>>]
MCHdr == DOMAIN MCHdrs
MCHdrPrev == [h \in MCHdr |-> MCHdrs[h][1]]
MCHdrHeight == [h \in MCHdr |-> MCHdrs[h][2]]
MCAnchored == <<"a0", "a1", "a2", "a3", "a4", "a5">>
MCProbes == {[start |-> 2, count |-> 1], [start |-> 2, count |-> 2], [start |-> 3, count |-> 1]}

vars == <<part, syncVars, anchorVars, headerVars>>

Init ==
  /\ part \in {"sync", "anchor", "headers"}
  /\ SyncInit /\ AnchorInit /\ HeadersInit
  /\ part # "headers" => GenesisHeader(2) \in stored

Download == part = "sync" /\ SyncNext /\ UNCHANGED <<part, anchorVars, headerVars>>
Bootstrap == part = "anchor" /\ AnchorNext /\ UNCHANGED <<part, syncVars, headerVars>>
Header == part = "headers" /\ HeadersNext /\ UNCHANGED <<part, syncVars, anchorVars>>

Next == Download \/ Bootstrap \/ Header

\* The fairness of SyncSpec and of AnchorSpec, for the behaviours of each.
Spec == /\ Init /\ [][Next]_vars
        /\ WF_vars(part = "sync" /\ Round /\ UNCHANGED <<part, anchorVars, headerVars>>)
        /\ WF_vars(part = "sync" /\ Tick /\ UNCHANGED <<part, anchorVars, headerVars>>)
        /\ WF_vars(part = "anchor" /\ StageStep /\ UNCHANGED <<part, syncVars, headerVars>>)
        /\ WF_vars(part = "anchor" /\ Answer /\ UNCHANGED <<part, syncVars, headerVars>>)

=============================================================================
