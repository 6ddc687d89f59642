----------------------------- MODULE Covenants ------------------------------
(***************************************************************************)
(* The covenant templates (covenants/): multisig, vault, delegation,       *)
(* escrow, hash time-locked contract and the scripts of a payment channel, *)
(* built with the helpers of the builder, and the life of an output one of *)
(* them locks: the chain grows, parties sign the spending transaction, the *)
(* preimage becomes known, and someone puts a witness together.            *)
(*                                                                         *)
(* A contract is a record of its template, its keys and its height; a key  *)
(* hash output (Phase 1) is among the kinds.                               *)
(***************************************************************************)
EXTENDS Script

CONSTANTS Contracts,     \* [kind, a, b, c, lock, height]
          HashLock,      \* the preimage whose hash locks a contract
          ClosedAt,      \* the close height of a channel
          MaxCovHeight   \* bound: height of the chain

VARIABLES contract,  \* the contract that locks the output
          cheight,   \* height of the block the spend would be in
          signers,   \* the keys that have signed the spending transaction
          revealed,  \* is the preimage known
          redeemed   \* was the output spent

covVars == <<contract, cheight, signers, revealed, redeemed>>

-----------------------------------------------------------------------------
\* Helpers of the builder: each takes the nodes so far and adds some; its
\* result is the last node.

SigCheck(b, key) ==
  LET n == Len(b)
  IN  b \o << <<"jet", "TxSigHash">>, <<"unit">>, <<"comp", n + 2, n + 1>>,
              <<"const", Bytes(<<key>>)>>, <<"witness">>, <<"pair", n + 4, n + 5>>,
              <<"pair", n + 3, n + 6>>, <<"jet", "Ed25519Verify">>, <<"comp", n + 7, n + 8>> >>

HashEq(b, expected) ==
  LET n == Len(b)
  IN  b \o << <<"witness">>, <<"jet", "Sha256">>, <<"comp", n + 1, n + 2>>,
              <<"const", Hash(expected)>>, <<"pair", n + 3, n + 4>>,
              <<"jet", "EqHash">>, <<"comp", n + 5, n + 6>> >>

HeightCompare(b, jet, height) ==
  LET n == Len(b)
  IN  b \o << <<"jet", "BlockHeight">>, <<"unit">>, <<"comp", n + 2, n + 1>>,
              <<"const", U64(height)>>, <<"pair", n + 3, n + 4>>,
              <<"jet", jet>>, <<"comp", n + 5, n + 6>> >>
HeightGt(b, height) == HeightCompare(b, "Gt64", height)
HeightLt(b, height) == HeightCompare(b, "Lt64", height)


\* x, and then y on the unit value; false (the left branch) at once if x is.
And(b, x, y) ==
  LET n == Len(b)
  IN  b \o << <<"const", Bool(FALSE)>>, <<"case", n + 1, y>>, <<"comp", x, n + 2>> >>

\* The witness chooses between two nodes.
Dispatch(b, left, right) ==
  LET n == Len(b) IN b \o << <<"witness">>, <<"case", left, right>>, <<"comp", n + 1, n + 2>> >>

Both(b, k1, k2) ==
  LET b1 == SigCheck(b, k1)
      b2 == SigCheck(b1, k2)
  IN  And(b2, Len(b1), Len(b2))

\* A check of the height and then a signature.
Timed(b, height, key) ==
  LET b1 == HeightGt(b, height)
      b2 == SigCheck(b1, key)
  IN  And(b2, Len(b1), Len(b2))

-----------------------------------------------------------------------------
\* The templates.

Multisig2of2(x) == Both(<<>>, x.a, x.b)

Multisig1of2(x) ==
  LET b1 == SigCheck(<<>>, x.a)
      b2 == SigCheck(b1, x.b)
  IN  Dispatch(b2, Len(b1), Len(b2))

\* Two cases, then the selector.
ThreeWay(b, one, two, three) ==
  LET n == Len(b)
  IN  b \o << <<"case", one, two>>, <<"case", n + 1, three>>, <<"witness">>, <<"comp", n + 3, n + 2>> >>

Multisig2of3(x) ==
  LET ab == Both(<<>>, x.a, x.b)
      ac == Both(ab, x.a, x.c)
      bc == Both(ac, x.b, x.c)
  IN  ThreeWay(bc, Len(ab), Len(ac), Len(bc))

Vault(x) ==
  LET b1 == Timed(<<>>, x.height, x.a)
      b2 == SigCheck(b1, x.b)
  IN  Dispatch(b2, Len(b1), Len(b2))

Delegation(x) ==
  LET b1 == SigCheck(<<>>, x.a)
      b2 == SigCheck(b1, x.b)
      b3 == HeightLt(b2, x.height)
      b4 == And(b3, Len(b2), Len(b3))
  IN  Dispatch(b4, Len(b1), Len(b4))

Escrow(x) ==
  LET mutual == Both(<<>>, x.a, x.b)
      arbiter == SigCheck(mutual, x.c)
      timeout == Timed(arbiter, x.height, x.a)
  IN  ThreeWay(timeout, Len(mutual), Len(arbiter), Len(timeout))

\* a: sender, b: receiver.
Htlc(x) ==
  LET b1 == HashEq(<<>>, x.lock)
      b2 == SigCheck(b1, x.b)
      b3 == And(b2, Len(b1), Len(b2))
      b4 == Timed(b3, x.height, x.a)
  IN  Dispatch(b4, Len(b3), Len(b4))

\* The channel: x.height is the dispute window, x.c the publisher.
WindowEnd(x) == Min({ClosedAt + x.height, MaxU64})

CloseScript(x) ==
  LET b1 == Both(<<>>, x.a, x.b)
      b2 == Timed(b1, WindowEnd(x), x.c)
  IN  Dispatch(b2, Len(b1), Len(b2))

DisputeScript(x) ==
  LET b1 == Both(<<>>, x.a, x.b)
      b2 == HeightLt(b1, WindowEnd(x))
      b3 == And(b2, Len(b1), Len(b2))
      b4 == Both(b3, x.a, x.b)
  IN  Dispatch(b4, Len(b3), Len(b4))

ProgramOf(x) ==
  Build(CASE x.kind = "2of2" -> Multisig2of2(x)   [] x.kind = "1of2" -> Multisig1of2(x)
          [] x.kind = "2of3" -> Multisig2of3(x)   [] x.kind = "vault" -> Vault(x)
          [] x.kind = "delegation" -> Delegation(x) [] x.kind = "escrow" -> Escrow(x)
          [] x.kind = "htlc" -> Htlc(x)           [] x.kind = "close" -> CloseScript(x)
          [] x.kind = "dispute" -> DisputeScript(x))

\* Sender and receiver may be the two keys in either order.
HtlcCandidates(keys) == {<<keys[1], keys[2]>>, <<keys[2], keys[1]>>}

\* The payloads of the constants of a kind.
Consts(nodes, kind) ==
  LET found == SelectSeq(nodes, LAMBDA node : node[1] = "const" /\ node[2][1] = kind)
  IN  [i \in DOMAIN found |-> found[i][2][2]]

\* The parameters with which the template gives this script.
HtlcFrom(script, keys, locks, heights) ==
  LET params(roles) == [kind |-> "htlc", a |-> roles[1], b |-> roles[2], c |-> roles[1],
                        lock |-> locks[1], height |-> heights[1]]
  IN  IF Len(keys) # 2 \/ Len(locks) # 1 \/ Len(heights) # 1 THEN {}
      ELSE {x \in {params(roles) : roles \in HtlcCandidates(keys)} :
              SerializeProgram(Build(Htlc(x))) = script}

\* try_parse_htlc: a set of at most one.
HtlcOf(script, r) ==
  IF r.err # "none" THEN {}
  ELSE HtlcFrom(script, [i \in DOMAIN Consts(r.v.nodes, "bytes") |-> Consts(r.v.nodes, "bytes")[i][1]],
                Consts(r.v.nodes, "hash"), Consts(r.v.nodes, "u64"))
TryParseHtlc(script) == HtlcOf(script, DeserializeProgram(script))

-----------------------------------------------------------------------------
\* An output in the life of a contract.

Spending == <<0>>   \* the signing digest of the spending transaction
Elsewhere == <<1>>  \* that of another one, which everybody has signed

ScriptOf(x) == SerializeProgram(ProgramOf(x))
SpendContext(h) ==
  BuildScriptContext(<<[tx |-> 0, index |-> 0, value |-> 1, script |-> 0]>>,
                     <<[value |-> 1, script |-> 0, datum |-> {}]>>, h, Spending)

\* The scripts of the contracts, as the validation and an observer see them.
Programs == {x \in Contracts : x.kind # "p2pkh"}
Loaded == [x \in Programs |-> LoadScript(ScriptOf(x), 1)]
Admitted == {x \in Programs : ValidateOutputScript(ScriptOf(x))}
Recognised == [x \in Programs |-> TryParseHtlc(ScriptOf(x))]
Skeleton == [x \in Programs |-> StructuralMerkleHash(ProgramOf(x))]

Parties(x) == {x.a, x.b, x.c}
Selectors == {Left(Unit), Right(Unit), Left(Left(Unit)), Left(Right(Unit))}

\* Witnesses that can be put together: a selector and up to three values out
\* of the signatures made so far, one for another transaction, and the
\* preimage once it is known (before, some other bytes).
Pieces(x) ==
  {Bytes(Sign(k, Spending)) : k \in signers} \cup {Bytes(Sign(x.a, Elsewhere))}
    \cup IF x.kind # "htlc" THEN {} ELSE {Bytes(IF revealed THEN HashLock ELSE <<>>)}
Assembled(x) ==
  LET parts == UNION {[1..n -> Pieces(x)] : n \in 1..3}
      bytes(s) == FoldLeft(LAMBDA acc, v : acc \o Serialize(v), <<>>, s)
  IN  {bytes(s) : s \in parts} \cup {Serialize(sel) \o bytes(s) : sel \in Selectors, s \in parts}

\* The witnesses the channel's helpers make, each with the condition of its
\* path; who has not signed contributes a signature for another transaction.
HelperWitnesses(x) ==
  LET sig(k) == Bytes(Sign(k, IF k \in signers THEN Spending ELSE Elsewhere))
      of(values) == FoldLeft(LAMBDA acc, v : acc \o Serialize(v), <<>>, values)
      mutual == {x.a, x.b} \subseteq signers
      both == <<sig(x.a), sig(x.b)>>
      left == of(<<Left(Unit)>> \o both)
      right == of(<<Right(Unit)>> \o both)
  IN  CASE x.kind = "2of2" -> {<<mutual, of(both)>>}
        [] x.kind = "close" -> {<<mutual, left>>,
             <<x.c \in signers /\ cheight > WindowEnd(x), of(<<Right(Unit), sig(x.c)>>)>>}
        [] x.kind = "dispute" -> {<<mutual /\ cheight < WindowEnd(x), left>>, <<mutual, right>>}
        [] OTHER -> {}

Output(x) == [script |-> IF x.kind = "p2pkh" THEN Sha256(<<x.a>>) ELSE ScriptOf(x),
              datum |-> {}, datumHash |-> {}]

Unlocks(x, w) ==
  RunScript(Loaded[x], [datum |-> {}, datumHash |-> {}], w, {}, SpendContext(cheight), 0) # Failed

\* Is there a witness that spends the output now?
Redeemable(x) ==
  IF x.kind = "p2pkh"
  THEN \E k \in Parties(x), m \in {Spending, Elsewhere} :
         /\ m = Elsewhere \/ k \in signers
         /\ ValidatePhase1Input(Output(x), <<<<k>>, Sign(k, m)>>, {}, Spending)
  ELSE \E w \in Assembled(x) : Unlocks(x, w)

CovInit ==
  /\ contract \in Contracts
  /\ cheight = 0 /\ signers = {} /\ revealed = FALSE /\ redeemed = FALSE

NewHeight ==
  /\ cheight < MaxCovHeight /\ ~redeemed
  /\ cheight' = cheight + 1
  /\ UNCHANGED <<contract, signers, revealed, redeemed>>

SignSpend(k) ==
  /\ ~redeemed /\ k \notin signers
  /\ signers' = signers \cup {k}
  /\ UNCHANGED <<contract, cheight, revealed, redeemed>>

RevealPreimage ==
  /\ contract.kind = "htlc" /\ ~revealed /\ ~redeemed
  /\ revealed' = TRUE
  /\ UNCHANGED <<contract, cheight, signers, redeemed>>

Redeem ==
  /\ ~redeemed /\ Redeemable(contract)
  /\ redeemed' = TRUE
  /\ UNCHANGED <<contract, cheight, signers, revealed>>

CovNext ==
  NewHeight \/ RevealPreimage \/ Redeem \/ \E k \in Parties(contract) : SignSpend(k)

-----------------------------------------------------------------------------
\* Properties.

\* Who may spend when, as the templates document it.
Policy(x) ==
  LET A == x.a \in signers
      B == x.b \in signers
      C == x.c \in signers
  IN  CASE x.kind = "p2pkh" -> A
        [] x.kind = "2of2" -> A /\ B
        [] x.kind = "1of2" -> A \/ B
        [] x.kind = "2of3" -> (A /\ B) \/ (A /\ C) \/ (B /\ C)
        [] x.kind = "vault" -> (cheight > x.height /\ A) \/ B
        [] x.kind = "delegation" -> A \/ (B /\ cheight < x.height)
        [] x.kind = "escrow" -> (A /\ B) \/ C \/ (cheight > x.height /\ A)
        [] x.kind = "htlc" -> (revealed /\ B) \/ (cheight > x.height /\ A)
        [] x.kind = "close" -> (A /\ B) \/ (cheight > WindowEnd(x) /\ C)
        [] x.kind = "dispute" -> A /\ B

\* The script of every template is admitted as an output, and from the
\* signatures, the preimage and the height of a moment a witness that the
\* validation accepts can be put together exactly when the template's rules
\* let these parties spend: no path is stuck, no short-circuit or selector
\* opens another one, and no signature for another transaction helps.  The
\* witnesses of the channel's helpers open exactly the path they are for.
CovenantPolicy ==
  /\ contract.kind # "p2pkh" => contract \in Admitted
  /\ redeemed \/ (Redeemable(contract) <=> Policy(contract))
  /\ redeemed => Policy(contract)
  /\ \A hw \in HelperWitnesses(contract) : Unlocks(contract, hw[2]) <=> hw[1]

\* An observer recognises exactly the hash time-locked contracts, with the
\* roles and the parameters they were made with, and the structural hash tells
\* the templates apart whatever their parameters are.
TemplateExact ==
  contract.kind # "p2pkh" =>
    /\ Recognised[contract] =
         IF contract.kind = "htlc" THEN {[contract EXCEPT !.c = contract.a]} ELSE {}
    /\ \A x \in Programs : Skeleton[x] = Skeleton[contract] <=> x.kind = contract.kind

\* The covenants the wallet builds pay only whom they are meant to, and are
\* recognised as what they are (the builders of covenants/, and try_parse_htlc).
CovenantsSound == CovenantPolicy /\ TemplateExact
=============================================================================
