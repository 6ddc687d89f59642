----------------------------- MODULE ScriptJets -----------------------------
(***************************************************************************)
(* The jets of Exfer Script (script/jets/): their types, their static and  *)
(* their run-time cost, and what they compute.                             *)
(*                                                                         *)
(* SHA-256 is an injective code of the bytes and the Merkle node hash an   *)
(* injective code of two hashes.  A signature is the key and the message   *)
(* it was made for.  A transaction context is a record of the inputs, the  *)
(* outputs, the index of the input under evaluation, the height of the     *)
(* block and the signing digest.                                           *)
(***************************************************************************)
EXTENDS ScriptValues, FiniteSets

CONSTANTS StrongKeys,   \* public keys that are points and not of small order
          Byte          \* the bytes that occur: 0..Byte - 1

ASSUME ScriptJetsAssumption == IsFiniteSet(StrongKeys) /\ Byte \in Nat

Arithmetic64 == {"Add64", "Sub64", "Mul64", "Div64", "Mod64"}
Compare64 == {"Eq64", "Lt64", "Gt64"}
Arithmetic256 == {"Add256", "Sub256", "Mul256", "Div256", "Mod256"}
Compare256 == {"Eq256", "Lt256", "Gt256"}
ListScans == {"ListSum", "ListAll", "ListAny", "ListFind"}
Counters == {"TxInputCount", "TxOutputCount", "SelfIndex", "BlockHeight"}

IsImplemented(j) == j # "SchnorrVerify"

\* <<input, output>>
JetType(j) ==
  LET two(t) == TProduct(t, t)
      signed == TProduct(TBytes, two(TBytes))
  IN  CASE j = "Sha256" -> <<TBytes, THash>>
        [] j \in {"Ed25519Verify", "SchnorrVerify"} -> <<signed, TBool>>
        [] j = "MerkleVerify" -> <<TProduct(THash, TProduct(THash, TBytes)), TBool>>
        [] j \in Arithmetic64 -> <<two(TU64), TU64>>
        [] j \in Compare64 -> <<two(TU64), TBool>>
        [] j \in Arithmetic256 -> <<two(TU256), TU256>>
        [] j \in Compare256 -> <<two(TU256), TBool>>
        [] j = "Cat" -> <<two(TBytes), TBytes>>
        [] j = "Slice" -> <<TProduct(TBytes, two(TU64)), TBytes>>
        [] j = "Len" -> <<TBytes, TU64>>
        [] j = "EqBytes" -> <<two(TBytes), TBool>>
        [] j = "EqHash" -> <<two(THash), TBool>>
        [] j = "TxInputs" ->
             <<TUnit, TList(TProduct(THash, TProduct(TU64, TProduct(TU64, THash))))>>
        [] j = "TxOutputs" -> <<TUnit, TList(TProduct(TU64, TProduct(THash, TOption(THash))))>>
        [] j = "TxValue" -> <<TU64, TU64>>
        [] j = "TxScriptHash" -> <<TU64, THash>>
        [] j \in Counters -> <<TUnit, TU64>>
        [] j = "TxSigHash" -> <<TUnit, TBytes>>
        [] j = "ListLen" -> <<TList(TUnit), TU64>>
        [] j = "ListAt" -> <<TProduct(TList(TUnit), TU64), TOption(TUnit)>>
        [] j = "ListSum" -> <<TList(TU64), TU64>>
        [] j \in {"ListAll", "ListAny"} -> <<TList(TBool), TBool>>
        [] j = "ListFind" -> <<TList(TBool), TOption(TU64)>>

JetCost(j) ==
  LET cost(steps, cells) == [steps |-> steps, cells |-> cells]
  IN  CASE j = "Sha256" -> cost(1000, 1)
        [] j \in {"Ed25519Verify", "SchnorrVerify"} -> cost(5000, 1)
        [] j = "MerkleVerify" -> cost(32000, 1)
        [] j \in Arithmetic64 \cup Compare64 -> cost(10, 1)
        [] j \in Arithmetic256 \cup Compare256 -> cost(50, 1)
        [] j \in {"Cat", "Slice"} -> cost(100, 1)
        [] j = "Len" -> cost(10, 0)
        [] j \in {"EqBytes", "EqHash"} -> cost(500, 0)
        [] j \in {"TxInputs", "TxOutputs"} -> cost(1000, 0)
        [] j \in {"TxValue", "TxScriptHash"} -> cost(10, 0)
        [] j \in Counters \cup {"TxSigHash"} -> cost(5, 0)
        [] j = "ListLen" -> cost(10, 0)
        [] j = "ListAt" -> cost(10, 1)
        [] j \in ListScans -> cost(1000, 0)

-----------------------------------------------------------------------------
\* What a jet costs at run time depends on the size of its data.

ByteLen(v) == IF v[1] = "bytes" THEN Len(v[2]) ELSE 0
First(v) == IF v[1] = "pair" THEN v[2] ELSE Unit
Second(v) == IF v[1] = "pair" THEN v[3] ELSE Unit
CeilingOf(n, d) == (n + d - 1) \div d

RuntimeCost(j, input, ctx) ==
  LET larger(a, b) == IF a > b THEN a ELSE b
      width(v) == IF v[1] = "hash" THEN 32 ELSE ByteLen(v)
  IN  CASE j = "Sha256" -> 500 + (ByteLen(input) \div 64) * 8
        [] j = "MerkleVerify" -> 500 + (ByteLen(Second(Second(input))) \div 33) * 500
        [] j \in ListScans -> 10 + (IF input[1] = "list" THEN Len(input[2]) ELSE 0)
        [] j = "EqHash" -> 14
        [] j = "EqBytes" -> 10 + larger(width(First(input)), width(Second(input))) \div 8
        [] j = "Cat" -> 10 + (ByteLen(First(input)) + ByteLen(Second(input))) \div 8
        [] j = "Slice" -> 10 + ByteLen(First(input)) \div 8
        [] j = "TxInputs" -> 10 + Len(ctx.inputs) * 10
        [] j = "TxOutputs" -> 10 + Len(ctx.outputs) * 10
        [] j = "TxSigHash" -> 5 + Len(ctx.sig) \div 64
        [] j = "Ed25519Verify" -> 5000 + CeilingOf(ByteLen(First(input)), 64) * 8
        [] OTHER -> JetCost(j).steps

-----------------------------------------------------------------------------
\* What a jet computes: one value, or none when it fails.

JetFails == <<>>
Checked(n, value(_)) == IF n = Failed THEN JetFails ELSE <<value(n)>>

Sha256(bytes) == FoldLeft(LAMBDA acc, b : acc * (Byte + 1) + b + 1, 0, bytes)
MerkleNode(l, r) == ((l + r) * (l + r + 1)) \div 2 + r

Sign(key, msg) == <<key>> \o msg
Ed25519Verify(msg, key, sig) ==
  Len(key) = 1 /\ key[1] \in StrongKeys /\ sig = Sign(key[1], msg)

\* A step of a proof is a side and a sibling: two numbers for the 33 bytes.
VerifyMerkleProof(root, leaf, proof) ==
  /\ Len(proof) % 2 = 0
  /\ LET steps == [i \in 1..Len(proof) \div 2 |-> <<proof[2 * i - 1], proof[2 * i]>>]
         climb(h, s) == IF s[1] = 0 THEN MerkleNode(h, s[2]) ELSE MerkleNode(s[2], h)
     IN  /\ \A i \in DOMAIN steps : steps[i][1] \in {0, 1}
         /\ FoldLeft(climb, leaf, steps) = root

\* Where a list scan stops: at the first element that settles the answer, at
\* the first that is no boolean, or behind the end.
ScanStop(s, settles(_)) ==
  SelectInSeq(s, LAMBDA x : settles(x) \/ ~(IsTrue(x) \/ IsFalse(x)))

EvalArithmetic(j, a, b) ==
  CASE j = "Add64" -> Add64(a, b)   [] j = "Add256" -> Add256(a, b)
    [] j = "Sub64" -> Sub64(a, b)   [] j = "Sub256" -> Sub256(a, b)
    [] j = "Mul64" -> Mul64(a, b)   [] j = "Mul256" -> Mul256(a, b)
    [] j = "Div64" -> Div64(a, b)   [] j = "Div256" -> Div256(a, b)
    [] j = "Mod64" -> Mod64(a, b)   [] j = "Mod256" -> Mod256(a, b)

EvalCompare(j, a, b) ==
  CASE j \in {"Eq64", "Eq256"} -> a = b
    [] j \in {"Lt64", "Lt256"} -> a < b
    [] j \in {"Gt64", "Gt256"} -> a > b

EvalNumeric(j, input) ==
  LET kind == IF j \in Arithmetic64 \cup Compare64 THEN "u64" ELSE "u256"
      a == First(input)
      b == Second(input)
      number(n) == <<kind, n>>
  IN  IF ~(a[1] = kind /\ b[1] = kind) THEN JetFails
      ELSE IF j \in Compare64 \cup Compare256 THEN <<Bool(EvalCompare(j, a[2], b[2]))>>
      ELSE Checked(EvalArithmetic(j, a[2], b[2]), number)

EvalBytes(j, input) ==
  LET a == First(input)
      b == Second(input)
      bytesOf(v) == IF v[1] = "hash" THEN <<Byte, v[2]>> ELSE v[2]
      min(x, y) == IF x < y THEN x ELSE y
  IN  CASE j = "Sha256" /\ input[1] = "bytes" -> <<Hash(Sha256(input[2]))>>
        [] j = "Len" /\ input[1] = "bytes" -> <<U64(Len(input[2]))>>
        [] j = "Cat" /\ a[1] = "bytes" /\ b[1] = "bytes" -> <<Bytes(a[2] \o b[2])>>
        [] j = "Slice" /\ a[1] = "bytes" /\ First(b)[1] = "u64" /\ Second(b)[1] = "u64" ->
             LET start == b[2][2]
             IN  IF start > Len(a[2]) THEN <<Bytes(<<>>)>>
                 ELSE <<Bytes(SubSeq(a[2], start + 1, min(start + b[3][2], Len(a[2]))))>>
        [] j \in {"EqBytes", "EqHash"} /\ {a[1], b[1]} \subseteq {"bytes", "hash"} ->
             <<Bool(bytesOf(a) = bytesOf(b))>>
        [] j = "Ed25519Verify" /\ a[1] = "bytes" /\ First(b)[1] = "bytes" /\ Second(b)[1] = "bytes" ->
             <<Bool(Ed25519Verify(a[2], b[2][2], b[3][2]))>>
        [] j = "MerkleVerify" /\ a[1] = "hash" /\ First(b)[1] = "hash" /\ Second(b)[1] = "bytes" ->
             <<Bool(VerifyMerkleProof(a[2], b[2][2], b[3][2]))>>
        [] OTHER -> JetFails

EvalList(j, input) ==
  LET s == input[2]
      all == ScanStop(s, IsFalse)
      any == ScanStop(s, IsTrue)
      sum == FoldLeft(LAMBDA acc, x : IF acc = Failed THEN Failed ELSE Add64(acc, x[2]), 0, s)
  IN  IF j = "ListAt" THEN
        LET l == First(input)
            i == Second(input)
        IN  IF ~(l[1] = "list" /\ i[1] = "u64") THEN JetFails
            ELSE IF i[2] < Len(l[2]) THEN <<Right(l[2][i[2] + 1])>> ELSE <<Left(Unit)>>
      ELSE IF input[1] # "list" THEN JetFails
      ELSE CASE j = "ListLen" -> <<U64(Len(s))>>
             [] j = "ListSum" -> IF \E i \in DOMAIN s : s[i][1] # "u64" THEN JetFails
                                 ELSE Checked(sum, U64)
             [] j = "ListAll" -> IF all = 0 THEN <<Bool(TRUE)>>
                                 ELSE IF IsFalse(s[all]) THEN <<Bool(FALSE)>> ELSE JetFails
             [] j = "ListAny" -> IF any = 0 THEN <<Bool(FALSE)>>
                                 ELSE IF IsTrue(s[any]) THEN <<Bool(TRUE)>> ELSE JetFails
             [] j = "ListFind" -> IF any = 0 THEN <<Left(Unit)>>
                                  ELSE IF IsTrue(s[any]) THEN <<Right(U64(any - 1))>> ELSE JetFails

EvalIntrospection(j, input, ctx) ==
  LET in(i) == Pair(Hash(i.tx), Pair(U64(i.index), Pair(U64(i.value), Hash(i.script))))
      out(o) == Pair(U64(o.value),
                     Pair(Hash(o.script), IF o.datum = {} THEN Left(Unit)
                                          ELSE Right(Hash(CHOOSE d \in o.datum : TRUE))))
      known == input[1] = "u64" /\ input[2] < Len(ctx.inputs)
      chosen == ctx.inputs[input[2] + 1]
  IN  CASE j = "TxInputs" -> <<List([i \in DOMAIN ctx.inputs |-> in(ctx.inputs[i])])>>
        [] j = "TxOutputs" -> <<List([i \in DOMAIN ctx.outputs |-> out(ctx.outputs[i])])>>
        [] j = "TxValue" -> IF known THEN <<U64(chosen.value)>> ELSE JetFails
        [] j = "TxScriptHash" -> IF known THEN <<Hash(chosen.script)>> ELSE JetFails
        [] j = "TxInputCount" -> <<U64(Len(ctx.inputs))>>
        [] j = "TxOutputCount" -> <<U64(Len(ctx.outputs))>>
        [] j = "SelfIndex" -> <<U64(ctx.self)>>
        [] j = "BlockHeight" -> <<U64(ctx.height)>>
        [] j = "TxSigHash" -> <<Bytes(ctx.sig)>>

EvalJet(j, input, ctx) ==
  CASE j \in Arithmetic64 \cup Compare64 \cup Arithmetic256 \cup Compare256 -> EvalNumeric(j, input)
    [] j \in ListScans \cup {"ListLen", "ListAt"} -> EvalList(j, input)
    [] j \in {"TxInputs", "TxOutputs", "TxValue", "TxScriptHash", "TxSigHash"} \cup Counters ->
         EvalIntrospection(j, input, ctx)
    [] j = "SchnorrVerify" -> JetFails
    [] OTHER -> EvalBytes(j, input)
=============================================================================
