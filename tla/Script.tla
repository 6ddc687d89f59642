------------------------------- MODULE Script -------------------------------
(***************************************************************************)
(* Exfer Script: evaluation under a budget (script/eval.rs), admission of  *)
(* an output's script and validation of an input that spends it            *)
(* (consensus/validation.rs), and the builder that makes programs          *)
(* (covenants/builder.rs).                                                 *)
(*                                                                         *)
(* Evaluation is a recursive function of the code without interleaving, so *)
(* it is one operator.  The state of the module is a builder: its actions  *)
(* add a node, so that the states are the programs up to MaxBuilt nodes,   *)
(* or a number to an encoded program, so that they are the encodings.      *)
(***************************************************************************)
EXTENDS ScriptProgram

CONSTANTS MaxEvalDepth,     \* MAX_EVAL_DEPTH
          MaxScriptSteps,   \* MAX_SCRIPT_STEPS
          MaxScriptMemory,  \* MAX_SCRIPT_MEMORY
          Leaves,           \* leaf nodes the builder adds
          Rounds,           \* the k of the folds it adds
          MaxBuilt,         \* bound: nodes of a program
          InputValues,      \* inputs programs are evaluated on
          WitnessValues,    \* values in their witnesses
          Context,          \* the transaction they are evaluated in
          Tokens,           \* numbers in the encodings
          MaxTokens         \* bound: length of an encoding

VARIABLES built,   \* the nodes of the builder, in the order they were added
          encoded  \* an encoded program or value

scriptVars == <<built, encoded>>

-----------------------------------------------------------------------------
\* What an evaluation yields: a value or an error, and the budget left with
\* the place in the witness.

Outcome(v, st) == [err |-> "none", v |-> v, st |-> st]
Aborted(e, st) == [err |-> e, v |-> Unit, st |-> st]
Then(r, next(_, _)) == IF r.err # "none" THEN r ELSE next(r.v, r.st)

Budget(steps, cells) == [steps |-> steps, cells |-> cells, mem |-> 0, pos |-> 0]

ConsumeSteps(st, n) ==
  IF st.steps < n THEN Aborted("steps", st) ELSE Outcome(Unit, [st EXCEPT !.steps = @ - n])
ConsumeCell(st) ==
  IF st.cells = 0 THEN Aborted("cells", st) ELSE Outcome(Unit, [st EXCEPT !.cells = @ - 1])
TrackMemory(v, size, st) ==
  LET used == [st EXCEPT !.mem = @ + size]
  IN  IF used.mem > MaxScriptMemory THEN Aborted("memory", used) ELSE Outcome(v, used)
ReleaseMemory(st, size) == [st EXCEPT !.mem = IF @ < size THEN 0 ELSE @ - size]

Produce(v, st) == TrackMemory(v, HeapSize(v), st)

\* The next value of the witness.
TypedValue(r, expected, st) ==
  IF r.err # "none" THEN Aborted("witness", st)
  ELSE IF expected # TUnit /\ ~MatchesType(r.v, expected)
  THEN Aborted("witness", [st EXCEPT !.pos = @ + r.n])
  ELSE Outcome(r.v, [st EXCEPT !.pos = @ + r.n])
ReadTypedValue(witness, expected, st) ==
  IF st.pos >= Len(witness) THEN Aborted("witness", st)
  ELSE TypedValue(Deserialize(From(witness, st.pos)), expected, st)

\* The step pair of a round is released in the next one, the last at the end.
LastRelease(st, prev) == ReleaseMemory(st, prev)

RECURSIVE EvalNode(_, _, _, _, _)

\* The rounds of a fold: f on the pair of each element and what has been
\* accumulated.
EvalRounds(env, f, elems, r, depth) ==
  LET round(a, elem) ==
        IF a.r.err # "none" THEN a
        ELSE LET input == Pair(elem, a.r.v)
                 go(u, st) == EvalNode(env, f, input, st, depth)
                 hold(u, st) == Then(TrackMemory(Unit, HeapSize(elem) + 2 * ValueSize,
                                                 ReleaseMemory(st, a.prev)), go)
             IN  [r |-> Then(ConsumeSteps(a.r.st, 1), hold), prev |-> HeapSize(input)]
      last == FoldLeft(round, [r |-> r, prev |-> 0], elems)
  IN  Then(last.r, LAMBDA v, st : Outcome(v, LastRelease(st, last.prev)))

\* A branch of a case checks the payload against the type of its input.
EvalBranch(env, branch, payload, st, depth) ==
  IF ~MatchesType(payload, env.types[branch][1]) THEN Aborted("type", st)
  ELSE EvalNode(env, branch, payload, st, depth)

JetOutcome(out, s) == IF out = JetFails THEN Aborted("jet", s) ELSE Produce(out[1], s)

\* Leaves that bring a value of their own.
EvalLeaf(env, i, input, s) ==
  LET node == env.program.nodes[i]
  IN  CASE node[1] = "const" -> Produce(node[2], s)
        [] node[1] = "witness" ->
             Then(ReadTypedValue(env.witness, env.types[i][2], s), Produce)
        [] node[1] = "jet" ->
             JetOutcome(EvalJet(node[2], input, env.ctx), s)

\* The node after its step (and its cell) were paid.
EvalPaid(env, i, input, s, depth) ==
  LET node == env.program.nodes[i]
      f == node[2]
      g == node[3]
      sub(j, v, st) == EvalNode(env, j, v, st, depth + 1)
      isPair == input[1] = "pair"
  IN  CASE node[1] = "iden" -> Produce(input, s)
        [] node[1] = "unit" -> Outcome(Unit, s)
        [] node[1] \in {"jet", "witness", "const"} -> EvalLeaf(env, i, input, s)
        [] node[1] = "comp" ->
             Then(sub(f, input, s), LAMBDA m, s1 :
               Then(sub(g, m, s1), LAMBDA v, s2 : Outcome(v, ReleaseMemory(s2, HeapSize(m)))))
        [] node[1] = "pair" ->
             Then(sub(f, input, s), LAMBDA a, s1 :
               Then(sub(g, input, s1), LAMBDA b, s2 : TrackMemory(Pair(a, b), 2 * ValueSize, s2)))
        [] node[1] = "take" -> IF isPair THEN sub(f, input[2], s) ELSE Aborted("type", s)
        [] node[1] = "drop" -> IF isPair THEN sub(f, input[3], s) ELSE Aborted("type", s)
        [] node[1] = "injl" ->
             Then(sub(f, input, s), LAMBDA v, s1 : TrackMemory(Left(v), ValueSize, s1))
        [] node[1] = "injr" ->
             Then(sub(f, input, s), LAMBDA v, s1 : TrackMemory(Right(v), ValueSize, s1))
        [] node[1] = "case" ->
             LET isBool == input[1] = "bool" /\ env.types[i][1] = TBool
             IN  IF input[1] = "left" THEN EvalBranch(env, f, input[2], s, depth + 1)
                 ELSE IF input[1] = "right" THEN EvalBranch(env, g, input[2], s, depth + 1)
                 ELSE IF isBool THEN sub(IF input[2] THEN g ELSE f, Unit, s)
                 ELSE Aborted("type", s)
        [] node[1] = "fold" ->
             IF ~isPair THEN Aborted("type", s)
             ELSE EvalRounds(env, f, [k \in 1..node[4] |-> input[3]], sub(g, input[3], s), depth + 1)
        [] node[1] = "listfold" ->
             IF ~isPair THEN Aborted("type", s)
             ELSE IF input[2][1] # "list" THEN Aborted("type", s)
             ELSE EvalRounds(env, f, input[2][2], sub(g, input[3], s), depth + 1)

EvalNode(env, i, input, st, depth) ==
  LET node == env.program.nodes[i]
      cost == IF node[1] = "jet" THEN RuntimeCost(node[2], input, env.ctx) ELSE 1
      cell(s) == IF node[1] \in {"pair", "injl", "injr"} THEN ConsumeCell(s) ELSE Outcome(Unit, s)
  IN  IF depth > MaxEvalDepth THEN Aborted("depth", st)
      ELSE IF node[1] = "hidden" THEN Aborted("hidden", st)
      ELSE Then(ConsumeSteps(st, cost), LAMBDA u, s1 :
             Then(cell(s1), LAMBDA w, s2 : EvalPaid(env, i, input, s2, depth)))

AllConsumed(r, witness) ==
  Then(r, LAMBDA v, st : IF st.pos < Len(witness) THEN Aborted("witness", st) ELSE Outcome(v, st))

\* types: the outcome of the type check of p, which the code makes here.
EvaluateWithContext(p, types, input, witness, budget, ctx) ==
  LET env == [program |-> p, types |-> types, witness |-> witness, ctx |-> ctx]
  IN  IF types = <<>> THEN Aborted("type", budget)
      ELSE AllConsumed(EvalNode(env, p.root, input, budget, 0), witness)

-----------------------------------------------------------------------------
\* Admission of the script of an output.

ScriptInputType == TProduct(TBytes, TProduct(TOption(TBytes), TProduct(TOption(TBytes), TUnit)))

\* The unit type of the script accepts everything, that of the runtime
\* only itself.
RECURSIVE ScriptInputAccepts(_, _)
ScriptInputAccepts(script, runtime) ==
  \/ script = runtime \/ script = TUnit
  \/ script[1] = runtime[1] /\ script[1] \in {"Product", "Sum", "List"}
     /\ \A i \in 2..Len(script) : ScriptInputAccepts(script[i], runtime[i])

StrictTypeEdges(p, t) ==
  \A i \in DOMAIN t :
    LET node == p.nodes[i]
        f == t[node[2]]
        g == t[node[3]]
    IN  /\ node[1] = "comp" => f[2] = g[1] /\ (t[i][2] # TUnit => t[i][2] = g[2])
        /\ node[1] = "case" => f[2] = g[2] /\ (t[i][2] # TUnit => f[2] # TUnit /\ t[i][2] = f[2])
        /\ node[1] = "pair" => /\ f[1] = TUnit \/ g[1] = TUnit \/ f[1] = g[1]
                               /\ f[2] # TUnit /\ g[2] # TUnit
        /\ node[1] \in {"fold", "listfold"} => f[2] = g[2] /\ f[2] # TUnit

NodeAdmissible(node) ==
  /\ node[1] = "jet" => IsImplemented(node[2])
  /\ node[1] # "hidden"
  /\ node[1] = "const" => ListsAreHomogeneous(node[2])

ProgramAdmissible(p, t) ==
  /\ t # <<>>
  /\ t[p.root][2] = TBool
  /\ StrictTypeEdges(p, t)
  /\ \A i \in DOMAIN p.nodes : NodeAdmissible(p.nodes[i])
  /\ ScriptInputAccepts(t[p.root][1], ScriptInputType)
  /\ MaxDepth(p) <= MaxEvalDepth
  /\ ~CostOverflows(p, 1)
  /\ ComputeCost(p, 1).steps <= MaxScriptSteps

ParsedAnd(r, holds(_)) == r.err = "none" /\ holds(r.v)

ValidateOutputScript(script) ==
  ParsedAnd(DeserializeProgram(script), LAMBDA p : ProgramAdmissible(p, Typecheck(p)))

-----------------------------------------------------------------------------
\* Spending it.  An output is [script, datum, datumHash], the last two being
\* sets of at most one element; a redeemer is one too.

OptionOf(s) == IF s = {} THEN Left(Unit) ELSE Right(Bytes(CHOOSE b \in s : TRUE))

\* The datum is that of the output; one committed to by its hash comes from
\* the spender.
ResolvesDatum(output, redeemer) ==
  LET given == IF output.datum # {} THEN output.datum ELSE redeemer
  IN  output.datumHash # {} => given # {} /\ {Sha256(b) : b \in given} = output.datumHash

ResolveDatum(output, redeemer) ==
  IF output.datum # {} THEN output.datum
  ELSE IF output.datumHash # {} THEN redeemer ELSE {}

BuildScriptInput(witness, redeemer, datum) ==
  Pair(Bytes(witness), Pair(OptionOf(redeemer), Pair(OptionOf(datum), Unit)))

BuildScriptContext(ins, outs, height, sig) ==
  [inputs |-> ins, outputs |-> outs, self |-> 0, height |-> height, sig |-> sig]

ListSize(ctx) == Max({Len(ctx.inputs), Len(ctx.outputs)})

\* What is checked of the script itself: it parses, its encoding is the
\* canonical one, it is well-typed and not too expensive.
LoadProgram(p, t, cost, overflows) ==
  IF t = <<>> \/ overflows THEN [ok |-> FALSE]
  ELSE IF cost.steps > MaxScriptSteps THEN [ok |-> FALSE]
  ELSE [ok |-> TRUE, program |-> p, types |-> t, cells |-> cost.cells]
LoadParsed(script, r, listSize) ==
  IF r.err # "none" \/ SerializeProgram(r.v) # script THEN [ok |-> FALSE]
  ELSE LoadProgram(r.v, Typecheck(r.v), ComputeCost(r.v, listSize), CostOverflows(r.v, listSize))
LoadScript(script, listSize) == LoadParsed(script, DeserializeProgram(script), listSize)

\* Then it is evaluated on the witness: the steps that took, or Failed.
StepsTaken(run) ==
  IF run.err = "none" /\ IsTrue(run.v) THEN MaxScriptSteps - run.st.steps ELSE Failed
RunScript(loaded, output, witness, redeemer, ctx, idx) ==
  LET input == BuildScriptInput(witness, redeemer, ResolveDatum(output, redeemer))
  IN  IF ~loaded.ok THEN Failed
      ELSE IF ~ResolvesDatum(output, redeemer) THEN Failed
      ELSE StepsTaken(EvaluateWithContext(loaded.program, loaded.types, input, witness,
                        Budget(MaxScriptSteps, loaded.cells), [ctx EXCEPT !.self = idx]))

ValidateScriptInput(output, witness, redeemer, ctx, idx) ==
  RunScript(LoadScript(output.script, ListSize(ctx)), output, witness, redeemer, ctx, idx)

\* A key-hash output: the witness is a public key and a signature.
ValidatePhase1Input(output, witness, redeemer, message) ==
  /\ Len(witness) = 2 /\ redeemer = {}
  /\ Sha256(witness[1]) = output.script
  /\ Ed25519Verify(message, witness[1], witness[2])

-----------------------------------------------------------------------------
\* The builder: nodes are added children first; build() turns the arena
\* around, so that the last node becomes the root.

Remap(node, n) ==
  LET at(j) == n + 1 - j
  IN  CASE node[1] \in Unary -> <<node[1], at(node[2])>>
        [] node[1] \in Binary -> <<node[1], at(node[2]), at(node[3])>>
        [] node[1] = "fold" -> <<"fold", at(node[2]), at(node[3]), node[4]>>
        [] OTHER -> node

Build(b) ==
  LET n == Len(b) IN [nodes |-> [i \in 1..n |-> Remap(b[n + 1 - i], n)], root |-> 1]

\* Nodes no other one refers to: a program has one.
Unused(b) == {i \in DOMAIN b : \A j \in DOMAIN b : i \notin ChildSet(b[j])}

ScriptInit == built = <<>> /\ encoded = <<>>

Candidates(n) ==
  Leaves \cup {<<c, f>> : c \in Unary, f \in 1..n}
         \cup {<<c, f, g>> : c \in Binary, f \in 1..n, g \in 1..n}
         \cup {<<"fold", f, g, k>> : f \in 1..n, g \in 1..n, k \in Rounds}

\* Only builders that can still become one program are followed.
AddNode ==
  /\ encoded = <<>> /\ Len(built) < MaxBuilt
  /\ \E node \in Candidates(Len(built)) :
       /\ Cardinality(Unused(Append(built, node))) <= MaxBuilt - Len(built)
       /\ built' = Append(built, node)
  /\ UNCHANGED encoded

\* Only encodings that may still become a program are continued, and those
\* that are one, by a trailing number.
AddToken ==
  /\ built = <<>> /\ Len(encoded) < MaxTokens
  /\ DeserializeProgram(encoded).err # "bad"
  /\ \E t \in Tokens : encoded' = Append(encoded, t)
  /\ UNCHANGED built

ScriptNext == AddNode \/ AddToken

-----------------------------------------------------------------------------
\* Properties.

Witnesses == {<<>>} \cup {Serialize(v) : v \in WitnessValues}
               \cup {Serialize(v) \o Serialize(w) : v, w \in WitnessValues}

IsProgram(b) == b # <<>> /\ Cardinality(Unused(b)) = 1

\* Jets whose run-time cost grows with the message they are given, beyond
\* the static cost.
Metered == {"Ed25519Verify", "TxSigHash"}

WithinBudget(r, cost, fixed) ==
  /\ r.err \notin {"depth", "cells"}
  /\ fixed => MaxScriptSteps - r.st.steps <= cost.steps
  /\ r.err = "none" => r.st.mem = HeapSize(r.v)

\* The static cost bounds the evaluation: a program within the depth limit is
\* never aborted by the depth or, on lists no longer than the static analysis
\* assumes, by the cells it was given, and takes no more steps than it was
\* charged for at admission; and the live memory the evaluator has on its
\* books at the end is that of the result, however often folds made and
\* dropped values.
BudgetSound(p, t, cost) ==
  LET fixed == \A i \in DOMAIN p.nodes : p.nodes[i][1] = "jet" => p.nodes[i][2] \notin Metered
  IN  MaxDepth(p) <= MaxEvalDepth =>
        \A v \in InputValues, w \in Witnesses :
          WithinBudget(EvaluateWithContext(p, t, v, w, Budget(MaxScriptSteps, cost.cells), Context),
                       cost, fixed)

Takes(p, t, v, w) ==
  EvaluateWithContext(p, t, v, w, Budget(MaxScriptSteps, CostMax), Context).err = "none"

\* A witness cannot be stretched: of two witnesses one of which continues the
\* other, a program run on the same input takes at most one.
WitnessBinding(p, t) ==
  \A v \in InputValues, w \in Witnesses, x \in WitnessValues :
    Takes(p, t, v, w) => ~Takes(p, t, v, w \o Serialize(x))

WrittenAs(r, write(_)) == r.err = "none" => write(r.v) = SubSeq(encoded, 1, r.n)

\* An encoding that is read is the one that is written: the script of an
\* output has one encoding, so the check for a canonical one at the spend
\* never fails for a script that was admitted.
EncodingExact ==
  /\ WrittenAs(DeserializeProgram(encoded), SerializeProgram)
  /\ WrittenAs(Deserialize(encoded), Serialize)

ProgramSound(p, t) ==
  t # <<>> => BudgetSound(p, t, ComputeCost(p, ListSize(Context))) /\ WitnessBinding(p, t)

=============================================================================
