---------------------------- MODULE ScriptProgram ---------------------------
(***************************************************************************)
(* Programs of Exfer Script: the arena of nodes (script/ast.rs), their     *)
(* encoding and hashes (script/serialize.rs), the type inference           *)
(* (script/typecheck.rs) and the static cost (script/cost.rs).             *)
(*                                                                         *)
(* A node is a tuple headed by the name of its combinator; node ids start  *)
(* at 1.  A program is [nodes, root].                                      *)
(***************************************************************************)
EXTENDS ScriptJets

CONSTANTS MaxScriptNodes,  \* MAX_SCRIPT_NODES
          CostMax          \* u64::MAX, for the static cost

ASSUME ScriptProgramAssumption == MaxScriptNodes \in Nat /\ CostMax \in Nat

NodeTags == <<"iden", "comp", "unit", "pair", "take", "drop", "injl", "injr", "case", "fold",
              "listfold", "jet", "witness", "hidden", "const">>
JetIds == <<"Sha256", "Ed25519Verify", "SchnorrVerify", "MerkleVerify",
            "Add64", "Sub64", "Mul64", "Div64", "Mod64", "Eq64", "Lt64", "Gt64",
            "Add256", "Sub256", "Mul256", "Div256", "Mod256", "Eq256", "Lt256", "Gt256",
            "Cat", "Slice", "Len", "EqBytes", "EqHash", "TxInputs", "TxOutputs", "TxValue",
            "TxScriptHash", "TxInputCount", "TxOutputCount", "SelfIndex", "BlockHeight",
            "TxSigHash", "ListLen", "ListAt", "ListSum", "ListAll", "ListAny", "ListFind">>
PlaceIn(s, x) == (CHOOSE i \in DOMAIN s : s[i] = x) - 1

Unary == {"take", "drop", "injl", "injr"}
Binary == {"comp", "pair", "case", "listfold"}

Children(node) ==
  CASE node[1] \in Unary -> <<node[2]>>
    [] node[1] \in Binary \cup {"fold"} -> <<node[2], node[3]>>
    [] OTHER -> <<>>

ChildSet(node) == ToSet(Children(node))
Upward(n) == [i \in 1..n |-> i]

Reachable(p) ==
  FoldHalves(LAMBDA seen, i : IF i \in seen THEN seen \cup ChildSet(p.nodes[i]) ELSE seen,
            {p.root}, Upward(Len(p.nodes)))

ValidateStructure(p) ==
  LET n == Len(p.nodes)
  IN  /\ n > 0 /\ p.root \in 1..n
      /\ \A i \in 1..n : ChildSet(p.nodes[i]) \subseteq i + 1..n
      /\ Reachable(p) = 1..n

\* Bottom-up over the arena: children have the higher ids.
BottomUp(p, step(_, _), init) ==
  FoldHalves(LAMBDA acc, i : [acc EXCEPT ![i] = step(p.nodes[i], acc)],
            [i \in 1..Len(p.nodes) |-> init], Reverse(Upward(Len(p.nodes))))

MaxDepth(p) ==
  LET deepest(node, d) == 1 + FoldLeft(LAMBDA m, c : IF d[c] > m THEN d[c] ELSE m, 0, Children(node))
  IN  BottomUp(p, deepest, 0)[p.root]

-----------------------------------------------------------------------------
\* The encoding: node count, root, nodes.

SerializeNode(node) ==
  <<PlaceIn(NodeTags, node[1])>> \o
  CASE node[1] = "jet" -> <<PlaceIn(JetIds, node[2])>>
    [] node[1] = "const" -> LET b == Serialize(node[2]) IN <<Len(b)>> \o b
    [] OTHER -> Tail(node)

SerializeProgram(p) ==
  FoldHalves(LAMBDA acc, node : acc \o SerializeNode(node), <<Len(p.nodes), p.root>>, p.nodes)

\* The constant in a payload of the given length, all of which it must take.
ConstOf(r, len, exact) ==
  IF r.err # "none" \/ (exact /\ r.n # len) THEN ParseBad ELSE Parsed(<<"const", r.v>>, 2 + len)

\* Faulty variant: the value need not fill the payload of the constant.
DeserializeConstLoose(rest) ==
  IF rest = <<>> \/ (Len(rest) - 1 < rest[1]) THEN ParseEnd
  ELSE ConstOf(Deserialize(SubSeq(rest, 2, rest[1] + 1)), rest[1], FALSE)

DeserializeConst(rest) ==
  IF rest = <<>> \/ (Len(rest) - 1 < rest[1]) THEN ParseEnd
  ELSE ConstOf(Deserialize(SubSeq(rest, 2, rest[1] + 1)), rest[1], TRUE)

DeserializeNode(s) ==
  IF s = <<>> THEN ParseEnd ELSE IF s[1] + 1 \notin DOMAIN NodeTags THEN ParseBad
  ELSE LET name == NodeTags[s[1] + 1]
           rest == Tail(s)
           fields == CASE name \in Unary \cup {"hidden", "jet"} -> 1
                       [] name \in Binary -> 2
                       [] name = "fold" -> 3
                       [] OTHER -> 0
       IN  IF name = "const" THEN DeserializeConst(rest)
           ELSE IF Len(rest) < fields THEN ParseEnd
           ELSE IF name = "jet"
           THEN IF rest[1] + 1 \in DOMAIN JetIds THEN Parsed(<<"jet", JetIds[rest[1] + 1]>>, 2)
                ELSE ParseBad
           ELSE Parsed(<<name>> \o SubSeq(rest, 1, fields), 1 + fields)

\* The nodes one behind the other; the first error stands.
DeserializeNodes(s, count) ==
  FoldHalves(LAMBDA acc, i :
               OnParsed(acc, LAMBDA vs, ns :
                 OnParsed(DeserializeNode(From(s, ns)), LAMBDA v, n :
                   Parsed(Append(vs, v), ns + n))),
             Parsed(<<>>, 0), Upward(count))

DeserializeProgram(s) ==
  IF Len(s) < 2 THEN ParseEnd ELSE IF s[1] > MaxScriptNodes THEN ParseBad
  ELSE IF s[1] > Len(s) - 2 THEN ParseEnd
  ELSE OnParsed(DeserializeNodes(From(s, 2), s[1]), LAMBDA vs, n :
         LET p == [nodes |-> vs, root |-> s[2]]
         IN  IF n # Len(s) - 2 \/ ~ValidateStructure(p) THEN ParseBad ELSE Parsed(p, Len(s)))

\* A hash is the term it was made from; a hidden node is its hash.
NodeMerkleHash(node, h) ==
  CASE node[1] = "hidden" -> <<"hidden", node[2]>>
    [] node[1] \in Unary -> <<node[1], h[node[2]]>>
    [] node[1] \in Binary -> <<node[1], h[node[2]], h[node[3]]>>
    [] node[1] = "fold" -> <<"fold", h[node[2]], h[node[3]], node[4]>>
    [] node[1] = "const" -> <<"const", Serialize(node[2])>>
    [] OTHER -> node

StructuralMerkleHash(p) ==
  LET hash(node, h) == IF node[1] = "const" THEN <<"const", StructuralSkeleton(node[2])>>
                       ELSE NodeMerkleHash(node, h)
  IN  BottomUp(p, hash, <<>>)[p.root]

-----------------------------------------------------------------------------
\* Types.  The unit type is also the wildcard of what is not known yet.

RECURSIVE TypesCompatible(_, _)
TypesCompatible(a, b) ==
  \/ a = b \/ a = TUnit \/ b = TUnit
  \/ a[1] = b[1] /\ a[1] \in {"Sum", "Product", "List"}
     /\ \A i \in 2..Len(a) : TypesCompatible(a[i], b[i])

Or(a, b) == IF a = TUnit THEN b ELSE a

\* <<input, output>> of a node whose children have the types t.
ExferNodeType(node, t) ==
  LET f == t[node[2]]
      g == t[node[3]]
  IN  CASE node[1] = "comp" -> <<f[1], g[2]>>
        [] node[1] = "pair" -> <<Or(f[1], g[1]), TProduct(f[2], g[2])>>
        [] node[1] = "take" -> <<TProduct(f[1], TUnit), f[2]>>
        [] node[1] = "drop" -> <<TProduct(TUnit, f[1]), f[2]>>
        [] node[1] = "injl" -> <<f[1], TSum(f[2], TUnit)>>
        [] node[1] = "injr" -> <<f[1], TSum(TUnit, f[2])>>
        [] node[1] = "case" -> <<TSum(f[1], g[1]), Or(f[2], g[2])>>
        [] node[1] = "fold" -> <<TProduct(TBound(node[4]), g[1]), Or(g[2], f[2])>>
        [] node[1] = "listfold" ->
             <<TProduct(TList(IF f[1][1] = "Product" THEN f[1][2] ELSE TUnit), g[1]), Or(g[2], f[2])>>
        [] node[1] = "jet" -> JetType(node[2])
        [] node[1] = "const" -> <<TUnit, InferType(node[2])>>
        [] OTHER -> <<TUnit, TUnit>>

\* What the inference rejects.
NodeTypeError(node, t) ==
  LET f == t[node[2]]
      g == t[node[3]]
  IN  \/ node[1] = "comp" /\ ~TypesCompatible(f[2], g[1])
      \/ node[1] \in {"case", "fold", "listfold"} /\ ~TypesCompatible(f[2], g[2])
      \/ node[1] \in {"fold", "listfold"} /\ f[1][1] \notin {"Product", "Unit"}
      \/ node[1] = "fold" /\ f[1][1] = "Product"
         /\ ~(TypesCompatible(f[1][2], g[1]) /\ TypesCompatible(f[1][3], g[2]))

RECURSIVE RefineDeep(_, _)
RefineDeep(slot, resolved) ==
  IF slot = TUnit THEN resolved
  ELSE IF slot[1] = resolved[1] /\ slot[1] \in {"Product", "Sum", "List"}
  THEN [i \in 1..Len(slot) |-> IF i = 1 THEN slot[1] ELSE RefineDeep(slot[i], resolved[i])]
  ELSE slot

HasRefinableOutput(node) == node[1] \notin {"unit", "const", "jet"}

RefineIn(t, i, ty) == [t EXCEPT ![i][1] = RefineDeep(@, ty)]
RefineOut(p, t, i, ty) ==
  IF HasRefinableOutput(p.nodes[i]) THEN [t EXCEPT ![i][2] = RefineDeep(@, ty)] ELSE t

\* What a node knows moves into its children.
RefineChildren(p, t, i) ==
  LET node == p.nodes[i]
      f == node[2]
      g == node[3]
      outs(u, a, b) == RefineOut(p, RefineOut(p, u, f, a), g, b)
      ins(u, a, b) == RefineIn(RefineIn(u, f, a), g, b)
  IN  CASE node[1] = "comp" -> RefineIn(RefineOut(p, t, f, t[g][1]), g, t[f][2])
        [] node[1] = "pair" ->
             LET u == ins(t, t[g][1], t[f][1])
                 v == ins(u, u[i][1], u[i][1])
             IN  IF v[i][2][1] = "Product" THEN outs(v, v[i][2][2], v[i][2][3]) ELSE v
        [] node[1] \in {"case", "fold", "listfold"} -> outs(t, t[g][2], t[f][2])
        [] OTHER -> t

\* The inferred types, refined from the root down, or none.
Refined(p, t) ==
  IF ~ValidateStructure(p) \/ \E i \in DOMAIN t : NodeTypeError(p.nodes[i], t) THEN <<>>
  ELSE FoldHalves(LAMBDA u, i : RefineChildren(p, u, i), t, Upward(Len(p.nodes)))

\* The types of all nodes, or none when the program is ill-typed.
Typecheck(p) == Refined(p, BottomUp(p, ExferNodeType, <<TUnit, TUnit>>))

-----------------------------------------------------------------------------
\* Static cost, for lists of the given length.


RoundSteps(f, n) == n * (f.steps + 1)

NodeCost(node, c, listSize) ==
  LET f == c[node[2]]
      g == c[node[3]]
      n == IF node[1] = "fold" THEN node[4] ELSE listSize
      cost(steps, cells) == [steps |-> steps, cells |-> cells]
  IN  CASE node[1] = "comp" -> cost(f.steps + g.steps + 1, f.cells + g.cells)
        [] node[1] = "pair" -> cost(f.steps + g.steps + 1, f.cells + g.cells + 1)
        [] node[1] \in {"take", "drop"} -> cost(f.steps + 1, f.cells)
        [] node[1] \in {"injl", "injr"} -> cost(f.steps + 1, f.cells + 1)
        [] node[1] = "case" -> cost(Max({f.steps, g.steps}) + 1, Max({f.cells, g.cells}) + 1)
        [] node[1] \in {"fold", "listfold"} ->
             cost(g.steps + RoundSteps(f, n) + 1, g.cells + n * f.cells)
        [] node[1] = "jet" -> JetCost(node[2])
        [] node[1] = "hidden" -> cost(0, 0)
        [] node[1] = "const" -> LET size == 1 + Max({1, CeilingOf(SerializedSize(node[2]), 64)})
                                IN  cost(size, size)
        [] OTHER -> cost(1, 0)

NodeCosts(p, listSize) ==
  BottomUp(p, LAMBDA node, c : NodeCost(node, c, listSize), [steps |-> 0, cells |-> 0])

\* The checked arithmetic fails at the first node whose cost is too large.
CostOverflows(p, listSize) ==
  \E c \in ToSet(NodeCosts(p, listSize)) : c.steps > CostMax \/ c.cells > CostMax

ComputeCost(p, listSize) == NodeCosts(p, listSize)[p.root]
=============================================================================
