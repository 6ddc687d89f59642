---------------------------- MODULE ScriptValues ----------------------------
(***************************************************************************)
(* Types and values of Exfer Script (script/types.rs, script/value.rs).    *)
(*                                                                         *)
(* A type or a value is a tuple whose first element names its variant.     *)
(* Bytes are a sequence of numbers, a hash is a number.  The encoding of a *)
(* value is a sequence of numbers in which each field of fixed width (a    *)
(* tag, a length, a u64, a u256, a hash) is one number.                    *)
(***************************************************************************)
EXTENDS WideInt

CONSTANTS ValueSize,      \* size_of::<Value>()
          MaxValueDepth,  \* MAX_VALUE_DEPTH
          MaxListLength   \* MAX_LIST_LENGTH

ASSUME ScriptValuesAssumption ==
  ValueSize \in Nat \ {0} /\ MaxValueDepth \in Nat /\ MaxListLength \in Nat

MaxU64 == Base - 1

TUnit == <<"Unit">>
TSum(a, b) == <<"Sum", a, b>>
TProduct(a, b) == <<"Product", a, b>>
TList(t) == <<"List", t>>
TBound(k) == <<"Bound", k>>
TU256 == <<"U256">>
TBool == TSum(TUnit, TUnit)
TOption(t) == TSum(TUnit, t)
TBytes == TList(TBound(256))
THash == TBound(0)
TU64 == TBound(MaxU64)

Unit == <<"unit">>
Left(v) == <<"left", v>>
Right(v) == <<"right", v>>
Pair(a, b) == <<"pair", a, b>>
List(s) == <<"list", s>>
Bytes(s) == <<"bytes", s>>
U64(n) == <<"u64", n>>
U256(n) == <<"u256", n>>
Bool(b) == <<"bool", b>>
Hash(h) == <<"hash", h>>

\* as_bool: Bool, or the unit under a tag.
IsTrue(v) == v \in {Bool(TRUE), Right(Unit)}
IsFalse(v) == v \in {Bool(FALSE), Left(Unit)}

SumOver(f(_), s) == FoldLeft(LAMBDA acc, x : acc + f(x), 0, s)

-----------------------------------------------------------------------------
\* Bytes and lists are counted by their length (the code counts the capacity
\* of the vector, which is never less).
RECURSIVE HeapSize(_)
HeapSize(v) ==
  CASE v[1] \in {"left", "right"} -> ValueSize + HeapSize(v[2])
    [] v[1] = "pair" -> 2 * ValueSize + HeapSize(v[2]) + HeapSize(v[3])
    [] v[1] = "list" -> Len(v[2]) * ValueSize + SumOver(HeapSize, v[2])
    [] v[1] = "bytes" -> Len(v[2])
    [] OTHER -> 0

\* The type of a list is read off its first element.
RECURSIVE InferType(_)
InferType(v) ==
  CASE v[1] = "unit" -> TUnit
    [] v[1] = "left" -> TSum(InferType(v[2]), TUnit)
    [] v[1] = "right" -> TSum(TUnit, InferType(v[2]))
    [] v[1] = "pair" -> TProduct(InferType(v[2]), InferType(v[3]))
    [] v[1] = "list" -> TList(IF v[2] = <<>> THEN TUnit ELSE InferType(v[2][1]))
    [] v[1] = "bytes" -> TBytes
    [] v[1] = "u64" -> TU64
    [] v[1] = "u256" -> TU256
    [] v[1] = "bool" -> TBool
    [] v[1] = "hash" -> THash

\* Strict: the unit type is the type of the unit value, not a wildcard.
RECURSIVE MatchesType(_, _)
MatchesType(v, ty) ==
  CASE ty = TBool -> IsTrue(v) \/ IsFalse(v)
    [] ty = TBytes -> v[1] = "bytes"
    [] ty = THash -> v[1] = "hash"
    [] ty = TU256 -> v[1] = "u256"
    [] ty = TUnit -> v = Unit
    [] OTHER ->
         \/ v[1] = "u64" /\ ty[1] = "Bound" /\ (ty = TU64 \/ v[2] < ty[2])
         \/ v[1] = "left" /\ ty[1] = "Sum" /\ MatchesType(v[2], ty[2])
         \/ v[1] = "right" /\ ty[1] = "Sum" /\ MatchesType(v[2], ty[3])
         \/ v[1] = "pair" /\ ty[1] = "Product" /\ MatchesType(v[2], ty[2])
                                               /\ MatchesType(v[3], ty[3])
         \/ v[1] = "list" /\ ty[1] = "List" /\ \A i \in DOMAIN v[2] : MatchesType(v[2][i], ty[2])

RECURSIVE ListsAreHomogeneous(_)
ListsAreHomogeneous(v) ==
  CASE v[1] \in {"left", "right"} -> ListsAreHomogeneous(v[2])
    [] v[1] = "pair" -> ListsAreHomogeneous(v[2]) /\ ListsAreHomogeneous(v[3])
    [] v[1] = "list" -> \A i \in DOMAIN v[2] : /\ InferType(v[2][i]) = InferType(v[2][1])
                                               /\ ListsAreHomogeneous(v[2][i])
    [] OTHER -> TRUE

-----------------------------------------------------------------------------
\* The encoding.  A tag is the place of the variant in this list, from 0 on.
ValueTags == <<"unit", "left", "right", "pair", "list", "bytes", "u64", "u256", "bool", "hash">>
TagOf(name) == (CHOOSE i \in DOMAIN ValueTags : ValueTags[i] = name) - 1

RECURSIVE Serialize(_)
Serialize(v) ==
  <<TagOf(v[1])>> \o
  CASE v[1] = "unit" -> <<>>
    [] v[1] \in {"left", "right"} -> Serialize(v[2])
    [] v[1] = "pair" -> Serialize(v[2]) \o Serialize(v[3])
    [] v[1] = "list" -> FoldLeft(LAMBDA acc, x : acc \o Serialize(x), <<Len(v[2])>>, v[2])
    [] v[1] = "bytes" -> <<Len(v[2])>> \o v[2]
    [] v[1] = "bool" -> <<IF v[2] THEN 1 ELSE 0>>
    [] OTHER -> <<v[2]>>

\* How many bytes that is.
RECURSIVE SerializedSize(_)
SerializedSize(v) ==
  1 + CASE v[1] = "unit" -> 0
        [] v[1] \in {"left", "right"} -> SerializedSize(v[2])
        [] v[1] = "pair" -> SerializedSize(v[2]) + SerializedSize(v[3])
        [] v[1] = "list" -> 4 + SumOver(SerializedSize, v[2])
        [] v[1] = "bytes" -> 4 + Len(v[2])
        [] v[1] = "u64" -> 8
        [] v[1] = "bool" -> 1
        [] OTHER -> 32

\* Tags, nesting and list lengths, without the payload of the scalars.
RECURSIVE StructuralSkeleton(_)
StructuralSkeleton(v) ==
  <<TagOf(v[1])>> \o
  CASE v[1] \in {"left", "right"} -> StructuralSkeleton(v[2])
    [] v[1] = "pair" -> StructuralSkeleton(v[2]) \o StructuralSkeleton(v[3])
    [] v[1] = "list" -> FoldLeft(LAMBDA acc, x : acc \o StructuralSkeleton(x), <<Len(v[2])>>, v[2])
    [] OTHER -> <<>>

\* What a parser found: a result and how much of the input it took, or an
\* error: the input ends too early ("end") or is malformed ("bad").
Parsed(v, n) == [err |-> "none", v |-> v, n |-> n]
ParseEnd == [err |-> "end", v |-> Unit, n |-> 0]
ParseBad == [err |-> "bad", v |-> Unit, n |-> 0]

OnParsed(r, next(_, _)) == IF r.err # "none" THEN r ELSE next(r.v, r.n)

BoolOf(b) == IF b \in {0, 1} THEN Parsed(Bool(b = 1), 2) ELSE ParseBad

From(s, n) == SubSeq(s, n + 1, Len(s))

RECURSIVE DeserializeDepth(_, _), DeserializeItems(_, _, _)
DeserializeDepth(s, depth) ==
  IF depth > MaxValueDepth THEN ParseBad
  ELSE IF s = <<>> THEN ParseEnd
  ELSE IF s[1] \notin 0..9 THEN ParseBad
  ELSE LET name == ValueTags[s[1] + 1]
           rest == Tail(s)
           short == Len(rest) < 1
       IN  CASE name = "unit" -> Parsed(Unit, 1)
             [] name \in {"left", "right"} ->
                  OnParsed(DeserializeDepth(rest, depth + 1), LAMBDA v, n : Parsed(<<name, v>>, 1 + n))
             [] name = "pair" ->
                  OnParsed(DeserializeItems(rest, 2, depth + 1),
                           LAMBDA v, n : Parsed(Pair(v[1], v[2]), 1 + n))
             [] name = "list" ->
                  IF short THEN ParseEnd ELSE IF rest[1] > MaxListLength THEN ParseBad
                  ELSE OnParsed(DeserializeItems(Tail(rest), rest[1], depth + 1),
                                LAMBDA v, n : Parsed(List(v), 2 + n))
             [] name = "bytes" ->
                  IF short \/ (Len(rest) - 1 < rest[1]) THEN ParseEnd
                  ELSE Parsed(Bytes(SubSeq(rest, 2, rest[1] + 1)), 2 + rest[1])
             [] name = "bool" -> IF short THEN ParseEnd ELSE BoolOf(rest[1])
             [] OTHER -> IF short THEN ParseEnd ELSE Parsed(<<name, rest[1]>>, 2)

\* The given number of values, one behind the other.
DeserializeItems(s, count, depth) ==
  IF count = 0 THEN Parsed(<<>>, 0)
  ELSE OnParsed(DeserializeDepth(s, depth), LAMBDA v, n :
         OnParsed(DeserializeItems(From(s, n), count - 1, depth), LAMBDA vs, ns :
           Parsed(<<v>> \o vs, n + ns)))

Deserialize(s) == DeserializeDepth(s, 0)
=============================================================================
