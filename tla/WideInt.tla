------------------------------- MODULE WideInt ------------------------------
(***************************************************************************)
(* The 256-bit integers of the node: the limb and bit arithmetic that      *)
(* retargets the difficulty and weighs a block (consensus/difficulty.rs),  *)
(* and the arithmetic jets of the scripts (script/jets/arithmetic.rs).     *)
(*                                                                         *)
(* A number has Limbs limbs of LimbBits bits (4 of 64 in the code), and a  *)
(* "u64" is one limb.  At the interface a number is an integer below Wide; *)
(* inside, the algorithms work limb by limb and bit by bit as the code     *)
(* does, dropping what the code's widths drop.                             *)
(***************************************************************************)
EXTENDS Integers, SequencesExt

CONSTANTS LimbBits, Limbs

ASSUME WideIntAssumption ==
  LimbBits \in Nat \ {0} /\ Limbs \in Nat \ {0} /\ Limbs % 2 = 0

Base == 2^LimbBits
Bits == LimbBits * Limbs
Wide == 2^Bits
Half == 2^(Bits \div 2)
WideMax == Wide - 1

\* FoldLeft for long sequences: it recurses on the halves of
\* the sequence, so that the depth of TLC's evaluation stays small.
FoldHalves(op(_, _), base, seq) ==
  LET RECURSIVE over(_, _, _)
      over(acc, lo, hi) ==
        IF lo > hi THEN acc
        ELSE IF lo = hi THEN op(acc, seq[lo])
        ELSE CHOOSE r \in {over(half, (lo + hi) \div 2 + 1, hi) :
                             half \in {over(acc, lo, (lo + hi) \div 2)}} : TRUE
  IN  over(base, 1, Len(seq))

\* A checked operation that overflows, underflows or divides by zero.
Failed == -1

-----------------------------------------------------------------------------
\* Limb by limb, the most significant one first.

LimbsOf(v) == [i \in 1..Limbs |-> (v \div Base^(Limbs - i)) % Base]

ValueOf(s) == FoldLeft(LAMBDA acc, d : acc * Base + d, 0, s)

\* The product with a one-limb number, one limb longer.
MulLimbs(s, num) ==
  LET step(d, acc) == LET val == d * num + acc.carry
                      IN  [carry |-> val \div Base, out |-> <<val % Base>> \o acc.out]
      all == FoldRight(step, s, [carry |-> 0, out |-> <<>>])
  IN  <<all.carry>> \o all.out

DivLimbs(s, den) ==
  LET step(acc, d) == LET cur == acc.rem * Base + d
                      IN  [rem |-> cur % den, out |-> Append(acc.out, cur \div den)]
  IN  FoldLeft(step, [rem |-> 0, out |-> <<>>], s).out

\* Faulty variant: the limb above the number is not looked at.
MulDivTruncates(v, num, den) == ValueOf(Tail(DivLimbs(MulLimbs(LimbsOf(v), num), den)))

\* v * num / den, the largest number when that is too large.
MulDiv(v, num, den) ==
  LET q == DivLimbs(MulLimbs(LimbsOf(v), num), den)
  IN  IF q[1] > 0 \/ \E i \in 2..Len(q) : q[i] >= Base THEN WideMax ELSE ValueOf(Tail(q))

-----------------------------------------------------------------------------
\* Bit by bit: the remainder is shifted within the width of a number.

LongDivision(a, b) ==
  LET step(acc, bit) ==
        LET r == ((2 * acc.rem) % Wide) + ((a \div 2^(Bits - bit)) % 2)
        IN  IF r >= b THEN [rem |-> r - b, quo |-> acc.quo + 2^(Bits - bit)]
            ELSE [acc EXCEPT !.rem = r]
  IN  FoldLeft(step, [rem |-> 0, quo |-> 0], [i \in 1..Bits |-> i])

AddWork(a, b) == IF a + b >= Wide THEN WideMax ELSE a + b

\* floor(2^256 / target) from (2^256 - target) / target + 1.
WorkFromTarget(target) ==
  IF target = 0 THEN WideMax
  ELSE AddWork(LongDivision((Wide - target) % Wide, target).quo, 1)

-----------------------------------------------------------------------------
\* The jets: Failed stands for the error, which makes a script return false.

Add64(a, b) == IF a + b >= Base THEN Failed ELSE a + b
Sub64(a, b) == IF a < b THEN Failed ELSE a - b
Mul64(a, b) == IF a * b >= Base THEN Failed ELSE a * b
Div64(a, b) == IF b = 0 THEN Failed ELSE a \div b
Mod64(a, b) == IF b = 0 THEN Failed ELSE a % b

\* Two halves, with a carry and with a borrow.
Add256(a, b) ==
  LET lo == (a % Half) + (b % Half)
      hi == (a \div Half) + (b \div Half)
  IN  IF hi >= Half \/ hi + lo \div Half >= Half THEN Failed
      ELSE (hi + lo \div Half) * Half + (lo % Half)

Sub256(a, b) ==
  LET borrow == IF a % Half < b % Half THEN 1 ELSE 0
      hi == (a \div Half) - (b \div Half)
  IN  IF hi < 0 \/ hi - borrow < 0 THEN Failed
      ELSE (hi - borrow) * Half + (((a % Half) - (b % Half)) % Half)

\* Adding a product to the limbs of the result from the given one on (limb 1
\* is the least significant), the carries moving up at once.
AddAt(res, prod, pos) ==
  LET step(acc, k) ==
        LET sum == acc.limb[k] + (acc.carry % Base)
        IN  [limb |-> [acc.limb EXCEPT ![k] = sum % Base],
             carry |-> acc.carry \div Base + sum \div Base]
  IN  FoldHalves(step, [limb |-> res, carry |-> prod],
                 [n \in 1..(2 * Limbs - pos + 1) |-> pos + n - 1]).limb

\* Schoolbook multiplication into twice as many limbs.
LimbProducts(x, y) ==
  LET step(acc, n) == LET i == n \div Limbs + 1
                          j == (n % Limbs) + 1
                      IN  AddAt(acc, x[i] * y[j], i + j - 1)
  IN  FoldHalves(step, [k \in 1..2 * Limbs |-> 0], [n \in 1..Limbs * Limbs |-> n - 1])

\* The upper limbs must be zero.
MulFull(a, b) ==
  LET res == LimbProducts(Reverse(LimbsOf(a)), Reverse(LimbsOf(b)))
  IN  IF \E k \in Limbs + 1..2 * Limbs : res[k] # 0 THEN Failed
      ELSE ValueOf([k \in 1..Limbs |-> res[Limbs + 1 - k]])

\* The products of the halves are looked at first.
Mul256(a, b) ==
  LET ah == a \div Half  al == a % Half
      bh == b \div Half  bl == b % Half
  IN  IF \/ ah > 0 /\ bh > 0
         \/ ah > 0 /\ ah * bl >= Half
         \/ bh > 0 /\ bh * al >= Half
      THEN Failed ELSE MulFull(a, b)

Div256(a, b) == IF b = 0 THEN Failed ELSE IF a < b THEN 0 ELSE LongDivision(a, b).quo
Mod256(a, b) == IF b = 0 THEN Failed ELSE IF a < b THEN a ELSE LongDivision(a, b).rem

-----------------------------------------------------------------------------
\* The operations on a and b give the exact result, or fail exactly when it
\* is not a number of the width: a script whose arithmetic wrapped would
\* accept a spend its author excluded, and a wrapped work would reorder
\* chains.
WideExact(a, b) ==
  LET fits(v) == IF v \in 0..WideMax THEN v ELSE Failed
  IN  /\ Add256(a, b) = fits(a + b)
      /\ Sub256(a, b) = fits(a - b)
      /\ Mul256(a, b) = fits(a * b)
      /\ b # 0 => /\ Div256(a, b) = a \div b
                  /\ Mod256(a, b) = a % b
                  /\ b < Base => MulDiv(a, Base - 1, b) =
                                   LET v == (a * (Base - 1)) \div b
                                   IN  IF v < Wide THEN v ELSE WideMax
      /\ a # 0 => WorkFromTarget(a) = LET w == Wide \div a IN IF w < Wide THEN w ELSE WideMax
=============================================================================
