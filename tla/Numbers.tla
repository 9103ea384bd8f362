------------------------------ MODULE Numbers ------------------------------
(***************************************************************************)
(* The integers and decimals the modules count money with: int64 with its  *)
(* overflow checks (types/coin.go, types/numbers.go), the decimal that is  *)
(* an int64 with a fixed number of places (types/decimal.go), and the      *)
(* division of a reward among sharers (x/stake/keeper/reward.go).          *)
(*                                                                         *)
(* The width of the machine integer and the number of units of one are     *)
(* parameters: 64 and 10^8 in the code.  A panic is the value Panic, which *)
(* no machine integer has.                                                 *)
(***************************************************************************)
EXTENDS Integers, Sequences, SequencesExt, FiniteSetsExt

CONSTANTS
    Width,       \* bits of the machine integer
    Precision    \* precisionReuse: the units of 1.0

ASSUME NumbersAssumption ==
    Width \in Nat \ {0} /\ Precision \in Nat \ {0} /\ Precision % 2 = 0

MinInt == -(2 ^ (Width - 1))
MaxInt == 2 ^ (Width - 1) - 1
Ints == MinInt..MaxInt
Panic == 2 ^ Width

Wrap(x) == ((x - MinInt) % 2 ^ Width) + MinInt

Abs(x) == IF x < 0 THEN -x ELSE x

(* Division of Go and of big.Int.Quo: towards zero.                        *)
Quotient(a, b) == IF (a < 0) = (b < 0) THEN Abs(a) \div Abs(b) ELSE -(Abs(a) \div Abs(b))

-----------------------------------------------------------------------------
(* Sums and differences panic when the machine result is on the wrong side *)
(* of the first operand.                                                   *)
SafePlusUnchecked(a, b) == Wrap(a + b)

SafePlus(a, b) ==
    LET c == Wrap(a + b) IN IF (c > a) # (b > 0) THEN Panic ELSE c

SafeMinus(a, b) ==
    LET c == Wrap(a - b) IN IF (c < a) # (b > 0) THEN Panic ELSE c

(* Mul64: the machine product, and whether it is the product.              *)
Mul64(a, b) ==
    LET c == Wrap(a * b)
    IN  [c |-> c,
         ok |-> \/ a = 0 \/ b = 0
                \/ /\ (c < 0) = ((a < 0) # (b < 0))
                   /\ Wrap(Quotient(c, b)) = a]

-----------------------------------------------------------------------------
(* chopPrecisionAndRound: the last places are removed and the rest is      *)
(* rounded to the nearest, to the even one in the middle.                  *)
RoundsUp(quo, rem) ==
    \/ rem > Precision \div 2
    \/ rem = Precision \div 2 /\ quo % 2 = 1

ChopPrecisionAndRound(d) ==
    LET quo == Abs(d) \div Precision
        rounded == IF RoundsUp(quo, Abs(d) % Precision) THEN quo + 1 ELSE quo
    IN  IF d < 0 THEN -rounded ELSE rounded

Checked(x) == IF x \in Ints THEN x ELSE Panic

DecMul(a, b) == Checked(ChopPrecisionAndRound(a * b))

DecQuo(a, b) ==
    IF b = 0 THEN Panic
    ELSE Checked(ChopPrecisionAndRound(Quotient(a * Precision * Precision, b)))

(* MulQuoDec: a * b / c, or an error (Panic here, as its callers answer).  *)
MulQuoDec(a, b, c) ==
    IF c = 0 THEN Panic
    ELSE IF Mul64(a, b).ok THEN Wrap(Quotient(Mul64(a, b).c, c))
    ELSE Checked(Quotient(a * b, c))

-----------------------------------------------------------------------------
(* mulQuoDecWithExtraDecimal with one extra place: the quotient rounded    *)
(* down, and its next digit.                                               *)
TimesTen(a, b) ==
    LET p == Mul64(a, b)
        q == Mul64(p.c, 10)
    IN  IF p.ok /\ q.ok THEN q.c ELSE a * b * 10

MulQuoDecWithExtraDecimal(a, b, c) ==
    LET tenfold == Quotient(TimesTen(a, b), c)
    IN  [amount |-> tenfold \div 10, digit |-> tenfold % 10]

Threshold == 5

(* The first n rewards of a list get one unit more.                        *)
OneMore(rewards, n) ==
    [i \in DOMAIN rewards |->
        IF i <= n THEN [rewards[i] EXCEPT !.amount = @ + 1] ELSE rewards[i]]

RewardsSum(rewards) == FoldLeft(LAMBDA s, r : s + r.amount, 0, rewards)

AtLeastZero(n) == IF n > 0 THEN n ELSE 0

(* What is left after rounding down goes by units, first to the sharers    *)
(* whose next digit reaches the threshold.                                 *)
LeftOverDropped(total, carry, rest) == 0

LeftOver(total, carry, rest) == AtLeastZero(total - RewardsSum(carry) - RewardsSum(rest))

Carries(r) == r.digit >= Threshold

PreReward(sharer, q) ==
    [acc |-> sharer.acc, shares |-> sharer.shares, amount |-> q.amount, digit |-> q.digit]

PreRewards(sharers, total, totalShares) ==
    [i \in DOMAIN sharers |-> PreReward(sharers[i],
        MulQuoDecWithExtraDecimal(sharers[i].shares, total, totalShares))]

WithLeftOver(carry, rest, left) ==
    OneMore(carry, left) \o OneMore(rest, AtLeastZero(left - Len(carry)))

ShareOut(carry, rest, total) == WithLeftOver(carry, rest, LeftOver(total, carry, rest))

Divide(pre, total) ==
    ShareOut(SelectSeq(pre, Carries), SelectSeq(pre, LAMBDA r : ~Carries(r)), total)

Allocate(sharers, total) ==
    Divide(PreRewards(sharers, total, FoldLeft(LAMBDA s, d : s + d.shares, 0, sharers)), total)
=============================================================================
