---------------------------- MODULE DividendMath ----------------------------
(***************************************************************************)
(* The exact arithmetic of the DividendX program                           *)
(* (programs/dividendx/src/math.rs): binary multipliers, the rational      *)
(* accumulator of in-year dividend ratios, the split of the backing into a *)
(* PT and a DR pool, and cumulative-floor redemption.                      *)
(*                                                                         *)
(* A multiplier is the bit pattern of a positive binary64 number.  Its     *)
(* layout is parameterised so that TLC can enumerate every pattern of a    *)
(* narrow format: the program uses FractionBits = 52, Bias = 1023,         *)
(* Span = 32 and numbers of at most MAX_BIGINT_BYTES = 1024 bytes.         *)
(***************************************************************************)
EXTENDS Integers

CONSTANTS
  FractionBits,    \* bits of the fraction field
  Bias,            \* exponent bias
  Span,            \* multipliers lie in [2^-Span, 2^Span)
  BigLimit         \* least value that no longer fits MAX_BIGINT_BYTES

ASSUME MathAssumption ==
  /\ FractionBits \in Nat
  /\ Span \in Nat
  /\ Bias \in Nat
  /\ Bias > Span
  /\ BigLimit \in Nat

Sides == {"pt", "dr"}

-----------------------------------------------------------------------------

\* g[0] * ... * g[n - 1], as a function of n.
Product(g) == LET p[n \in Nat] == IF n = 0 THEN 1 ELSE p[n - 1] * g[n - 1] IN p

\* One, shifted left by n bits.
Pow2[n \in Nat] == IF n = 0 THEN 1 ELSE Pow2[n - 1] * 2

\* One more than the greatest fraction: the hidden bit of a significand.
FractionUnit == Pow2[FractionBits]
MinNormalBits == (Bias - Span) * FractionUnit
MaxExclusiveBits == (Bias + Span) * FractionUnit

\* The condition under which decode_multiplier returns a factor.  A pattern
\* with the sign bit, a zero or an all-ones exponent lies outside the range.
DecodesMultiplier(bits) ==
  /\ bits >= MinNormalBits
  /\ bits < MaxExclusiveBits

\* decode_multiplier: the number is significand * 2^exponent.
DecodeMultiplier(bits) ==
  [significand |-> FractionUnit + (bits % FractionUnit),
   exponent    |-> (bits \div FractionUnit) - Bias - FractionBits]

\* require_qualified_factor
QualifiedFactor(m0, m1) ==
  /\ DecodesMultiplier(m0)
  /\ DecodesMultiplier(m1)
  /\ m1 >= m0

\* bounded_bytes: a non-empty encoding of at most MAX_BIGINT_BYTES bytes.
FitsBytes(value) == value \in 1..(BigLimit - 1)

\* Mutant: the exponents are dropped.
MultiplyRatioUnshifted(n, d, m0, m1) ==
  [numerator |-> n * DecodeMultiplier(m0).significand,
   denominator |-> d * DecodeMultiplier(m1).significand]

\* multiply_ratio without its error returns: the ratio n/d times m0/m1, the
\* difference of the exponents shifted into the side that keeps it integral.
MultiplyRatio(n, d, m0, m1) ==
  LET f0 == DecodeMultiplier(m0)
      f1 == DecodeMultiplier(m1)
      shift == f0.exponent - f1.exponent
  IN  [numerator   |-> n * f0.significand * (IF shift >= 0 THEN Pow2[shift] ELSE 1),
       denominator |-> d * f1.significand * (IF shift < 0 THEN Pow2[-shift] ELSE 1)]

\* The condition under which multiply_ratio returns a ratio.
MultipliesRatio(n, d, m0, m1) ==
  /\ QualifiedFactor(m0, m1)
  /\ n # 0 /\ d # 0
  /\ FitsBytes(MultiplyRatio(n, d, m0, m1).numerator)
  /\ FitsBytes(MultiplyRatio(n, d, m0, m1).denominator)

\* Mutant: a ratio of one, a year without dividends, is refused.
SplitsPoolsStrictly(quantity, n, d) ==
  n # 0 /\ d # 0 /\ n < d /\ quantity * (d - n) < BigLimit

\* The condition under which split_pools returns two pools.
SplitsPools(quantity, n, d) ==
  /\ n # 0 /\ d # 0 /\ n <= d
  /\ quantity * (d - n) < BigLimit

\* Mutants: the difference taken the wrong way round; both parts floored.
SplitPoolsSwapped(quantity, n, d) ==
  LET dividend == (quantity * (n - d)) \div d
  IN  [s \in Sides |-> IF s = "dr" THEN dividend ELSE quantity - dividend]
SplitPoolsFloored(quantity, n, d) ==
  [s \in Sides |-> (quantity * (IF s = "dr" THEN d - n ELSE n)) \div d]

\* split_pools: the dividend part is floored, the principal part takes the rest.
SplitPools(quantity, n, d) ==
  LET dividend == (quantity * (d - n)) \div d
  IN  [s \in Sides |-> IF s = "dr" THEN dividend ELSE quantity - dividend]

\* What one side has been paid in total once `redeemed` of `supply` claims came in.
CumulativeFloor(redeemed, pool, supply) == (redeemed * pool) \div supply

\* The condition under which redemption_payout of a positive amount returns.
RedemptionFits(before, amount, supply) == supply # 0 /\ before + amount <= supply

\* Mutant: each redemption is floored on its own.
RedemptionPayoutAlone(before, amount, pool, supply) == (amount * pool) \div supply

\* redemption_payout: the difference of two cumulative floors.
RedemptionPayout(before, amount, pool, supply) ==
  CumulativeFloor(before + amount, pool, supply) - CumulativeFloor(before, pool, supply)

=============================================================================
