----------------------------- MODULE FixedPoint -----------------------------
(***************************************************************************)
(* The numbers of the system: signed words of Q8.8, and the conversions to  *)
(* them that five programs make.  A float is modelled by its product with   *)
(* Scale, which a multiplication by a power of two gives exactly, counted    *)
(* in pieces of 1/Grain of a unit, so that truncation, rounding and the      *)
(* value itself can be told apart.                                          *)
(***************************************************************************)
EXTENDS Integers

CONSTANTS
  Scale,    \* 256, the units of Q8.8 in one
  Top,      \* 32767, the largest s16
  IntTop,   \* 2147483647, the largest s32
  LongTop,  \* 2^63 - 1
  Grain     \* pieces of a unit

ASSUME WidthAssumption ==
  /\ {Scale, Top, IntTop, LongTop, Grain} \subseteq Nat
  /\ Scale > 0 /\ Grain > 0
  /\ Top < IntTop /\ IntTop < LongTop

Bottom == -Top - 1
Word == Bottom..Top

\* A float: finite with its pieces, or not.
Float == [kind : {"finite", "inf", "-inf", "nan"}, pieces : Int]
Finite(x) == [kind |-> "finite", pieces |-> x]
Exactly(w) == Finite(w * Grain)

-----------------------------------------------------------------------------
\* saturate() of the core and of everybody who imitates it.
Saturate(v) == IF v > Top THEN Top ELSE IF v < Bottom THEN Bottom ELSE v

\* The low bits of a word with the given largest value.
Low(v, top) == ((v + top + 1) % (2 * (top + 1))) - (top + 1)

\* Shift right by eight: rounds down.
Shift(v) == v \div Scale

\* Rounding to a unit: toward zero, and to the nearest with ties to even.
Truncate(x) == IF x >= 0 THEN x \div Grain ELSE -((-x) \div Grain)
Round(x) ==
  LET down == x \div Grain
      rest == 2 * (x % Grain)
  IN IF rest > Grain \/ (rest = Grain /\ down % 2 = 1) THEN down + 1 ELSE down

-----------------------------------------------------------------------------
(* The conversions.                                                         *)

\* lrintf: a value no long can hold becomes the smallest long.
Lrint(x) == IF Round(x) \in (-LongTop - 1)..LongTop THEN Round(x) ELSE -LongTop - 1

\* Fault: the cast does not round.
TruncatedWord(f) == IF f.kind = "finite" THEN Saturate(Truncate(f.pieces)) ELSE 0
\* f2q88 of the Linux engine.
HostWord(f) == IF f.kind = "finite" THEN Saturate(Lrint(f.pieces)) ELSE 0

\* A float to int and its low 16 bits: static_cast<int16_t> of the Windows
\* engine, and what the scripts do for it.
LegacyWord(f) ==
  IF f.kind = "finite" /\ Truncate(f.pieces) \in (-IntTop - 1)..IntTop
  THEN Low(Truncate(f.pieces), Top) ELSE 0

\* host_cast(saturating=True) of the verifier; NumPy makes the smallest int64
\* of a NaN.
VerifierWord(f) ==
  CASE f.kind = "finite" -> Saturate(Round(f.pieces))
    [] f.kind = "inf" -> Top
    [] f.kind = "-inf" -> Bottom
    [] OTHER -> -LongTop - 1

\* float_to_q88 on the ARM core, whose conversion to int saturates.
WeightInt(x) ==
  IF Truncate(x) > IntTop THEN IntTop
  ELSE IF Truncate(x) < -IntTop - 1 THEN -IntTop - 1 ELSE Truncate(x)

-----------------------------------------------------------------------------
\* Fault: the other two scores are not compared with each other.
LooseDecision(o) == IF o[2] > o[1] THEN 1 ELSE IF o[3] > o[1] THEN 2 ELSE 0

\* The decision of three scores, the same rule four times: class 0 unless another
\* one is strictly greater than both others.
Decision(o) ==
  IF o[2] > o[1] /\ o[2] > o[3] THEN 1
  ELSE IF o[3] > o[1] /\ o[3] > o[2] THEN 2 ELSE 0
=============================================================================
