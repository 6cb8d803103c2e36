------------------------------- MODULE Grounding -------------------------------
(***************************************************************************)
(* The checks a draft report must pass: atlas.research.grounding on the    *)
(* figures of its prose and fie_ai.structured on its citations.            *)
(*                                                                         *)
(* A computed value is an integer count of grains, 10 ^ GrainPlaces to the *)
(* unit.  A written figure is a record: its digits as one integer, how     *)
(* many of them follow the decimal point, whether a currency sign precedes *)
(* it, the word that follows it, and a suffix ("%", "x" or "").  Signs are *)
(* left out, because the check compares magnitudes.                        *)
(***************************************************************************)
EXTENDS Integers, FiniteSets

CONSTANTS
  GrainPlaces,     \* decimal places of a grain
  Magnitudes,      \* the words of _MAGNITUDES
  PowerOf,         \* what the pattern reads in a word: word -> power of ten
  YearRange        \* _YEAR_RANGE

ASSUME GroundingAssumption ==
  /\ GrainPlaces \in Nat /\ YearRange \subseteq Nat
  /\ Magnitudes \subseteq DOMAIN PowerOf /\ \A w \in DOMAIN PowerOf : PowerOf[w] \in Nat

\* A power of ten, as a recursive function: 10 ^ n is opaque to provers.
TenTo(n) ==
  LET power[m \in 0..n] == IF m = 0 THEN 1 ELSE 10 * power[m - 1] IN power[n]

\* The pattern takes a magnitude from the start of the next word, so a word
\* of the prose that begins like one is read as one.
Power(w) == IF w.word \in DOMAIN PowerOf THEN PowerOf[w.word] ELSE 0
\* A figure is written with digits its grains can hold.
Grains(w) == w.digits * TenTo(GrainPlaces + Power(w) - w.places)

IsYear(w) ==
  /\ w.word \notin DOMAIN PowerOf /\ w.suffix = "" /\ ~w.currency
  /\ w.places = 0 /\ w.digits \in YearRange

(***************************************************************************)
(* Significant digits                                                      *)
(***************************************************************************)
Length(n) ==
  LET length[m \in 0..n] == IF m < 10 THEN 1 ELSE 1 + length[m \div 10] IN length[n]
TrailingZeros(n) ==
  LET zeros[m \in 0..n] == IF m = 0 \/ m % 10 # 0 THEN 0 ELSE 1 + zeros[m \div 10]
  IN  zeros[n]

\* Plausible mistake. SignificantDigits: the zeros of a round number count.
MutSignificantDigits(w) == Length(w.digits)

\* Zeros at the end count after a decimal point and not before one.
SignificantDigits(w) ==
  IF w.places > 0 THEN Length(w.digits) ELSE Length(w.digits) - TrailingZeros(w.digits)

\* Half up, to a number of significant digits; a value with no more stays.
RoundToSignificant(value, digits) ==
  IF Length(value) <= digits THEN value
  ELSE LET unit == TenTo(Length(value) - digits)
       IN  ((2 * value + unit) \div (2 * unit)) * unit

(***************************************************************************)
(* The verdicts                                                            *)
(***************************************************************************)
Size(value) == IF value < 0 THEN -value ELSE value

IsSupported(w, allowed) ==
  \E value \in allowed :
    LET rounded(v) == RoundToSignificant(v, SignificantDigits(w))
    IN  \/ Size(value) = Grains(w)
        \/ rounded(Size(value)) = rounded(Grains(w))
        \/ w.suffix = "%" /\ rounded(100 * Size(value)) = rounded(Grains(w))

\* A value is allowed with either sign.
AllowedValues(values) == values \cup {-value : value \in values}

Claims(figures) == {w \in figures : ~IsYear(w)}
Unsupported(figures, allowed) == {w \in Claims(figures) : ~IsSupported(w, allowed)}

\* Citations that are none of the supplied sources.
UnknownCitations(cited, supplied) == cited \ supplied

(***************************************************************************)
(* What the check promises, without rounding anything                      *)
(***************************************************************************)

\* The place of the last digit the author vouches for, in grains.
LastPlace(w) ==
  TenTo(GrainPlaces + Power(w) - w.places + (IF w.places > 0 THEN 0 ELSE TrailingZeros(w.digits)))

\* A value rounds to what is written: it lies no further from it than half of
\* the last place, which is ten times finer just below a power of ten.
Justifies(value, w) ==
  LET below == IF Grains(w) = TenTo(SignificantDigits(w) - 1) * LastPlace(w) THEN 20 ELSE 2
  IN  \/ value = Grains(w)
      \/ Grains(w) > 0 /\ value >= Grains(w) /\ 2 * (value - Grains(w)) < LastPlace(w)
      \/ value > 0 /\ value <= Grains(w) /\ below * (Grains(w) - value) <= LastPlace(w)

Justified(w, values) ==
  \E value \in values :
    \/ Justifies(Size(value), w)
    \/ w.suffix = "%" /\ Justifies(100 * Size(value), w)
=============================================================================
