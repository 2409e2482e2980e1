----------------------------- MODULE SeriesIDs -----------------------------
(***************************************************************************)
(* The series id of a provenance block and the decoder that takes it from  *)
(* a JSON number or string, with numerals in base Base and an int type of  *)
(* a chosen width.  A number that is not a plain run of digits is expanded *)
(* by big.Rat, at a cost that follows its exponent, so its literal is      *)
(* bounded first.                                                          *)
(***************************************************************************)
EXTENDS Integers, Sequences

CONSTANTS
  Base,               \* of numerals; ten in the code
  MaxInt,             \* the largest int
  MaxSeriesIDDigits,
  NoExponent, NotDigits,
  Refused             \* the decoder returns an error

ASSUME WidthAssumption ==
  /\ Base \in Nat /\ Base > 1
  /\ MaxSeriesIDDigits \in Nat /\ MaxInt \in Nat /\ MaxSeriesIDDigits < MaxInt
  /\ NoExponent \notin Int /\ NotDigits \notin Seq(Nat) /\ Refused \notin Seq(Nat)

MinInt  == -MaxInt - 1
Wrap(n) == ((n - MinInt) % (2 * (MaxInt + 1))) + MinInt

Digit   == 0 .. Base - 1
Numeral == Seq(Digit) \ {<<>>}

\* A JSON number other than a plain run of digits has a sign, a point or an exponent.  Before
\* the point it has no zero in front of other digits; a string may.
Spelling ==
  [form : {"number"}, neg : BOOLEAN, int : {ds \in Numeral : ds[1] = 0 => Len(ds) = 1},
   frac : Seq(Digit), exp : Int \cup {NoExponent}]

\* len(mantissa): the bytes before the exponent, sign and point among them.
MantissaLen(lit) ==
  (IF lit.neg THEN 1 ELSE 0) + Len(lit.int) + (IF lit.frac = <<>> THEN 0 ELSE 1 + Len(lit.frac))

\* No document in memory is so long that the bound added to its length is not an int.
NumberLiteral == {lit \in Spelling : MantissaLen(lit) + MaxSeriesIDDigits <= MaxInt}
StringLiteral == [form : {"string"}, text : Numeral \cup {NotDigits}]
Literal       == NumberLiteral \cup StringLiteral

Digits(lit)   == lit.int \o lit.frac
Exponent(lit) == IF lit.exp = NoExponent THEN 0 ELSE lit.exp
AllZero(ds)   == \A i \in DOMAIN ds : ds[i] = 0
Zeros(n)      == [i \in 1 .. n |-> 0]

SeriesIDDigits(lit) == ~lit.neg /\ lit.frac = <<>> /\ lit.exp = NoExponent

SeriesIDMantissaIsZero(lit) == AllZero(Digits(lit))

\* Variant: the exponent is not compared before it is added.
SeriesIDWithinDigitBound_SumOnly(lit) ==
  LET e == Exponent(lit) IN
  /\ e \in MinInt .. MaxInt
  /\ \/ SeriesIDMantissaIsZero(lit)
     \/ e < 0 /\ Wrap(-e) <= MaxSeriesIDDigits
     \/ e >= 0 /\ Wrap(MantissaLen(lit) + e) <= MaxSeriesIDDigits

SeriesIDWithinDigitBound(lit) ==
  LET e == Exponent(lit) IN
  /\ e \in MinInt .. MaxInt
  /\ \/ SeriesIDMantissaIsZero(lit)
     \/ /\ e < 0
        /\ MantissaLen(lit) <= MaxSeriesIDDigits
        /\ e >= -MaxSeriesIDDigits
     \/ /\ e >= 0
        /\ e <= MaxSeriesIDDigits
        /\ Wrap(MantissaLen(lit) + e) <= MaxSeriesIDDigits

\* big.Rat's value of the literal, as the digits before and after the shifted point.
Shift(lit)  == Exponent(lit) - Len(lit.frac)
IsInt(lit)  == \A i \in DOMAIN Digits(lit) : i > Len(Digits(lit)) + Shift(lit) => Digits(lit)[i] = 0
Canonical(ds) ==
  IF AllZero(ds) THEN <<0>>
  ELSE SubSeq(ds, CHOOSE i \in DOMAIN ds : ds[i] # 0 /\ \A j \in 1 .. i - 1 : ds[j] = 0, Len(ds))
RatString(lit) ==
  IF SeriesIDMantissaIsZero(lit) THEN <<0>>
  ELSE Canonical(IF Shift(lit) >= 0 THEN Digits(lit) \o Zeros(Shift(lit))
                                    ELSE SubSeq(Digits(lit), 1, Len(Digits(lit)) + Shift(lit)))

\* Variant: the digits of the mantissa are taken as they are written.
UnmarshalSeriesID_MantissaOnly(lit) ==
  CASE lit.form = "string" -> IF lit.text = NotDigits THEN Refused ELSE lit.text
    [] lit.form = "number" ->
         IF SeriesIDDigits(lit) THEN lit.int
         ELSE IF SeriesIDWithinDigitBound(lit) /\ IsInt(lit) /\ (lit.neg => SeriesIDMantissaIsZero(lit))
              THEN Canonical(Digits(lit))
              ELSE Refused

\* Variant: whatever has a sign is refused, zero too.
UnmarshalSeriesID_AnySign(lit) ==
  CASE lit.form = "string" -> IF lit.text = NotDigits THEN Refused ELSE lit.text
    [] lit.form = "number" ->
         IF SeriesIDDigits(lit) THEN lit.int
         ELSE IF SeriesIDWithinDigitBound(lit) /\ IsInt(lit) /\ ~lit.neg THEN RatString(lit)
              ELSE Refused

\* What UnmarshalJSON stores, or Refused.  A negative number is one that is not zero.
UnmarshalSeriesID(lit) ==
  CASE lit.form = "string" -> IF lit.text = NotDigits THEN Refused ELSE lit.text
    [] lit.form = "number" ->
         IF SeriesIDDigits(lit) THEN lit.int
         ELSE IF /\ SeriesIDWithinDigitBound(lit)
                 /\ IsInt(lit)
                 /\ lit.neg => SeriesIDMantissaIsZero(lit)
              THEN RatString(lit)
              ELSE Refused

(***************************************************************************)
(* What the numbers mean, in arithmetic.                                   *)
(***************************************************************************)
Number(ds) ==
  LET upTo[i \in 0 .. Len(ds)] == IF i = 0 THEN 0 ELSE Base * upTo[i - 1] + ds[i]
  IN  upTo[Len(ds)]

Power(n) ==
  LET upTo[i \in 0 .. n] == IF i = 0 THEN 1 ELSE Base * upTo[i - 1]
  IN  upTo[n]

\* ds is the number that the literal stands for: a positive exponent multiplies, the digits
\* after the point and a negative exponent divide.
Denotes(ds, lit) ==
  LET e == Exponent(lit) IN
  /\ lit.neg => Number(Digits(lit)) = 0
  /\ Number(ds) * Power(Len(lit.frac) + (IF e < 0 THEN -e ELSE 0))
       = Number(Digits(lit)) * Power(IF e > 0 THEN e ELSE 0)

\* The fraction that big.Rat writes in full before anything is cancelled, unless the mantissa
\* is zero: the digits of the mantissa, with the zeros that a shift to the left appends, over
\* a power of the base for a shift to the right.  Digits after the point shift it, too.
Expanded(lit)          == ~SeriesIDDigits(lit) /\ ~SeriesIDMantissaIsZero(lit)
NumeratorDigits(lit)   == Len(Digits(lit)) + (IF Shift(lit) > 0 THEN Shift(lit) ELSE 0)
DenominatorDigits(lit) == 1 + (IF Shift(lit) < 0 THEN -Shift(lit) ELSE 0)
=============================================================================
