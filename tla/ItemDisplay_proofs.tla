------------------------- MODULE ItemDisplay_proofs -------------------------
(***************************************************************************)
(* Proofs about the way of an item to the player, for all sets of          *)
(* settings, keys, texts, documents, defaults and manifests.               *)
(*                                                                         *)
(* Inv says of a decoding call what of the variable may have been written  *)
(* already (InPlace), and of a call of DisplayForItem that what is built   *)
(* is made of the layers so far (CallInv).  MergeInv says of the shadow    *)
(* after some members what DecodeMergesOrKeeps says of the item after all. *)
(* IdInv says the same of the series id, and of a saved error that the     *)
(* document has a cause for it; what the decoder makes of one literal is   *)
(* arithmetic on sums that are carried along the digits (Carried).         *)
(***************************************************************************)
EXTENDS ItemDisplay, SequenceTheorems, WellFoundedInduction, TLAPS

LEMMA LeastExists ==
  ASSUME NEW S \in SUBSET Nat, S # {}
  PROVE  \E m \in S : \A n \in S : m <= n
<1> DEFINE R == {ss \in Nat \X Nat : ss[1] < ss[2]}
<1>1. IsWellFoundedOn(R, Nat)
  BY NatLessThanWellFounded DEF OpToRel
<1>2. \E m \in S : \A n \in S : ~ (<<n, m>> \in R)
  <2> HIDE DEF R
  <2>1. S \subseteq Nat /\ S # {}
    OBVIOUS
  <2>2. \A T : T \subseteq Nat /\ T # {} => \E m \in T : \A n \in T : ~ (<<n, m>> \in R)
    BY <1>1, WFMin
  <2> QED BY <2>1, <2>2
<1>3. \A m, n \in Nat : <<n, m>> \in R <=> n < m
  OBVIOUS
<1>4. PICK m \in S : \A n \in S : ~ (<<n, m>> \in R)
  BY <1>2
<1>5. \A n \in S : ~ (n < m)
  <2> HIDE DEF R
  <2> QED BY <1>3, <1>4
<1> QED
  BY <1>5

LEMMA DecodeIntoType ==
  ASSUME NEW cur \in DisplayPrefs, NEW d \in DisplayPrefs
  PROVE  DecodeInto(cur, d) \in DisplayPrefs
<1> DEFINE new  == DecodeInto(cur, d)
           held == Else(cur.interaction, NoInteraction)
<1>1. held \in InteractionPrefs
  BY DisplayAssumption DEF DisplayPrefs, InteractionPrefs, Optional, Else, NoInteraction
<1>2. Else(held.mouse, NoButtons) \in MousePrefs
  BY <1>1 DEF InteractionPrefs, MousePrefs, Optional, Else, NoButtons
<1>3. ASSUME d.interaction # Unset PROVE d.interaction \in InteractionPrefs
  BY <1>3 DEF DisplayPrefs, Optional
<1>4. ASSUME d.interaction # Unset
      PROVE  Later(held.keyboard, d.interaction.keyboard) \in Optional(Keys)
  BY <1>1, <1>3, <1>4 DEF InteractionPrefs, Optional, Later
<1>5. ASSUME d.interaction # Unset, d.interaction.mouse # Unset
      PROVE  LaterOf(Button, Else(held.mouse, NoButtons), d.interaction.mouse) \in MousePrefs
  <2>1. d.interaction.mouse \in MousePrefs
    BY <1>3, <1>5 DEF InteractionPrefs, Optional
  <2> QED BY <1>2, <2>1 DEF MousePrefs, Optional, LaterOf, Later
<1>6. new.interaction \in Optional(InteractionPrefs)
  <2> HIDE DEF held
  <2> QED BY <1>1, <1>4, <1>5 DEF DecodeInto, DisplayPrefs, InteractionPrefs, Optional, held
<1>7. new.plain \in [Setting -> Optional(Value)]
  BY DEF DecodeInto, DisplayPrefs, LaterOf, Later, Optional
<1>8. new.userOverrides \in [OverrideKey -> Optional(BOOLEAN)]
  BY DEF DecodeInto, DisplayPrefs, LaterOf, Later, Optional
<1> QED
  BY <1>6, <1>7, <1>8 DEF DecodeInto, DisplayPrefs

LEMMA OverlayDisplayType ==
  ASSUME NEW dst \in DisplayPrefs, NEW src \in DisplayPrefs
  PROVE  OverlayDisplay(dst, src) \in DisplayPrefs
<1> DEFINE new  == OverlayDisplay(dst, src)
           held == Else(dst.interaction, NoInteraction)
<1>1. held \in InteractionPrefs
  BY DisplayAssumption DEF DisplayPrefs, InteractionPrefs, Optional, Else, NoInteraction
<1>2. Else(held.mouse, NoButtons) \in MousePrefs
  BY <1>1 DEF InteractionPrefs, MousePrefs, Optional, Else, NoButtons
<1>3. ASSUME src.interaction # Unset PROVE src.interaction \in InteractionPrefs
  BY <1>3 DEF DisplayPrefs, Optional
<1>4. ASSUME src.interaction # Unset
      PROVE  Typed(held.keyboard, src.interaction.keyboard) \in Optional(Keys)
  BY <1>1, <1>3, <1>4 DEF InteractionPrefs, Optional, Typed
<1>5. ASSUME src.interaction # Unset, src.interaction.mouse # Unset
      PROVE  SwitchOn(Else(held.mouse, NoButtons), src.interaction.mouse) \in MousePrefs
  BY <1>2 DEF MousePrefs, Optional, SwitchOn
<1>6. new.interaction \in Optional(InteractionPrefs)
  <2> HIDE DEF held
  <2> QED BY <1>1, <1>4, <1>5 DEF OverlayDisplay, DisplayPrefs, InteractionPrefs, Optional, held
<1>7. new.plain \in [Setting -> Optional(Value)]
  BY DEF OverlayDisplay, DisplayPrefs, LaterOf, Later, Optional
<1>8. new.userOverrides \in [OverrideKey -> Optional(BOOLEAN)]
  BY DEF OverlayDisplay, DisplayPrefs, LaterOf, Later, Optional
<1> QED
  BY <1>6, <1>7, <1>8 DEF OverlayDisplay, DisplayPrefs

LEMMA ApplyDisplayJSONType ==
  ASSUME NEW dst \in DisplayPrefs, NEW src \in DisplayControls
  PROVE  ApplyDisplayJSON(dst, src) \in DisplayPrefs
<1> DEFINE new  == ApplyDisplayJSON(dst, src)
           held == Else(dst.interaction, NoInteraction)
           ip   == IF src.interaction = Malformed THEN NoInteraction ELSE src.interaction
<1>1. held \in InteractionPrefs
  BY DisplayAssumption DEF DisplayPrefs, InteractionPrefs, Optional, Else, NoInteraction
<1>2. ASSUME src.interaction # Unset PROVE ip \in InteractionPrefs
  BY <1>2 DEF DisplayControls, InteractionPrefs, Optional, NoInteraction
<1>3. ASSUME src.interaction # Unset
      PROVE  /\ Typed(held.keyboard, ip.keyboard) \in Optional(Keys)
             /\ Else(ip.mouse, held.mouse) \in Optional(MousePrefs)
  BY <1>1, <1>2, <1>3 DEF InteractionPrefs, Optional, Typed, Else
<1>4. new.interaction \in Optional(InteractionPrefs)
  <2> HIDE DEF held, ip
  <2> QED BY <1>3 DEF ApplyDisplayJSON, DisplayPrefs, InteractionPrefs, Optional, held, ip
<1>5. new.plain \in [Setting -> Optional(Value)]
  BY DEF ApplyDisplayJSON, DisplayPrefs, DisplayControls, LaterOf, Later, Optional
<1>6. new.userOverrides \in [OverrideKey -> Optional(BOOLEAN)]
  BY DEF ApplyDisplayJSON, DisplayPrefs
<1> QED
  BY <1>4, <1>5, <1>6 DEF ApplyDisplayJSON, DisplayPrefs

LEMMA CanonicalType ==
  ASSUME NEW ds \in Seq(Digit)
  PROVE  Canonical(ds) \in Numeral
<1>1. <<0>> \in Numeral
  BY WidthAssumption DEF Digit, Numeral
<1>2. CASE AllZero(ds)
  BY <1>1, <1>2 DEF Canonical
<1>3. CASE ~AllZero(ds)
  <2> DEFINE S == {i \in DOMAIN ds : ds[i] # 0}
             First(i) == ds[i] # 0 /\ \A j \in 1 .. i - 1 : ds[j] = 0
             k == CHOOSE i \in DOMAIN ds : First(i)
  <2>1. DOMAIN ds = 1 .. Len(ds) /\ Len(ds) \in Nat
    BY LenProperties
  <2>2. PICK m \in S : \A n \in S : m <= n
    <3>1. S \in SUBSET Nat /\ S # {}
      BY <1>3, <2>1 DEF AllZero
    <3> QED BY <3>1, LeastExists
  <2>3. First(m) /\ m \in DOMAIN ds
    BY <2>1, <2>2
  <2>4. k \in 1 .. Len(ds)
    BY <2>1, <2>3
  <2>5. SubSeq(ds, k, Len(ds)) \in Seq(Digit) \ {<<>>}
    <3> HIDE DEF k
    <3>1. SubSeq(ds, k, Len(ds)) \in Seq(Digit) /\ Len(SubSeq(ds, k, Len(ds))) = Len(ds) - k + 1
      BY <2>1, <2>4
    <3>2. Len(SubSeq(ds, k, Len(ds))) # 0
      BY <3>1, <2>1, <2>4
    <3> QED BY <3>1, <3>2, EmptySeq
  <2> QED BY <1>3, <2>5 DEF Canonical, Numeral
<1> QED BY <1>2, <1>3

LEMMA RatStringType ==
  ASSUME NEW lit \in NumberLiteral
  PROVE  RatString(lit) \in Numeral /\ lit.int \in Numeral /\ lit.form = "number"
<1>1. lit.int \in Numeral /\ lit.form = "number" /\ lit.frac \in Seq(Digit) /\ Exponent(lit) \in Int
  BY DEF NumberLiteral, Spelling, Exponent
<1>2. Digits(lit) \in Seq(Digit)
  BY <1>1 DEF Digits, Numeral
<1>3. Shift(lit) \in Int
  BY <1>1 DEF Shift
<1>4. <<0>> \in Numeral
  BY WidthAssumption DEF Digit, Numeral
<1>5. ASSUME Shift(lit) >= 0 PROVE Digits(lit) \o Zeros(Shift(lit)) \in Seq(Digit)
  <2>1. Zeros(Shift(lit)) \in Seq(Digit)
    BY <1>3, <1>5, WidthAssumption DEF Zeros, Digit
  <2> QED BY <1>2, <2>1
<1>6. ASSUME Shift(lit) < 0 PROVE SubSeq(Digits(lit), 1, Len(Digits(lit)) + Shift(lit)) \in Seq(Digit)
  <2>1. \A i \in 1 .. Len(Digits(lit)) + Shift(lit) : Digits(lit)[i] \in Digit
    BY <1>2, <1>3, <1>6
  <2> QED BY <1>2, <1>3, <2>1, SubSeqProperties
<1>7. ASSUME ~SeriesIDMantissaIsZero(lit) PROVE RatString(lit) \in Numeral
  <2>1. CASE Shift(lit) >= 0
    BY <1>5, <1>7, <2>1, CanonicalType DEF RatString
  <2>2. CASE Shift(lit) < 0
    <3> DEFINE ds == SubSeq(Digits(lit), 1, Len(Digits(lit)) + Shift(lit))
    <3>1. RatString(lit) = Canonical(ds)
      BY <1>3, <1>7, <2>2 DEF RatString
    <3>2. ds \in Seq(Digit)
      BY <1>6, <2>2
    <3> HIDE DEF ds
    <3> QED BY <3>1, <3>2, CanonicalType
  <2> QED BY <1>3, <2>1, <2>2
<1> QED BY <1>1, <1>4, <1>7 DEF RatString

LEMMA SeriesIDType ==
  ASSUME NEW lit \in Literal
  PROVE  UnmarshalSeriesID(lit) \in Numeral \cup {Refused}
<1>1. CASE lit \in StringLiteral
  BY <1>1 DEF StringLiteral, UnmarshalSeriesID
<1>2. CASE lit \in NumberLiteral
  BY <1>2, RatStringType DEF UnmarshalSeriesID
<1> QED
  BY <1>1, <1>2 DEF Literal

-----------------------------------------------------------------------------
(***************************************************************************)
(* The arithmetic of numerals.  A sum over digits is carried along the     *)
(* digits: Carried(f, a, d, k) says that f does so k times, from a on.     *)
(***************************************************************************)
LessThan == {ss \in Nat \X Nat : ss[1] < ss[2]}

LEMMA SetInduction ==
  ASSUME NEW S, 0 \in S, \A n \in Nat : n \in S => n + 1 \in S
  PROVE  Nat \subseteq S
<1> DEFINE Bad == Nat \ S
<1> SUFFICES ASSUME Bad # {} PROVE FALSE
  OBVIOUS
<1>1. IsWellFoundedOn(LessThan, Nat)
  BY NatLessThanWellFounded DEF OpToRel, LessThan
<1>2. PICK n \in Bad : \A m \in Bad : ~ (<<m, n>> \in LessThan)
  BY <1>1, WFMin
<1>3. n \in Nat /\ n # 0
  OBVIOUS
<1>4. n - 1 \in Nat /\ <<n - 1, n>> \in LessThan
  BY <1>3 DEF LessThan
<1>5. n - 1 \in S
  BY <1>2, <1>4
<1>6. (n - 1) + 1 \in S
  BY <1>4, <1>5
<1> QED BY <1>3, <1>6

Carried(f, a, d, k) ==
  /\ f \in [0 .. k -> Nat] /\ f[0] = a
  /\ \A i \in 1 .. k : f[i] = Base * f[i - 1] + d[i]

LEMMA CarriedExists ==
  ASSUME NEW a \in Nat, NEW k \in Nat, NEW d, \A i \in 1 .. k : d[i] \in Nat
  PROVE  \E f : Carried(f, a, d, k)
<1> DEFINE S == {n \in Nat : n <= k => \E f : Carried(f, a, d, n)}
<1>1. 0 \in S
  <2> DEFINE f == [i \in 0 .. 0 |-> a]
  <2>1. Carried(f, a, d, 0)
    BY DEF Carried
  <2> HIDE DEF f
  <2> QED BY <2>1
<1>2. ASSUME NEW n \in Nat, n \in S
      PROVE  n + 1 \in S
  <2> SUFFICES ASSUME n + 1 <= k PROVE \E f : Carried(f, a, d, n + 1)
    OBVIOUS
  <2>1. PICK f : Carried(f, a, d, n)
    BY <1>2
  <2> DEFINE last == Base * f[n] + d[n + 1]
             g    == [i \in 0 .. n + 1 |-> IF i = n + 1 THEN last ELSE f[i]]
  <2>2. \A i \in 0 .. n : f[i] \in Nat
    BY <2>1 DEF Carried
  <2>3. last \in Nat
    <3>1. f[n] \in Nat /\ d[n + 1] \in Nat /\ Base \in Nat
      BY <2>2, WidthAssumption
    <3> QED BY <3>1
  <2>4. \A i \in 0 .. n : g[i] = f[i]
    OBVIOUS
  <2>5. g[n + 1] = last
    OBVIOUS
  <2>6. g \in [0 .. n + 1 -> Nat]
    <3> HIDE DEF last
    <3> QED BY <2>2, <2>3
  <2> HIDE DEF g
  <2>7. g[0] = a
    BY <2>1, <2>4 DEF Carried
  <2>8. ASSUME NEW i \in 1 .. n + 1
        PROVE  g[i] = Base * g[i - 1] + d[i]
    <3>1. CASE i = n + 1
      <4>1. i - 1 = n /\ g[n] = f[n]
        BY <2>4, <3>1
      <4> QED BY <2>5, <3>1, <4>1
    <3>2. CASE i # n + 1
      <4>1. i \in 1 .. n /\ i \in 0 .. n /\ i - 1 \in 0 .. n
        BY <3>2
      <4>2. f[i] = Base * f[i - 1] + d[i]
        BY <2>1, <4>1 DEF Carried
      <4> QED BY <2>4, <4>1, <4>2
    <3> QED BY <3>1, <3>2
  <2>9. Carried(g, a, d, n + 1)
    BY <2>6, <2>7, <2>8 DEF Carried
  <2> QED BY <2>9
<1> HIDE DEF S
<1>3. k \in S
  BY <1>1, <1>2, SetInduction
<1> QED BY <1>3 DEF S

\* Carrying the digits on from a number shifts it by that many places.
LEMMA CarriedFrom ==
  ASSUME NEW a \in Nat, NEW k \in Nat, NEW d, \A i \in 1 .. k : d[i] \in Nat,
         NEW f, Carried(f, a, d, k), NEW g, Carried(g, 0, d, k),
         NEW p, Carried(p, 1, Zeros(k), k)
  PROVE  f[k] = a * p[k] + g[k]
<1> DEFINE S == {n \in Nat : n <= k => f[n] = a * p[n] + g[n]}
<1>0. \A i \in 0 .. k : f[i] \in Nat /\ g[i] \in Nat /\ p[i] \in Nat
  BY DEF Carried
<1>1. 0 \in S
  <2>1. f[0] = a /\ g[0] = 0 /\ p[0] = 1
    BY DEF Carried
  <2>2. a = a * 1 + 0
    OBVIOUS
  <2> QED BY <2>1, <2>2
<1>2. ASSUME NEW n \in Nat, n \in S
      PROVE  n + 1 \in S
  <2> SUFFICES ASSUME n + 1 <= k PROVE f[n + 1] = a * p[n + 1] + g[n + 1]
    OBVIOUS
  <2>1. n \in 0 .. k /\ n + 1 \in 1 .. k /\ (n + 1) - 1 = n
    OBVIOUS
  <2>2. f[n + 1] = Base * f[n] + d[n + 1] /\ g[n + 1] = Base * g[n] + d[n + 1]
    BY <2>1 DEF Carried
  <2>3. p[n + 1] = Base * p[n]
    <3>1. p[n + 1] = Base * p[n] + Zeros(k)[n + 1]
      BY <2>1 DEF Carried
    <3>2. Zeros(k)[n + 1] = 0
      BY <2>1 DEF Zeros
    <3>3. Base * p[n] \in Nat
      BY <1>0, <2>1, WidthAssumption
    <3> QED BY <3>1, <3>2, <3>3
  <2>4. f[n] = a * p[n] + g[n]
    BY <1>2, <2>1
  <2>5. \A y, z, t, c \in Nat : c * (a * y + z) + t = a * (c * y) + (c * z + t)
    <3> TAKE y, z, t, c \in Nat
    <3>1. c * (a * y + z) = c * (a * y) + c * z /\ c * (a * y) = a * (c * y)
      OBVIOUS
    <3> QED BY <3>1
  <2>6. d[n + 1] \in Nat /\ Base \in Nat
    BY <2>1, WidthAssumption
  <2>7. Base * (a * p[n] + g[n]) + d[n + 1] = a * (Base * p[n]) + (Base * g[n] + d[n + 1])
    BY <1>0, <2>1, <2>5, <2>6
  <2> QED BY <2>2, <2>3, <2>4, <2>7
<1> HIDE DEF S
<1>3. Nat \subseteq S
  BY <1>1, <1>2, SetInduction
<1> QED BY <1>3 DEF S

LEMMA CarriedOnce ==
  ASSUME NEW k \in Nat, NEW a, NEW d, NEW f, Carried(f, a, d, k), NEW h, h[0] = a,
         \A i \in 1 .. k : h[i - 1] \in Nat => h[i] = Base * h[i - 1] + d[i]
  PROVE  \A i \in 0 .. k : h[i] = f[i]
<1> DEFINE S == {n \in Nat : n <= k => h[n] = f[n]}
<1>1. 0 \in S
  BY DEF Carried
<1>2. ASSUME NEW n \in Nat, n \in S
      PROVE  n + 1 \in S
  <2> SUFFICES ASSUME n + 1 <= k PROVE h[n + 1] = f[n + 1]
    OBVIOUS
  <2>1. n \in 0 .. k /\ n + 1 \in 1 .. k /\ (n + 1) - 1 = n /\ h[n] = f[n]
    BY <1>2
  <2>2. h[n] \in Nat /\ f[n + 1] = Base * f[n] + d[n + 1]
    BY <2>1 DEF Carried
  <2>3. h[n + 1] = Base * h[n] + d[n + 1]
    BY <2>1, <2>2
  <2> QED BY <2>1, <2>2, <2>3
<1> HIDE DEF S
<1>3. Nat \subseteq S
  BY <1>1, <1>2, SetInduction
<1> QED BY <1>3 DEF S

LEMMA NumberIs ==
  ASSUME NEW ds \in Seq(Nat), NEW f, Carried(f, 0, ds, Len(ds))
  PROVE  Number(ds) = f[Len(ds)]
<1> DEFINE k == Len(ds)
           Sums(u) == u = [i \in 0 .. k |-> IF i = 0 THEN 0 ELSE Base * u[i - 1] + ds[i]]
           h == CHOOSE u : Sums(u)
<1>1. k \in Nat
  OBVIOUS
<1>2. Sums(f)
  <2>1. f = [i \in 0 .. k |-> f[i]]
    BY DEF Carried
  <2>2. \A i \in 0 .. k : f[i] = IF i = 0 THEN 0 ELSE Base * f[i - 1] + ds[i]
    BY <1>1 DEF Carried
  <2> QED BY <2>1, <2>2
<1>3. Sums(h)
  <2> HIDE DEF Sums
  <2> QED BY <1>2
<1>4. Number(ds) = h[k]
  BY DEF Number
<1> HIDE DEF h
<1>5. h[0] = 0 /\ \A i \in 1 .. k : h[i] = Base * h[i - 1] + ds[i]
  BY <1>1, <1>3
<1>6. h[k] = f[k]
  <2> HIDE DEF k
  <2>1. \A i \in 0 .. k : h[i] = f[i]
    BY <1>1, <1>5, CarriedOnce DEF k
  <2> QED BY <1>1, <2>1
<1> QED BY <1>4, <1>6

LEMMA PowerIs ==
  ASSUME NEW n \in Nat, NEW p, Carried(p, 1, Zeros(n), n)
  PROVE  Power(n) = p[n]
<1> DEFINE Powers(u) == u = [i \in 0 .. n |-> IF i = 0 THEN 1 ELSE Base * u[i - 1]]
           h == CHOOSE u : Powers(u)
<1>1. \A i \in 1 .. n : p[i] = Base * p[i - 1]
  <2> TAKE i \in 1 .. n
  <2>1. p[i] = Base * p[i - 1] + Zeros(n)[i] /\ p[i - 1] \in Nat
    BY DEF Carried
  <2>2. Zeros(n)[i] = 0 /\ Base \in Nat
    BY WidthAssumption DEF Zeros
  <2> QED BY <2>1, <2>2
<1>2. Powers(p)
  <2>1. p = [i \in 0 .. n |-> p[i]]
    BY DEF Carried
  <2>2. \A i \in 0 .. n : p[i] = IF i = 0 THEN 1 ELSE Base * p[i - 1]
    BY <1>1 DEF Carried
  <2> QED BY <2>1, <2>2
<1>3. Powers(h)
  <2> HIDE DEF Powers
  <2> QED BY <1>2
<1>4. Power(n) = h[n]
  BY DEF Power
<1> HIDE DEF h
<1>5. h[0] = 1 /\ \A i \in 1 .. n : h[i - 1] \in Nat => h[i] = Base * h[i - 1] + Zeros(n)[i]
  <2>1. h[0] = 1 /\ \A i \in 1 .. n : h[i] = Base * h[i - 1]
    BY <1>3
  <2>2. \A x \in Nat : Base * x = Base * x + 0
    BY WidthAssumption
  <2>3. \A i \in 1 .. n : Zeros(n)[i] = 0
    BY DEF Zeros
  <2> QED BY <2>1, <2>2, <2>3
<1>6. \A i \in 0 .. n : h[i] = p[i]
  <2> DEFINE z == Zeros(n)
  <2> HIDE DEF z
  <2> QED BY <1>5, CarriedOnce DEF z
<1> QED BY <1>4, <1>6

LEMMA ZerosAre ==
  ASSUME NEW n \in Nat
  PROVE  /\ Zeros(n) \in Seq(Digit) /\ Zeros(n) \in Seq(Nat) /\ Len(Zeros(n)) = n
         /\ \A i \in 1 .. n : Zeros(n)[i] = 0
BY WidthAssumption DEF Zeros, Digit

\* The sums that stand behind the numbers and powers.
LEMMA Sums ==
  /\ \A ds \in Seq(Nat) : \E f : Carried(f, 0, ds, Len(ds)) /\ Number(ds) = f[Len(ds)]
  /\ \A n \in Nat : \E p : Carried(p, 1, Zeros(n), n) /\ Power(n) = p[n]
<1>1. ASSUME NEW ds \in Seq(Nat)
      PROVE  \E f : Carried(f, 0, ds, Len(ds)) /\ Number(ds) = f[Len(ds)]
  <2>1. \E f : Carried(f, 0, ds, Len(ds))
    BY CarriedExists
  <2> QED BY <2>1, NumberIs
<1>2. ASSUME NEW n \in Nat
      PROVE  \E p : Carried(p, 1, Zeros(n), n) /\ Power(n) = p[n]
  <2>1. \E p : Carried(p, 1, Zeros(n), n)
    <3> DEFINE z == Zeros(n)
    <3>1. \A i \in 1 .. n : z[i] \in Nat
      BY DEF Zeros
    <3> HIDE DEF z
    <3> QED BY <3>1, CarriedExists DEF z
  <2> QED BY <2>1, PowerIs
<1> QED BY <1>1, <1>2

LEMMA NumberType ==
  /\ \A ds \in Seq(Nat) : Number(ds) \in Nat
  /\ \A n \in Nat : Power(n) \in Nat
<1>1. \A f, a, d : \A k \in Nat : Carried(f, a, d, k) => f[k] \in Nat
  BY DEF Carried
<1>2. \A ds \in Seq(Nat) : Len(ds) \in Nat
  OBVIOUS
<1> QED BY <1>1, <1>2, Sums

\* e is the part of d behind its first m places.
Follows(e, d, m, n) == \A j \in 1 .. n : e[j] = d[m + j] /\ e[j] \in Nat

\* The second part of a sum is carried on from the first.
LEMMA CarriedOn ==
  ASSUME NEW m \in Nat, NEW n \in Nat, NEW a, NEW d, NEW e, NEW f, Carried(f, a, d, m + n),
         Follows(e, d, m, n),
         NEW g, Carried(g, 0, e, n), NEW p, Carried(p, 1, Zeros(n), n)
  PROVE  f[m + n] = f[m] * p[n] + g[n]
<1> DEFINE w == [j \in 0 .. n |-> f[m + j]]
<1>1. \A i \in 0 .. m + n : f[i] \in Nat
  BY DEF Carried
<1>2. \A j \in 0 .. n : w[j] = f[m + j] /\ m + j \in 0 .. m + n
  OBVIOUS
<1>3. w \in [0 .. n -> Nat]
  <2> HIDE DEF Carried
  <2> QED BY <1>1
<1>4. ASSUME NEW j \in 1 .. n
      PROVE  w[j] = Base * w[j - 1] + e[j]
  <2>1. m + j \in 1 .. m + n /\ (m + j) - 1 = m + (j - 1) /\ j - 1 \in 0 .. n /\ j \in 0 .. n
    OBVIOUS
  <2>2. f[m + j] = Base * f[(m + j) - 1] + d[m + j]
    BY <2>1 DEF Carried
  <2>3. w[j] = f[m + j] /\ w[j - 1] = f[m + (j - 1)]
    BY <1>2, <2>1
  <2>4. e[j] = d[m + j]
    BY DEF Follows
  <2> HIDE DEF w
  <2> QED BY <2>1, <2>2, <2>3, <2>4
<1> HIDE DEF w
<1>5. w[0] = f[m] /\ w[n] = f[m + n] /\ f[m] \in Nat
  BY <1>1, <1>2
<1>6. Carried(w, f[m], e, n)
  BY <1>3, <1>4, <1>5 DEF Carried
<1>7. \A i \in 1 .. n : e[i] \in Nat
  BY DEF Follows
<1>8. w[n] = f[m] * p[n] + g[n]
  BY <1>5, <1>6, <1>7, CarriedFrom
<1> QED BY <1>5, <1>8

LEMMA NumberZero ==
  ASSUME NEW ds \in Seq(Nat), AllZero(ds)
  PROVE  Number(ds) = 0
<1> DEFINE f == [i \in 0 .. Len(ds) |-> 0]
<1>1. \A i \in 1 .. Len(ds) : ds[i] = 0
  BY DEF AllZero
<1>2. Base * 0 + 0 = 0
  BY WidthAssumption
<1>3. Carried(f, 0, ds, Len(ds))
  <2>1. f \in [0 .. Len(ds) -> Nat] /\ f[0] = 0
    OBVIOUS
  <2>2. \A i \in 1 .. Len(ds) : f[i] = 0 /\ f[i - 1] = 0
    OBVIOUS
  <2> HIDE DEF f
  <2> QED BY <1>1, <1>2, <2>1, <2>2 DEF Carried
<1>4. f[Len(ds)] = 0
  OBVIOUS
<1> HIDE DEF f
<1> QED BY <1>3, <1>4, NumberIs

LEMMA NumberPositive ==
  ASSUME NEW ds \in Seq(Nat), Number(ds) = 0
  PROVE  AllZero(ds)
<1>1. PICK f : Carried(f, 0, ds, Len(ds)) /\ Number(ds) = f[Len(ds)]
  BY Sums
<1> DEFINE k == Len(ds)
           S == {n \in Nat : n <= k => (f[n] = 0 => \A j \in 1 .. n : ds[j] = 0)}
<1>2. 0 \in S
  OBVIOUS
<1>3. ASSUME NEW n \in Nat, n \in S
      PROVE  n + 1 \in S
  <2> SUFFICES ASSUME n + 1 <= k, f[n + 1] = 0
               PROVE  \A j \in 1 .. n + 1 : ds[j] = 0
    OBVIOUS
  <2>1. n \in 0 .. k /\ n + 1 \in 1 .. k /\ (n + 1) - 1 = n /\ f[n] \in Nat /\ ds[n + 1] \in Nat
    BY <1>1 DEF Carried
  <2>2. Base * f[n] + ds[n + 1] = 0
    BY <1>1, <2>1 DEF Carried
  <2>3. Base * f[n] \in Nat /\ (f[n] # 0 => Base * f[n] # 0)
    BY <2>1, WidthAssumption
  <2>4. f[n] = 0 /\ ds[n + 1] = 0
    BY <2>1, <2>2, <2>3
  <2>5. \A j \in 1 .. n : ds[j] = 0
    BY <1>3, <2>1, <2>4
  <2> QED BY <2>4, <2>5
<1> HIDE DEF S
<1>4. k \in S
  BY <1>2, <1>3, SetInduction
<1>5. \A j \in 1 .. k : ds[j] = 0
  BY <1>1, <1>4 DEF S
<1> QED BY <1>5 DEF AllZero

LEMMA NumberBelow ==
  ASSUME NEW ds \in Seq(Digit)
  PROVE  Number(ds) < Power(Len(ds))
<1> DEFINE k == Len(ds)
<1>0. ds \in Seq(Nat) /\ k \in Nat /\ \A i \in 1 .. k : ds[i] \in Nat /\ ds[i] + 1 <= Base
  BY WidthAssumption DEF Digit
<1>1. PICK f : Carried(f, 0, ds, k) /\ Number(ds) = f[k]
  BY <1>0, Sums
<1>2. PICK p : Carried(p, 1, Zeros(k), k) /\ Power(k) = p[k]
  BY <1>0, Sums
<1> DEFINE S == {n \in Nat : n <= k => f[n] + 1 <= p[n]}
<1> HIDE DEF k
<1>3. 0 \in S
  BY <1>1, <1>2 DEF Carried
<1>4. ASSUME NEW n \in Nat, n \in S
      PROVE  n + 1 \in S
  <2> SUFFICES ASSUME n + 1 <= k
               PROVE  f[n + 1] + 1 <= p[n + 1]
    OBVIOUS
  <2>1. n \in 0 .. k /\ n + 1 \in 1 .. k /\ (n + 1) - 1 = n /\ f[n] \in Nat /\ p[n] \in Nat
    BY <1>0, <1>1, <1>2 DEF Carried
  <2>2. f[n + 1] = Base * f[n] + ds[n + 1]
    BY <1>1, <2>1 DEF Carried
  <2>3. p[n + 1] = Base * p[n] + 0
    BY <1>0, <1>2, <2>1, ZerosAre DEF Carried
  <2>4. \A x, y, t, b \in Nat : x + 1 <= y /\ t + 1 <= b => b * x + t + 1 <= b * y + 0
    <3> TAKE x, y, t, b \in Nat
    <3> HAVE x + 1 <= y /\ t + 1 <= b
    <3>1. b * (x + 1) <= b * y
      OBVIOUS
    <3>2. b * (x + 1) = b * x + b /\ b * x \in Nat /\ b * y \in Nat
      OBVIOUS
    <3> QED BY <3>1, <3>2
  <2>5. Base \in Nat /\ ds[n + 1] \in Nat /\ ds[n + 1] + 1 <= Base /\ f[n] + 1 <= p[n]
    BY <1>0, <1>4, <2>1, WidthAssumption
  <2>6. Base * f[n] + ds[n + 1] + 1 <= Base * p[n] + 0
    BY <2>1, <2>4, <2>5
  <2> QED BY <2>2, <2>3, <2>6
<1> HIDE DEF S
<1>5. k \in S
  BY <1>0, <1>3, <1>4, SetInduction
<1>6. f[k] + 1 <= p[k] /\ f[k] \in Nat /\ p[k] \in Nat
  BY <1>0, <1>1, <1>2, <1>5 DEF S, Carried
<1> QED BY <1>1, <1>2, <1>6 DEF k

LEMMA NumberConcat ==
  ASSUME NEW x \in Seq(Nat), NEW y \in Seq(Nat)
  PROVE  Number(x \o y) = Number(x) * Power(Len(y)) + Number(y)
<1> DEFINE m == Len(x)
           n == Len(y)
           z == x \o y
<1>1. z \in Seq(Nat) /\ Len(z) = m + n /\ m \in Nat /\ n \in Nat
  OBVIOUS
<1>2. (\A i \in 1 .. m : z[i] = x[i]) /\ \A i \in 1 .. n : y[i] = z[m + i] /\ y[i] \in Nat
  OBVIOUS
<1> HIDE DEF z
<1>3. PICK f : Carried(f, 0, z, m + n) /\ Number(z) = f[m + n]
  BY <1>1, Sums
<1>4. PICK u : Carried(u, 0, x, m) /\ Number(x) = u[m]
  BY Sums
<1>5. PICK g : Carried(g, 0, y, n) /\ Number(y) = g[n]
  BY Sums
<1>6. PICK p : Carried(p, 1, Zeros(n), n) /\ Power(n) = p[n]
  BY <1>1, Sums
<1> HIDE DEF m, n
<1>7. f[m] = u[m]
  <2>1. f[0] = 0 /\ \A i \in 1 .. m : f[i] = Base * f[i - 1] + x[i]
    BY <1>1, <1>2, <1>3 DEF Carried
  <2> QED BY <1>1, <1>4, <2>1, CarriedOnce
<1>8. f[m + n] = f[m] * p[n] + g[n]
  <2>1. Follows(y, z, m, n)
    BY <1>2 DEF Follows
  <2> QED BY <1>1, <1>3, <1>5, <1>6, <2>1, CarriedOn
<1> QED BY <1>3, <1>4, <1>5, <1>6, <1>7, <1>8 DEF z, n

LEMMA PowerSum ==
  ASSUME NEW m \in Nat, NEW n \in Nat
  PROVE  Power(m + n) = Power(m) * Power(n)
<1>1. PICK q : Carried(q, 1, Zeros(m + n), m + n) /\ Power(m + n) = q[m + n]
  BY Sums
<1>2. PICK u : Carried(u, 1, Zeros(m), m) /\ Power(m) = u[m]
  BY Sums
<1>3. PICK p : Carried(p, 1, Zeros(n), n) /\ Power(n) = p[n]
  BY Sums
<1>4. PICK g : Carried(g, 0, Zeros(n), n) /\ g[n] = 0
  <2>1. Zeros(n) \in Seq(Nat) /\ Len(Zeros(n)) = n /\ AllZero(Zeros(n))
    BY ZerosAre DEF AllZero
  <2>2. Number(Zeros(n)) = 0
    BY <2>1, NumberZero
  <2> QED BY <2>1, <2>2, Sums
<1>5. q[m] = u[m]
  <2>1. q[0] = 1 /\ \A i \in 1 .. m : q[i] = Base * q[i - 1] + Zeros(m + n)[i]
    BY <1>1 DEF Carried
  <2>2. \A i \in 1 .. m : Zeros(m + n)[i] = Zeros(m)[i]
    <3>1. m + n \in Nat /\ \A i \in 1 .. m : i \in 1 .. m + n
      OBVIOUS
    <3> QED BY <3>1, ZerosAre
  <2>3. q[0] = 1 /\ \A i \in 1 .. m : q[i] = Base * q[i - 1] + Zeros(m)[i]
    BY <2>1, <2>2
  <2> QED BY <1>2, <2>3, CarriedOnce
<1>6. q[m + n] = q[m] * p[n] + g[n]
  <2>1. Follows(Zeros(n), Zeros(m + n), m, n)
    <3>1. m + n \in Nat /\ \A j \in 1 .. n : m + j \in 1 .. m + n
      OBVIOUS
    <3>2. \A j \in 1 .. n : Zeros(n)[j] = 0 /\ Zeros(m + n)[m + j] = 0
      BY <3>1, ZerosAre
    <3> QED BY <3>2 DEF Follows
  <2> QED BY <1>1, <1>3, <1>4, <2>1, CarriedOn
<1>7. Power(m) \in Nat /\ Power(n) \in Nat
  BY NumberType
<1> QED BY <1>1, <1>2, <1>3, <1>4, <1>5, <1>6, <1>7

LEMMA PowerGrows ==
  ASSUME NEW m \in Nat, NEW n \in Nat, m <= n
  PROVE  1 <= Power(m) /\ Power(m) <= Power(n)
<1>1. \A k \in Nat : 1 <= Power(k)
  <2> TAKE k \in Nat
  <2>1. Number(Zeros(k)) < Power(k) /\ Number(Zeros(k)) \in Nat /\ Power(k) \in Nat
    BY ZerosAre, NumberBelow, NumberType
  <2> QED BY <2>1
<1>2. n - m \in Nat /\ m + (n - m) = n
  OBVIOUS
<1>3. Power(n) = Power(m) * Power(n - m)
  BY <1>2, PowerSum
<1>4. Power(m) \in Nat /\ Power(n - m) \in Nat /\ 1 <= Power(n - m)
  BY <1>1, <1>2, NumberType
<1>5. \A x, y \in Nat : 1 <= y => x <= x * y
  OBVIOUS
<1> QED BY <1>1, <1>3, <1>4, <1>5

LEMMA PowerZero == Power(0) = 1
<1>1. PICK p : Carried(p, 1, Zeros(0), 0) /\ Power(0) = p[0]
  BY Sums
<1> QED BY <1>1 DEF Carried

LEMMA SplitAt ==
  ASSUME NEW T, NEW s \in Seq(T), NEW k \in 0 .. Len(s)
  PROVE  /\ SubSeq(s, 1, k) \in Seq(T) /\ Len(SubSeq(s, 1, k)) = k
         /\ \A i \in 1 .. k : SubSeq(s, 1, k)[i] = s[i]
         /\ SubSeq(s, k + 1, Len(s)) \in Seq(T) /\ Len(SubSeq(s, k + 1, Len(s))) = Len(s) - k
         /\ \A i \in 1 .. Len(s) - k : SubSeq(s, k + 1, Len(s))[i] = s[k + i]
         /\ s = SubSeq(s, 1, k) \o SubSeq(s, k + 1, Len(s))
<1> DEFINE x == SubSeq(s, 1, k)
           y == SubSeq(s, k + 1, Len(s))
<1>0. Len(s) \in Nat /\ k \in Nat /\ k <= Len(s)
  OBVIOUS
<1>1. x \in Seq(T) /\ Len(x) = k /\ \A i \in 1 .. k : x[i] = s[i]
  BY <1>0
<1>2. y \in Seq(T) /\ Len(y) = Len(s) - k /\ \A i \in 1 .. Len(s) - k : y[i] = s[k + i]
  BY <1>0
<1> HIDE DEF x, y
<1>3. s = x \o y
  <2>1. x \o y \in Seq(T) /\ Len(x \o y) = Len(s)
    BY <1>0, <1>1, <1>2
  <2>2. \A i \in 1 .. Len(s) : (x \o y)[i] = s[i]
    <3> TAKE i \in 1 .. Len(s)
    <3>1. CASE i <= k
      <4>1. i \in 1 .. k /\ i \in 1 .. Len(x)
        BY <1>0, <1>1, <3>1
      <4>2. (x \o y)[i] = x[i]
        BY <1>1, <1>2, <4>1, ConcatProperties
      <4> QED BY <1>1, <4>1, <4>2
    <3>2. CASE i > k
      <4>1. (x \o y)[i] = y[i - k] /\ i - k \in 1 .. Len(s) - k /\ k + (i - k) = i
        BY <1>0, <1>1, <1>2, <3>2
      <4> QED BY <1>2, <4>1
    <3>3. i <= k \/ i > k
      BY <1>0
    <3> QED BY <3>1, <3>2, <3>3, Zenon
  <2> QED BY <1>0, <2>1, <2>2, SeqEqual
<1> QED BY <1>1, <1>2, <1>3 DEF x, y

\* Zeros in front of a numeral do not change the number, and are all that Canonical drops.
LEMMA CanonicalIs ==
  ASSUME NEW ds \in Seq(Digit)
  PROVE  /\ Number(Canonical(ds)) = Number(ds)
         /\ Canonical(ds)[1] = 0 => Len(Canonical(ds)) = 1
<1>0. Digit \subseteq Nat /\ ds \in Seq(Nat)
  BY WidthAssumption DEF Digit
<1>1. CASE AllZero(ds)
  <2>1. Number(ds) = 0
    BY <1>0, <1>1, NumberZero
  <2>2. <<0>> \in Seq(Nat) /\ AllZero(<<0>>) /\ Len(<<0>>) = 1
    BY DEF AllZero
  <2>3. Number(<<0>>) = 0
    BY <2>2, NumberZero
  <2> QED BY <1>1, <2>1, <2>2, <2>3 DEF Canonical
<1>2. CASE ~AllZero(ds)
  <2> DEFINE S == {i \in DOMAIN ds : ds[i] # 0}
             First(i) == ds[i] # 0 /\ \A j \in 1 .. i - 1 : ds[j] = 0
             k == CHOOSE i \in DOMAIN ds : First(i)
  <2>1. DOMAIN ds = 1 .. Len(ds) /\ Len(ds) \in Nat
    BY LenProperties
  <2>2. PICK m \in S : \A n \in S : m <= n
    <3>1. S \in SUBSET Nat /\ S # {}
      BY <1>2, <2>1 DEF AllZero
    <3> QED BY <3>1, LeastExists
  <2>3. First(m) /\ m \in DOMAIN ds
    BY <2>1, <2>2
  <2>4. k \in 1 .. Len(ds) /\ First(k)
    BY <2>1, <2>3
  <2> HIDE DEF k
  <2> DEFINE x == SubSeq(ds, 1, k - 1)
             y == SubSeq(ds, k, Len(ds))
  <2>5. Canonical(ds) = y
    BY <1>2 DEF Canonical, k
  <2>6. x \in Seq(Nat) /\ y \in Seq(Nat) /\ ds = x \o y /\ y[1] = ds[k]
    <3>1. k - 1 \in 0 .. Len(ds) /\ (k - 1) + 1 = k /\ 1 \in 1 .. Len(ds) - (k - 1)
      BY <2>1, <2>4
    <3>2. /\ x \in Seq(Nat) /\ SubSeq(ds, (k - 1) + 1, Len(ds)) \in Seq(Nat)
          /\ ds = x \o SubSeq(ds, (k - 1) + 1, Len(ds))
          /\ SubSeq(ds, (k - 1) + 1, Len(ds))[1] = ds[(k - 1) + 1]
      BY <1>0, <3>1, SplitAt
    <3> QED BY <3>1, <3>2
  <2>7. AllZero(x)
    <3>1. Len(x) = k - 1 /\ \A i \in 1 .. k - 1 : x[i] = ds[i]
      BY <1>0, <2>1, <2>4
    <3> QED BY <2>4, <2>6, <3>1 DEF AllZero
  <2> HIDE DEF x, y
  <2>8. Number(ds) = 0 * Power(Len(y)) + Number(y)
    BY <2>6, <2>7, NumberConcat, NumberZero
  <2>9. Number(y) \in Nat /\ Power(Len(y)) \in Nat
    BY <2>6, NumberType
  <2>10. Number(ds) = Number(y)
    BY <2>8, <2>9
  <2> QED BY <2>4, <2>5, <2>6, <2>10
<1> QED BY <1>1, <1>2

-----------------------------------------------------------------------------
(***************************************************************************)
(* What the decoder of series ids makes of a literal, in that arithmetic.  *)
(***************************************************************************)
LEMMA DigitsAreNumbers == \A ds \in Seq(Digit) : ds \in Seq(Nat)
BY WidthAssumption DEF Digit

LEMMA LiteralParts ==
  ASSUME NEW lit \in NumberLiteral
  PROVE  /\ lit.form = "number" /\ lit.neg \in BOOLEAN
         /\ lit.int \in Numeral /\ (lit.int[1] = 0 => Len(lit.int) = 1)
         /\ Digits(lit) \in Seq(Digit) /\ Digits(lit) \in Seq(Nat)
         /\ Exponent(lit) \in Int /\ Len(lit.frac) \in Nat
         /\ Shift(lit) = Exponent(lit) - Len(lit.frac) /\ Shift(lit) \in Int
         /\ Len(Digits(lit)) \in Nat /\ Len(lit.frac) < Len(Digits(lit))
         /\ MantissaLen(lit) \in Nat /\ Len(Digits(lit)) <= MantissaLen(lit)
<1>1. /\ lit.form = "number" /\ lit.neg \in BOOLEAN
      /\ lit.int \in Seq(Digit) /\ lit.int # <<>> /\ lit.frac \in Seq(Digit)
      /\ lit.int \in Numeral /\ (lit.int[1] = 0 => Len(lit.int) = 1)
      /\ lit.exp \in Int \cup {NoExponent}
  BY DEF NumberLiteral, Spelling, Numeral
<1>2. Len(lit.int) \in Nat /\ Len(lit.int) # 0 /\ Len(lit.frac) \in Nat
  BY <1>1, EmptySeq
<1>3. Digits(lit) \in Seq(Digit) /\ Len(Digits(lit)) = Len(lit.int) + Len(lit.frac)
  BY <1>1, ConcatProperties DEF Digits
<1>4. Digits(lit) \in Seq(Nat)
  BY <1>3, DigitsAreNumbers
<1>5. Exponent(lit) \in Int
  BY <1>1 DEF Exponent
<1>6. Shift(lit) = Exponent(lit) - Len(lit.frac) /\ Shift(lit) \in Int
  BY <1>2, <1>5 DEF Shift
<1>7. MantissaLen(lit) \in Nat /\ Len(lit.int) + Len(lit.frac) <= MantissaLen(lit)
  <2> DEFINE sign  == IF lit.neg THEN 1 ELSE 0
             point == IF lit.frac = <<>> THEN 0 ELSE 1 + Len(lit.frac)
  <2>1. sign \in Nat
    OBVIOUS
  <2>2. point \in Nat /\ Len(lit.frac) <= point
    <3>1. lit.frac = <<>> => Len(lit.frac) = 0
      OBVIOUS
    <3> QED BY <1>2, <3>1
  <2>3. MantissaLen(lit) = sign + Len(lit.int) + point
    BY DEF MantissaLen
  <2> HIDE DEF sign, point
  <2>4. \A a, b, c, f \in Nat : f <= c => a + b + c \in Nat /\ b + f <= a + b + c
    OBVIOUS
  <2>5. /\ sign + Len(lit.int) + point \in Nat
        /\ Len(lit.int) + Len(lit.frac) <= sign + Len(lit.int) + point
    BY <1>2, <2>1, <2>2, <2>4
  <2> QED BY <2>3, <2>5
<1>8. Len(Digits(lit)) \in Nat /\ Len(lit.frac) < Len(Digits(lit)) /\ Len(Digits(lit)) <= MantissaLen(lit)
  <2>1. \A a, b \in Nat : a # 0 => a + b \in Nat /\ b < a + b
    OBVIOUS
  <2>2. Len(lit.int) + Len(lit.frac) \in Nat /\ Len(lit.frac) < Len(lit.int) + Len(lit.frac)
    BY <1>2, <2>1
  <2> QED BY <1>3, <1>7, <2>2
<1> QED BY <1>1, <1>2, <1>3, <1>4, <1>5, <1>6, <1>7, <1>8, Zenon

LEMMA NotZeroBelow ==
  ASSUME NEW ds \in Seq(Digit), ~AllZero(ds), NEW n \in Nat, Len(ds) <= n
  PROVE  Number(ds) \in Nat /\ 0 < Number(ds) /\ Number(ds) < Power(n)
<1>1. ds \in Seq(Nat) /\ Len(ds) \in Nat
  BY WidthAssumption DEF Digit
<1>2. Number(ds) \in Nat /\ Power(n) \in Nat /\ Power(Len(ds)) \in Nat
  BY <1>1, NumberType
<1>3. Number(ds) # 0
  BY <1>1, NumberPositive
<1>4. Number(ds) < Power(Len(ds)) /\ Power(Len(ds)) <= Power(n)
  BY <1>1, NumberBelow, PowerGrows
<1> QED BY <1>2, <1>3, <1>4

\* The places behind the shifted point are what is left when the power divides.
LEMMA Remainder ==
  ASSUME NEW ds \in Seq(Digit), NEW n \in Nat
  PROVE  LET k == Len(ds) - n
             zero == \A i \in DOMAIN ds : i > k => ds[i] = 0
         IN  /\ zero /\ ~AllZero(ds) =>
                  k \in 1 .. Len(ds) /\ Number(ds) = Number(SubSeq(ds, 1, k)) * Power(n)
             /\ ~zero => \E q, r \in Nat :
                  Number(ds) = q * Power(n) + r /\ 0 < r /\ r < Power(n)
<1> DEFINE k    == Len(ds) - n
           zero == \A i \in DOMAIN ds : i > k => ds[i] = 0
           x    == SubSeq(ds, 1, k)
           y    == SubSeq(ds, k + 1, Len(ds))
<1>0. Len(ds) \in Nat /\ DOMAIN ds = 1 .. Len(ds) /\ k \in Int /\ Digit \subseteq Nat /\ ds \in Seq(Nat)
  BY WidthAssumption DEF Digit
<1>1. ASSUME k >= 0
      PROVE  /\ x \in Seq(Digit) /\ x \in Seq(Nat) /\ y \in Seq(Digit) /\ y \in Seq(Nat) /\ Len(y) = n
             /\ zero <=> AllZero(y)
             /\ Number(ds) = Number(x) * Power(n) + Number(y)
  <2>1. k \in 0 .. Len(ds) /\ Len(ds) - k = n
    BY <1>0, <1>1
  <2> HIDE DEF k
  <2>2. /\ x \in Seq(Digit) /\ y \in Seq(Digit) /\ Len(y) = n /\ ds = x \o y
        /\ \A i \in 1 .. n : y[i] = ds[k + i]
    BY <2>1, SplitAt
  <2>3. x \in Seq(Nat) /\ y \in Seq(Nat)
    BY <2>2, DigitsAreNumbers
  <2> HIDE DEF x, y
  <2>4. Number(ds) = Number(x) * Power(n) + Number(y)
    BY <2>2, <2>3, NumberConcat
  <2>5. DOMAIN y = 1 .. n
    BY <2>2
  <2>6. zero <=> AllZero(y)
    <3>1. ASSUME zero, NEW i \in 1 .. n PROVE y[i] = 0
      <4>1. k + i \in 1 .. Len(ds) /\ k + i > k
        BY <1>0, <2>1
      <4> QED BY <1>0, <2>2, <3>1, <4>1
    <3>2. ASSUME AllZero(y), NEW i \in 1 .. Len(ds), i > k PROVE ds[i] = 0
      <4>1. i - k \in 1 .. n /\ k + (i - k) = i
        BY <1>0, <2>1, <3>2
      <4> QED BY <2>2, <2>5, <3>2, <4>1 DEF AllZero
    <3> QED BY <1>0, <2>5, <3>1, <3>2 DEF AllZero
  <2> QED BY <2>2, <2>3, <2>4, <2>6
<1>2. ASSUME zero, ~AllZero(ds)
      PROVE  k \in 1 .. Len(ds) /\ Number(ds) = Number(x) * Power(n)
  <2>1. k >= 1
    <3>1. PICK i \in 1 .. Len(ds) : ds[i] # 0
      BY <1>0, <1>2 DEF AllZero
    <3>2. ~(i > k)
      BY <1>0, <1>2, <3>1
    <3> QED BY <1>0, <3>2
  <2>2. k \in 1 .. Len(ds) /\ k >= 0
    BY <1>0, <2>1
  <2> HIDE DEF x, y, k, zero
  <2>3. Number(y) = 0 /\ Number(ds) = Number(x) * Power(n) + Number(y)
    BY <1>1, <1>2, <2>2, NumberZero
  <2>4. Number(x) * Power(n) \in Nat
    <3>1. Number(x) \in Nat /\ Power(n) \in Nat
      BY <1>1, <2>2, NumberType
    <3> QED BY <3>1
  <2> QED BY <2>2, <2>3, <2>4
<1>3. ASSUME ~zero
      PROVE  \E q, r \in Nat : Number(ds) = q * Power(n) + r /\ 0 < r /\ r < Power(n)
  <2>1. CASE k >= 0
    <3> HIDE DEF x, y, k, zero
    <3>1. Number(x) \in Nat /\ Number(ds) = Number(x) * Power(n) + Number(y)
      BY <1>1, <2>1, NumberType
    <3>2. Number(y) \in Nat /\ 0 < Number(y) /\ Number(y) < Power(n)
      BY <1>1, <1>3, <2>1, NotZeroBelow
    <3> QED BY <3>1, <3>2
  <2>2. CASE k < 0
    <3>1. ~AllZero(ds) /\ Len(ds) <= n
      BY <1>0, <1>3, <2>2 DEF AllZero
    <3>2. Number(ds) \in Nat /\ 0 < Number(ds) /\ Number(ds) < Power(n)
      BY <3>1, NotZeroBelow
    <3>3. Number(ds) = 0 * Power(n) + Number(ds)
      BY <3>2, NumberType
    <3> QED BY <3>2, <3>3
  <2> QED BY <1>0, <2>1, <2>2
<1> QED BY <1>2, <1>3

\* A positive exponent and the digits after the point together make up the shift.
LEMMA DenotesShift ==
  ASSUME NEW lit \in NumberLiteral, NEW ds \in Seq(Nat), lit.neg => Number(Digits(lit)) = 0,
         \/ Shift(lit) >= 0 /\ Number(ds) = Number(Digits(lit)) * Power(Shift(lit))
         \/ Shift(lit) <= 0 /\ Number(Digits(lit)) = Number(ds) * Power(-Shift(lit))
  PROVE  Denotes(ds, lit)
<1> DEFINE e == Exponent(lit)
           l == Len(lit.frac) + (IF e < 0 THEN -e ELSE 0)
           r == IF e > 0 THEN e ELSE 0
           N == Number(Digits(lit))
           M == Number(ds)
<1>1. e \in Int /\ Len(lit.frac) \in Nat /\ Shift(lit) = e - Len(lit.frac)
  BY LiteralParts
<1>2. l \in Nat /\ r \in Nat /\ Shift(lit) = r - l
  BY <1>1
<1>3. N \in Nat /\ M \in Nat
  BY LiteralParts, NumberType
<1>4. \A a, b, c \in Nat : (a * b) * c = a * (b * c) /\ (a * b) * c = (a * c) * b
  OBVIOUS
<1>5. Denotes(ds, lit) <=> (lit.neg => N = 0) /\ M * Power(l) = N * Power(r)
  BY DEF Denotes
<1> HIDE DEF e, l, r, N, M
<1>6. CASE Shift(lit) >= 0 /\ M = N * Power(Shift(lit))
  <2>1. Shift(lit) \in Nat /\ r = Shift(lit) + l
    BY <1>2, <1>6
  <2>2. Power(r) = Power(Shift(lit)) * Power(l) /\ Power(l) \in Nat /\ Power(Shift(lit)) \in Nat
    BY <1>2, <2>1, PowerSum, NumberType
  <2>3. M * Power(l) = N * Power(r)
    BY <1>3, <1>4, <1>6, <2>2
  <2> QED BY <1>5, <2>3 DEF N
<1>7. CASE Shift(lit) <= 0 /\ N = M * Power(-Shift(lit))
  <2>1. -Shift(lit) \in Nat /\ l = -Shift(lit) + r
    BY <1>2, <1>7
  <2>2. Power(l) = Power(-Shift(lit)) * Power(r) /\ Power(r) \in Nat /\ Power(-Shift(lit)) \in Nat
    BY <1>2, <2>1, PowerSum, NumberType
  <2>3. M * Power(l) = N * Power(r)
    BY <1>3, <1>4, <1>7, <2>2
  <2> QED BY <1>5, <2>3 DEF N
<1> QED BY <1>6, <1>7 DEF N, M

LEMMA DecodedDenotes ==
  ASSUME NEW lit \in NumberLiteral, UnmarshalSeriesID(lit) # Refused
  PROVE  /\ Denotes(UnmarshalSeriesID(lit), lit)
         /\ UnmarshalSeriesID(lit)[1] = 0 => Len(UnmarshalSeriesID(lit)) = 1
<1> DEFINE D == Digits(lit)
           s == Shift(lit)
<1>1. /\ lit.form = "number" /\ D \in Seq(Digit) /\ D \in Seq(Nat) /\ s \in Int
      /\ Number(D) \in Nat /\ Power(0) = 1
  BY LiteralParts, NumberType, PowerZero
<1>2. CASE SeriesIDDigits(lit)
  <2>1. UnmarshalSeriesID(lit) = lit.int
    BY <1>1, <1>2 DEF UnmarshalSeriesID
  <2>2. ~lit.neg /\ lit.frac = <<>> /\ Exponent(lit) = 0 /\ s = 0
    <3>1. ~lit.neg /\ lit.frac = <<>> /\ Exponent(lit) = 0
      BY <1>2 DEF SeriesIDDigits, Exponent
    <3>2. Len(<<>>) = 0 /\ 0 - 0 = 0
      OBVIOUS
    <3>3. s = 0
      BY <3>1, <3>2, LiteralParts
    <3> QED BY <3>1, <3>3
  <2>3. lit.int \in Seq(Nat) /\ (lit.int[1] = 0 => Len(lit.int) = 1)
    BY LiteralParts, DigitsAreNumbers DEF Numeral
  <2>4. D = lit.int
    BY <2>2, <2>3 DEF Digits
  <2>5. Number(lit.int) = Number(D) * Power(s)
    BY <1>1, <2>2, <2>4
  <2>6. Denotes(lit.int, lit)
    <3> HIDE DEF D, s
    <3> QED BY <1>1, <2>2, <2>3, <2>5, DenotesShift DEF D, s
  <2> QED BY <2>1, <2>3, <2>6
<1>3. CASE ~SeriesIDDigits(lit)
  <2>1. /\ IsInt(lit) /\ (lit.neg => SeriesIDMantissaIsZero(lit))
        /\ UnmarshalSeriesID(lit) = RatString(lit)
    BY <1>1, <1>3 DEF UnmarshalSeriesID
  <2>2. lit.neg => Number(D) = 0
    BY <1>1, <2>1, NumberZero DEF SeriesIDMantissaIsZero
  <2>3. ASSUME NEW ds \in Seq(Digit), RatString(lit) = Canonical(ds),
               \/ s >= 0 /\ Number(ds) = Number(D) * Power(s)
               \/ s <= 0 /\ Number(D) = Number(ds) * Power(-s)
        PROVE  Denotes(RatString(lit), lit) /\ (RatString(lit)[1] = 0 => Len(RatString(lit)) = 1)
    <3> DEFINE c == Canonical(ds)
    <3>1. c \in Seq(Nat)
      BY CanonicalType, DigitsAreNumbers DEF Numeral
    <3>2. Number(c) = Number(ds) /\ (c[1] = 0 => Len(c) = 1)
      BY CanonicalIs
    <3> HIDE DEF c
    <3>3. Denotes(c, lit)
      BY <2>2, <2>3, <3>1, <3>2, DenotesShift
    <3> QED BY <2>3, <3>2, <3>3 DEF c
  <2>4. CASE AllZero(D)
    <3> DEFINE z == <<0>>
    <3>1. RatString(lit) = z
      BY <2>4 DEF RatString, SeriesIDMantissaIsZero
    <3>2. z \in Seq(Nat) /\ AllZero(z) /\ Len(z) = 1
      BY DEF AllZero
    <3> HIDE DEF z
    <3>3. Number(z) = 0 /\ Number(D) = 0
      BY <1>1, <2>4, <3>2, NumberZero
    <3>4. Denotes(z, lit)
      <4>1. CASE s >= 0
        <5>1. Number(z) = Number(D) * Power(s)
          BY <1>1, <3>3, <4>1, NumberType
        <5> QED BY <2>2, <3>2, <4>1, <5>1, DenotesShift
      <4>2. CASE s <= 0
        <5>1. Number(D) = Number(z) * Power(-s)
          <6>1. -s \in Nat
            BY <1>1, <4>2
          <6> QED BY <3>3, <6>1, NumberType
        <5> QED BY <2>2, <3>2, <4>2, <5>1, DenotesShift
      <4> QED BY <1>1, <4>1, <4>2
    <3> QED BY <2>1, <3>1, <3>2, <3>4
  <2>5. CASE ~AllZero(D) /\ s >= 0
    <3> DEFINE ds == D \o Zeros(s)
    <3>1. s \in Nat
      BY <1>1, <2>5
    <3>2. RatString(lit) = Canonical(ds)
      BY <2>5 DEF RatString, SeriesIDMantissaIsZero
    <3>3. /\ Zeros(s) \in Seq(Digit) /\ Zeros(s) \in Seq(Nat) /\ Len(Zeros(s)) = s
          /\ AllZero(Zeros(s))
      BY <3>1, ZerosAre DEF AllZero
    <3>4. ds \in Seq(Digit)
      BY <1>1, <3>3, ConcatProperties
    <3>5. Number(ds) = Number(D) * Power(s) + 0
      BY <1>1, <3>3, NumberConcat, NumberZero
    <3>6. Number(D) * Power(s) \in Nat
      <4>1. Power(s) \in Nat
        BY <3>1, NumberType
      <4> QED BY <1>1, <4>1
    <3>7. Number(ds) = Number(D) * Power(s)
      BY <3>5, <3>6
    <3> HIDE DEF ds
    <3> QED BY <2>1, <2>3, <2>5, <3>2, <3>4, <3>7
  <2>6. CASE ~AllZero(D) /\ s < 0
    <3> DEFINE n  == -s
               k  == Len(D) - n
               ds == SubSeq(D, 1, Len(D) + s)
    <3>1. n \in Nat /\ Len(D) \in Nat /\ k = Len(D) + s
      BY <1>1, <2>6
    <3>2. RatString(lit) = Canonical(ds)
      BY <1>1, <2>6 DEF RatString, SeriesIDMantissaIsZero
    <3>3. \A i \in DOMAIN D : i > k => D[i] = 0
      BY <2>1, <3>1 DEF IsInt
    <3>4. ds = SubSeq(D, 1, k)
      BY <3>1
    <3> HIDE DEF D, n, ds
    <3>5. k \in 1 .. Len(D) /\ Number(D) = Number(SubSeq(D, 1, k)) * Power(n)
      BY <1>1, <2>6, <3>1, <3>3, Remainder
    <3>6. SubSeq(D, 1, k) \in Seq(Digit)
      <4> HIDE DEF k
      <4>1. k \in 0 .. Len(D)
        BY <3>1, <3>5
      <4> QED BY <1>1, <4>1, SplitAt
    <3>7. Number(D) = Number(ds) * Power(-s) /\ ds \in Seq(Digit)
      BY <3>4, <3>5, <3>6 DEF n
    <3> QED BY <1>1, <2>1, <2>3, <2>6, <3>2, <3>7
  <2> QED BY <1>1, <2>4, <2>5, <2>6
<1> QED BY <1>2, <1>3

\* A sum of naturals that is an int does not wrap around.
LEMMA WrapBelow ==
  ASSUME NEW n \in Nat, n <= MaxInt
  PROVE  Wrap(n) = n
<1>1. \A a, b \in Nat : a < b => a % b = a
  OBVIOUS
<1>2. MaxInt \in Nat /\ n <= MaxInt
  BY WidthAssumption
<1>3. (n - MinInt) % (2 * (MaxInt + 1)) = n - MinInt
  <2> DEFINE a == n - MinInt
             b == 2 * (MaxInt + 1)
  <2>1. a \in Nat /\ b \in Nat /\ a < b
    BY <1>2 DEF MinInt
  <2> HIDE DEF a, b
  <2>2. a % b = a
    BY <1>1, <2>1
  <2> QED BY <2>2 DEF a, b
<1>4. (n - MinInt) + MinInt = n
  BY <1>2 DEF MinInt
<1> QED BY <1>3, <1>4 DEF Wrap

LEMMA NotDivisible ==
  ASSUME NEW q \in Nat, NEW r \in Nat, NEW b \in Nat, 0 < r, r < b
  PROVE  (q * b + r) % b # 0
<1>1. (q * b + r) % b = r
  OBVIOUS
<1> QED BY <1>1

LEMMA RefusedHasCause ==
  ASSUME NEW lit \in NumberLiteral, UnmarshalSeriesID(lit) = Refused
  PROVE  RefusedForCause(lit)
<1> DEFINE D == Digits(lit)
           N == Number(D)
           e == Exponent(lit)
           f == Len(lit.frac)
           s == Shift(lit)
<1>1. /\ lit.form = "number" /\ D \in Seq(Digit) /\ D \in Seq(Nat) /\ e \in Int /\ f \in Nat
      /\ s = e - f /\ s \in Int /\ N \in Nat
      /\ Len(D) \in Nat /\ f < Len(D) /\ MantissaLen(lit) \in Nat /\ Len(D) <= MantissaLen(lit)
      /\ MaxSeriesIDDigits \in Nat
  BY LiteralParts, NumberType, WidthAssumption
<1>2. ~(/\ SeriesIDWithinDigitBound(lit) /\ IsInt(lit) /\ (lit.neg => SeriesIDMantissaIsZero(lit)))
  <2>1. RatString(lit) # Refused /\ lit.int # Refused
    <3>1. Refused \notin Numeral
      <4>1. Refused \notin Seq(Digit)
        BY WidthAssumption, DigitsAreNumbers
      <4> QED BY <4>1 DEF Numeral
    <3> QED BY <3>1, LiteralParts, RatStringType
  <2> QED BY <1>1, <2>1 DEF UnmarshalSeriesID
<1>3. ASSUME e \in MinInt .. MaxInt PROVE ~AllZero(D) /\ N # 0
  <2>1. ~AllZero(D)
    <3> SUFFICES ASSUME AllZero(D) PROVE FALSE
      OBVIOUS
    <3>1. SeriesIDMantissaIsZero(lit) /\ SeriesIDWithinDigitBound(lit)
      BY <1>3 DEF SeriesIDMantissaIsZero, SeriesIDWithinDigitBound
    <3>2. IsInt(lit)
      BY DEF IsInt, AllZero
    <3> QED BY <1>2, <3>1, <3>2
  <2>2. N \in Nat /\ 0 < N
    <3> DEFINE k == Len(D)
    <3>1. k \in Nat /\ Len(D) <= k
      BY <1>1
    <3> HIDE DEF D, k
    <3> QED BY <1>1, <2>1, <3>1, NotZeroBelow
  <2> QED BY <2>1, <2>2
<1>4. CASE e \notin MinInt .. MaxInt
  BY <1>4 DEF RefusedForCause
\* What is left of the number behind the point makes the division fail.
<1>8. CASE lit.neg /\ e \in MinInt .. MaxInt
  BY <1>3, <1>8 DEF RefusedForCause
<1>5. ASSUME e \in MinInt .. MaxInt, NEW q \in Nat, NEW r \in Nat, NEW n \in Nat,
             n = f - e, N = q * Power(n) + r, 0 < r, r < Power(n)
      PROVE  RefusedForCause(lit)
  <2>1. CASE e < 0
    <3>1. Power(n) \in Nat
      BY NumberType
    <3>2. N % Power(n) # 0
      <4> HIDE DEF N
      <4> QED BY <1>5, <3>1, NotDivisible
    <3> QED BY <1>3, <1>5, <2>1, <3>2 DEF RefusedForCause
  <2>2. CASE e >= 0
    <3>1. e \in Nat /\ f = n + e
      BY <1>1, <1>5, <2>2
    <3> HIDE DEF N, e, f
    <3>2. /\ Power(f) = Power(n) * Power(e)
          /\ Power(n) \in Nat /\ Power(e) \in Nat /\ Power(f) \in Nat /\ 1 <= Power(e)
      <4>1. Power(n + e) = Power(n) * Power(e)
        BY <3>1, PowerSum
      <4>2. 1 <= Power(e)
        <5>1. e <= e
          BY <3>1
        <5> QED BY <3>1, <5>1, PowerGrows
      <4> QED BY <1>1, <3>1, <4>1, <4>2, NumberType
    <3>3. \A a, b, c, d \in Nat :
            1 <= c => /\ (a * b + d) * c = a * (b * c) + d * c /\ d * c \in Nat
                      /\ 0 < d => 0 < d * c
                      /\ d < b => d * c < b * c
      <4> TAKE a, b, c, d \in Nat
      <4> HAVE 1 <= c
      <4>1. (a * b + d) * c = (a * b) * c + d * c /\ (a * b) * c = a * (b * c) /\ d * c \in Nat
        OBVIOUS
      <4>2. 0 < d => 0 < d * c
        OBVIOUS
      <4>3. d < b => d * c < b * c
        <5>1. b * c = d * c + (b - d) * c
          OBVIOUS
        <5>2. d < b => 0 < (b - d) * c
          OBVIOUS
        <5>3. (b - d) * c \in Int /\ b * c \in Int
          OBVIOUS
        <5> QED BY <4>1, <5>1, <5>2, <5>3
      <4> QED BY <4>1, <4>2, <4>3
    <3>4. N * Power(e) = q * Power(f) + r * Power(e) /\ r * Power(e) \in Nat
      BY <1>5, <3>2, <3>3
    <3>5. 0 < r * Power(e) /\ r * Power(e) < Power(f) /\ Power(f) \in Nat
      <4>1. 0 < r * Power(e)
        BY <1>5, <3>2, <3>3
      <4>2. r * Power(e) < Power(n) * Power(e)
        BY <1>5, <3>2, <3>3
      <4> QED BY <3>2, <4>1, <4>2
    <3>6. (N * Power(e)) % Power(f) # 0
      BY <3>4, <3>5, NotDivisible
    <3> QED BY <1>3, <1>5, <2>2, <3>6 DEF RefusedForCause, N, D, e, f
  <2> QED BY <1>1, <2>1, <2>2
<1>6. CASE ~IsInt(lit) /\ e \in MinInt .. MaxInt
  <2> DEFINE n == f - e
             k == Len(D) - n
  <2>1. k = Len(D) + s
    BY <1>1
  <2>2. ~(\A i \in DOMAIN D : i > k => D[i] = 0)
    BY <1>6, <2>1 DEF IsInt
  <2>3. n \in Nat
    <3>1. PICK i \in DOMAIN D : i > k
      BY <2>2
    <3>2. i \in 1 .. Len(D)
      BY <1>1
    <3> HIDE DEF D
    <3> QED BY <1>1, <3>1, <3>2
  <2> HIDE DEF D, n
  <2>4. \E q, r \in Nat : Number(D) = q * Power(n) + r /\ 0 < r /\ r < Power(n)
    BY <1>1, <2>2, <2>3, Remainder
  <2> QED BY <1>5, <1>6, <2>3, <2>4 DEF n
<1>7. CASE ~SeriesIDWithinDigitBound(lit) /\ ~lit.neg /\ e \in MinInt .. MaxInt
  <2>1. ~AllZero(D) /\ N # 0
    BY <1>3, <1>7
  <2>2. CASE e >= 0
    <3>1. ~(e <= MaxSeriesIDDigits /\ Wrap(MantissaLen(lit) + e) <= MaxSeriesIDDigits)
      BY <1>7, <2>2 DEF SeriesIDWithinDigitBound
    <3>2. MantissaLen(lit) + e \in Nat /\ e <= MantissaLen(lit) + e
      BY <1>1, <2>2
    <3>3. MantissaLen(lit) + e > MaxSeriesIDDigits
      <4> SUFFICES ASSUME MantissaLen(lit) + e <= MaxSeriesIDDigits PROVE FALSE
        BY <1>1, <3>2
      <4> DEFINE t == MantissaLen(lit) + e
      <4>1. t \in Nat /\ t <= MaxInt /\ t <= MaxSeriesIDDigits /\ e <= MaxSeriesIDDigits
        BY <1>1, <3>2, WidthAssumption
      <4> HIDE DEF t
      <4>2. Wrap(t) = t
        BY <4>1, WrapBelow
      <4> QED BY <3>1, <4>1, <4>2 DEF t
    <3>4. (IF e > 0 THEN e ELSE 0) = e
      BY <1>1, <2>2
    <3> QED BY <2>1, <3>3, <3>4 DEF RefusedForCause
  <2>3. CASE e < 0
    <3>1. MantissaLen(lit) > MaxSeriesIDDigits \/ e < -MaxSeriesIDDigits
      BY <1>1, <1>7, <2>3 DEF SeriesIDWithinDigitBound
    <3>2. CASE MantissaLen(lit) > MaxSeriesIDDigits
      <4>1. MantissaLen(lit) + (IF e > 0 THEN e ELSE 0) > MaxSeriesIDDigits
        BY <1>1, <2>3, <3>2
      <4> QED BY <2>1, <4>1 DEF RefusedForCause
    <3>3. CASE MantissaLen(lit) <= MaxSeriesIDDigits /\ e < -MaxSeriesIDDigits
      <4> DEFINE n == f - e
      <4>1. n \in Nat /\ Len(D) <= n
        BY <1>1, <3>3
      <4> HIDE DEF D, n
      <4>2. N \in Nat /\ 0 < N /\ N < Power(n)
        BY <1>1, <2>1, <4>1, NotZeroBelow
      <4>3. N = 0 * Power(n) + N
        BY <4>1, <4>2, NumberType
      <4> QED BY <1>5, <1>7, <4>1, <4>2, <4>3 DEF n
    <3> QED BY <1>1, <3>1, <3>2, <3>3
  <2> QED BY <1>1, <2>2, <2>3
<1> QED BY <1>2, <1>4, <1>6, <1>7, <1>8

LEMMA LastOfIs ==
  ASSUME NEW n \in Nat, NEW S \in SUBSET (1 .. n), NEW i \in S, \A j \in S : j <= i
  PROVE  LastOf(S) = i
<1>1. \A k \in S : (\A j \in S : j <= k) => k = i
  OBVIOUS
<1> QED
  BY <1>1 DEF LastOf

LEMMA LastOfExists ==
  ASSUME NEW n \in Nat, NEW S \in SUBSET (1 .. n), S # {}
  PROVE  LastOf(S) \in S /\ \A j \in S : j <= LastOf(S)
<1> DEFINE T == {n - i : i \in S}
<1>1. PICK m \in T : \A k \in T : m <= k
  <2>1. \A i \in S : n - i \in Nat
    OBVIOUS
  <2>2. PICK i \in S : TRUE
    OBVIOUS
  <2>3. n - i \in T
    BY <2>2
  <2>4. T \in SUBSET Nat /\ T # {}
    BY <2>1, <2>3
  <2> QED BY <2>4, LeastExists
<1>2. PICK i \in S : m = n - i
  BY <1>1
<1>3. \A j \in S : n - j \in T
  OBVIOUS
<1>4. \A j \in S : j <= i
  <2> TAKE j \in S
  <2>1. n - i <= n - j
    BY <1>1, <1>2, <1>3
  <2> QED BY <2>1
<1> QED
  BY <1>2, <1>4 DEF LastOf

-----------------------------------------------------------------------------
(***************************************************************************)
(* The fields.                                                             *)
(***************************************************************************)
LEMMA Fields ==
  /\ Raw \subseteq InMemory /\ Pointer \subseteq InMemory /\ InMemory \subseteq Field
  /\ Exact \subseteq Field /\ Exact \cap InMemory = {} /\ "title" \in Field
  /\ "title" \notin Exact \cup InMemory /\ Raw \cap Pointer = {}
  /\ InMemory = Raw \cup Pointer /\ Field = {"title"} \cup Exact \cup InMemory
BY DEF Raw, Pointer, InMemory, Field, Exact

LEMMA HeldIs ==
  /\ Held["title"] = Text /\ Held["displayAt"] = Text \cup {Nil}
  /\ Held["display"] = DisplayPrefs \cup {Nil} /\ Held["provenance"] = Numeral \cup {Nil}
  /\ Held["override"] = DisplayPrefs \cup {Nil, Null, Malformed}
  /\ Held["inlineManifest"] = DisplayControls \cup {Nil, Null, Malformed}
  /\ \A f \in Exact : Held[f] = Label \cup {Nil}
<1> USE DEF Field, Exact, Raw, Pointer
<1>1. Held["title"] = Text /\ Held["displayAt"] = Text \cup {Nil}
  BY DEF Held
<1>2. Held["display"] = DisplayPrefs \cup {Nil} /\ Held["provenance"] = Numeral \cup {Nil}
  BY DEF Held
<1>3. Held["override"] = DisplayPrefs \cup {Nil, Null, Malformed}
  BY DEF Held
<1>4. Held["inlineManifest"] = DisplayControls \cup {Nil, Null, Malformed}
  BY DEF Held
<1>5. Held["contentRating"] = Label \cup {Nil} /\ Held["contentReasons"] = Label \cup {Nil}
  BY DEF Held
<1> QED
  BY <1>1, <1>2, <1>3, <1>4, <1>5

LEMMA TypeableIs ==
  /\ Typeable["title"] = Text /\ Typeable["displayAt"] = Text
  /\ Typeable["display"] = DisplayPrefs /\ Typeable["provenance"] = Literal
  /\ Typeable["override"] = DisplayPrefs \cup {Null, Malformed}
  /\ Typeable["inlineManifest"] = DisplayControls \cup {Null, Malformed}
  /\ \A f \in Exact : Typeable[f] = Label
<1> USE DEF Field, Exact, Raw, Pointer
<1>1. Typeable["title"] = Text /\ Typeable["displayAt"] = Text
  BY DEF Typeable
<1>2. Typeable["display"] = DisplayPrefs /\ Typeable["provenance"] = Literal
  BY DEF Typeable
<1>3. Typeable["override"] = DisplayPrefs \cup {Null, Malformed}
  BY DEF Typeable
<1>4. Typeable["inlineManifest"] = DisplayControls \cup {Null, Malformed}
  BY DEF Typeable
<1>5. Typeable["contentRating"] = Label /\ Typeable["contentReasons"] = Label
  BY DEF Typeable
<1> QED
  BY <1>1, <1>2, <1>3, <1>4, <1>5

LEMMA Values ==
  /\ Nil \notin Text \cup DisplayPrefs \cup DisplayControls \cup Numeral \cup Label
  /\ Null \notin Text \cup DisplayPrefs \cup Literal
  /\ Nil # Malformed /\ Nil # Null /\ Mismatch # Null
  /\ Mismatch \notin Text \cup DisplayPrefs \cup Literal
<1>1. \A f \in Field : Nil \notin Typeable[f] /\ Mismatch \notin Typeable[f]
  BY DocumentAssumption
<1>2. \A f \in Field \ Raw : Null \notin Typeable[f]
  BY DocumentAssumption
<1>3. {"title", "display", "displayAt", "provenance"} \subseteq Field \ Raw
  BY DEF Field, Raw, Pointer, Exact
<1>4. "override" \in Field /\ "inlineManifest" \in Field /\ "contentRating" \in Exact \cap Field
  BY DEF Field, Raw, Pointer, Exact
<1>5. Nil # Malformed /\ Nil # Null /\ Nil \notin DisplayControls \cup Label
  BY <1>1, <1>4, TypeableIs
<1>6. /\ Nil \notin Text \cup DisplayPrefs /\ Null \notin Text \cup DisplayPrefs \cup Literal
      /\ Mismatch \notin Text \cup DisplayPrefs \cup Literal
  BY <1>1, <1>2, <1>3, TypeableIs
<1> QED
  BY <1>5, <1>6, DocumentAssumption

LEMMA EmptyDisplayType == EmptyDisplay \in DisplayPrefs
BY DEF EmptyDisplay, DisplayPrefs, Optional, NoOverrides

LEMMA ParsedType ==
  ASSUME NEW item, item["inlineManifest"] \in Held["inlineManifest"]
  PROVE  ParseInlineManifest(item) \in DisplayControls \cup {Nil, Failure}
BY HeldIs DEF ParseInlineManifest

-----------------------------------------------------------------------------
(***************************************************************************)
(* Decoding.                                                               *)
(***************************************************************************)
IsItem(i) == DOMAIN i = Field /\ \A f \in Field : i[f] \in Held[f]

\* The copy points only to memory that it and the variable have.
DecodingTypes ==
  /\ IsItem(it) /\ IsItem(kept) /\ IsItem(shadow) /\ IsItem(before)
  /\ shared \subseteq InMemory /\ fresh \subseteq InMemory
  /\ failed \in BOOLEAN /\ at \in Nat \ {0} /\ decodes \in 0 .. MaxDecodes
  /\ \A f \in shared : kept[f] # Nil /\ it[f] # Nil
  /\ Len(doc) \in Nat /\ DOMAIN doc = 1 .. Len(doc)
  /\ \A i \in DOMAIN doc : IsMember(doc[i])

\* During a call the variable has what it had, but for what is written in place.
InPlace(f) ==
  /\ f \notin InMemory => it[f] = before[f]
  /\ f \in Exact => shadow[f] = before[f]
  /\ f \in InMemory => (it[f] = Nil <=> before[f] = Nil)
  /\ f \in InMemory \ fresh => (shadow[f] = Nil <=> it[f] = Nil)
  /\ f \in Raw => it[f] \in {before[f], Malformed} \/ \E i \in Members(f) : it[f] = doc[i].value

DecodingInv == DecodingTypes /\ (pc = "members" => \A f \in Field : InPlace(f))

\* What the decoding of a member may do.
OnlyMember(f) ==
  /\ IsItem(it') /\ IsItem(kept') /\ IsItem(shadow')
  /\ \A g \in Field \ {f} :
       /\ it'[g] = it[g] /\ kept'[g] = kept[g] /\ shadow'[g] = shadow[g]
       /\ g \in fresh' <=> g \in fresh
  /\ fresh' \subseteq InMemory
  /\ f \notin InMemory => it'[f] = it[f] /\ kept'[f] = kept[f]
  /\ f \in Exact => shadow'[f] = shadow[f]
  /\ f \in InMemory =>
       /\ it'[f] = Nil <=> it[f] = Nil
       /\ kept'[f] = kept[f] \/ kept'[f] # Nil
       /\ f \notin fresh' => (shadow'[f] = Nil <=> it'[f] = Nil)
  /\ f \in Raw => it'[f] \in {it[f], Malformed, Current.value}
  /\ UNCHANGED <<shared, pc, doc, before, decodes>>
  /\ at' \in Nat \ {0} /\ failed' \in BOOLEAN

LEMMA MemberKeepsInv ==
  ASSUME DecodingInv, More, OnlyMember(Current.field)
  PROVE  DecodingInv'
<1> DEFINE f == Current.field
<1>1. f \in Field /\ at \in DOMAIN doc /\ at \in Members(f)
  BY DEF DecodingInv, DecodingTypes, More, Current, IsMember, Members
<1>2. DecodingTypes'
  <2>1. \A g \in shared' : kept'[g] # Nil /\ it'[g] # Nil
    <3> TAKE g \in shared'
    <3>1. g \in shared /\ g \in Field /\ g \in InMemory
      BY Fields DEF OnlyMember, DecodingInv, DecodingTypes
    <3>2. kept[g] # Nil /\ it[g] # Nil
      BY <3>1 DEF DecodingInv, DecodingTypes
    <3>3. CASE g = f
      <4> HIDE DEF f
      <4> QED BY <3>1, <3>2, <3>3 DEF OnlyMember, f
    <3>4. CASE g # f
      BY <3>1, <3>2, <3>4 DEF OnlyMember
    <3> QED BY <3>3, <3>4
  <2> QED BY <2>1 DEF OnlyMember, DecodingInv, DecodingTypes, IsItem
<1>3. ASSUME pc' = "members", NEW g \in Field PROVE InPlace(g)'
  <2>1. InPlace(g) /\ Members(g)' = Members(g) /\ doc' = doc /\ before' = before
    BY <1>3 DEF DecodingInv, OnlyMember, Members
  <2>2. CASE g # f
    <3>1. it'[g] = it[g] /\ shadow'[g] = shadow[g] /\ (g \in fresh' <=> g \in fresh)
      BY <2>2 DEF OnlyMember
    <3> QED BY <2>1, <3>1 DEF InPlace
  <2>3. CASE g = f
    <3>1. g \notin InMemory => it'[g] = before'[g]
      BY <2>1, <2>3 DEF InPlace, OnlyMember
    <3>2. g \in Exact => shadow'[g] = before'[g]
      BY <2>1, <2>3 DEF InPlace, OnlyMember
    <3>3. g \in InMemory => (it'[g] = Nil <=> before'[g] = Nil)
      BY <2>1, <2>3 DEF InPlace, OnlyMember
    <3>4. g \in InMemory \ fresh' => (shadow'[g] = Nil <=> it'[g] = Nil)
      BY <2>1, <2>3 DEF InPlace, OnlyMember
    <3>5. g \in Raw => it'[g] \in {before'[g], Malformed} \/ \E i \in Members(g)' : it'[g] = doc'[i].value
      <4>1. SUFFICES ASSUME g \in Raw
                     PROVE  it'[g] \in {before[g], Malformed} \/ \E i \in Members(g) : it'[g] = doc[i].value
        BY <2>1
      <4>2. it'[g] \in {it[g], Malformed, Current.value}
        BY <2>3, <4>1 DEF OnlyMember
      <4>3. it[g] \in {before[g], Malformed} \/ \E i \in Members(g) : it[g] = doc[i].value
        BY <2>1, <4>1 DEF InPlace
      <4> QED BY <1>1, <2>3, <4>2, <4>3 DEF Current
    <3> QED BY <3>1, <3>2, <3>3, <3>4, <3>5 DEF InPlace
  <2> QED BY <2>2, <2>3
<1> QED
  BY <1>2, <1>3 DEF DecodingInv

LEMMA ItemExcept ==
  \A i : IsItem(i) => \A f \in Field : \A v \in Held[f] :
    /\ IsItem([i EXCEPT ![f] = v]) /\ [i EXCEPT ![f] = v][f] = v
    /\ \A g \in Field \ {f} : [i EXCEPT ![f] = v][g] = i[g]
BY DEF IsItem

LEMMA StoreIsOnlyMember ==
  ASSUME DecodingInv, More, NEW f, f = Current.field, f \in InMemory, shadow[f] # Nil,
         NEW v \in Held[f] \ {Nil}, NEW seen \in Held[f] \ {Nil}, NEW seenByCopy \in Held[f] \ {Nil},
         f \in Raw => seen \in {Malformed, Current.value},
         Store(f, v, seen, seenByCopy),
         UNCHANGED <<fresh, shared, pc, doc, before, decodes>>, at' \in Nat \ {0}, failed' \in BOOLEAN
  PROVE  OnlyMember(f)
<1>1. f \in Field /\ IsItem(it) /\ IsItem(kept) /\ IsItem(shadow) /\ fresh \subseteq InMemory
  BY Fields DEF DecodingInv, DecodingTypes
<1>2. IsItem(shadow') /\ shadow'[f] = v /\ \A g \in Field \ {f} : shadow'[g] = shadow[g]
  <2>1. shadow' = [shadow EXCEPT ![f] = v]
    BY DEF Store
  <2>2. /\ IsItem([shadow EXCEPT ![f] = v]) /\ [shadow EXCEPT ![f] = v][f] = v
        /\ \A g \in Field \ {f} : [shadow EXCEPT ![f] = v][g] = shadow[g]
    BY <1>1, ItemExcept
  <2> QED BY <2>1, <2>2
<1>3. /\ IsItem(it') /\ \A g \in Field \ {f} : it'[g] = it[g]
      /\ it'[f] = IF f \in fresh THEN it[f] ELSE seen
  BY <1>1, ItemExcept DEF Store
<1>4. IsItem(kept') /\ (\A g \in Field \ {f} : kept'[g] = kept[g]) /\ kept'[f] \in {kept[f], seenByCopy}
  BY <1>1, ItemExcept DEF Store
<1>5. f \notin fresh => it[f] # Nil
  BY <1>1 DEF DecodingInv, InPlace, More
<1>6. f \notin Exact
  BY Fields
<1>7. /\ it'[f] = Nil <=> it[f] = Nil
      /\ kept'[f] = kept[f] \/ kept'[f] # Nil
      /\ f \notin fresh' => (shadow'[f] = Nil <=> it'[f] = Nil)
      /\ f \in Raw => it'[f] \in {it[f], Malformed, Current.value}
  BY <1>2, <1>3, <1>4, <1>5
<1> QED
  BY <1>1, <1>2, <1>3, <1>4, <1>6, <1>7 DEF OnlyMember

LEMMA StoreFreshIsOnlyMember ==
  ASSUME DecodingInv, More, NEW f, f = Current.field, f \in InMemory, NEW v \in Held[f],
         StoreFresh(f, v), UNCHANGED <<shared, pc, doc, before, decodes>>,
         at' \in Nat \ {0}, failed' \in BOOLEAN
  PROVE  OnlyMember(f)
<1>1. f \in Field /\ IsItem(it) /\ IsItem(kept) /\ IsItem(shadow) /\ fresh \subseteq InMemory /\ f \notin Exact
  BY Fields DEF DecodingInv, DecodingTypes
<1>2. IsItem(shadow') /\ \A g \in Field \ {f} : shadow'[g] = shadow[g]
  <2>1. shadow' = [shadow EXCEPT ![f] = v]
    BY DEF StoreFresh
  <2>2. /\ IsItem([shadow EXCEPT ![f] = v]) /\ [shadow EXCEPT ![f] = v][f] = v
        /\ \A g \in Field \ {f} : [shadow EXCEPT ![f] = v][g] = shadow[g]
    BY <1>1, ItemExcept
  <2> QED BY <2>1, <2>2
<1>3. it' = it /\ kept' = kept /\ fresh' = fresh \cup {f}
  BY DEF StoreFresh
<1> QED
  BY <1>1, <1>2, <1>3 DEF OnlyMember

LEMMA NothingIsOnlyMember ==
  ASSUME DecodingInv, More,
         UNCHANGED <<it, kept, shadow, fresh, shared, pc, doc, before, decodes>>,
         at' \in Nat \ {0}, failed' \in BOOLEAN
  PROVE  OnlyMember(Current.field)
<1> DEFINE f == Current.field
<1>1. IsItem(it) /\ IsItem(kept) /\ IsItem(shadow) /\ fresh \subseteq InMemory
  BY DEF DecodingInv, DecodingTypes
<1>2. f \in InMemory /\ f \notin fresh => (shadow[f] = Nil <=> it[f] = Nil)
  <2> HIDE DEF f
  <2> QED BY Fields DEF DecodingInv, InPlace, More
<1> HIDE DEF f
<1> QED
  BY <1>1, <1>2 DEF OnlyMember, f

LEMMA CurrentMember ==
  ASSUME DecodingInv, More
  PROVE  /\ Current.field \in Field /\ at \in DOMAIN doc
         /\ \/ Current.value \in Typeable[Current.field]
            \/ Current.field \notin Raw /\ Current.value \in {Null, Mismatch}
         /\ at + 1 \in Nat \ {0} /\ Len(doc) + 1 \in Nat \ {0}
BY DEF DecodingInv, DecodingTypes, More, Current, IsMember

LEMMA DecodePlainStep ==
  ASSUME DecodingInv, DecodePlain
  PROVE  OnlyMember(Current.field)
<1>1. "title" \in Field /\ "title" \notin InMemory /\ "title" \notin Exact /\ "title" \notin Raw
  BY Fields
<1>2. IsItem(it) /\ IsItem(kept) /\ IsItem(shadow) /\ fresh \subseteq InMemory
  BY DEF DecodingInv, DecodingTypes
<1>3. IsItem(shadow') /\ \A g \in Field \ {"title"} : shadow'[g] = shadow[g]
  <2>1. CASE Current.value \in Text
    <3>1. shadow' = [shadow EXCEPT !["title"] = Current.value]
      BY <2>1 DEF DecodePlain
    <3>2. /\ IsItem([shadow EXCEPT !["title"] = Current.value])
          /\ \A g \in Field \ {"title"} : [shadow EXCEPT !["title"] = Current.value][g] = shadow[g]
      BY <1>1, <1>2, <2>1, ItemExcept, HeldIs
    <3> QED BY <3>1, <3>2
  <2>2. CASE Current.value \notin Text
    BY <1>2, <2>2 DEF DecodePlain
  <2> QED BY <2>1, <2>2
<1>4. at' \in Nat \ {0} /\ failed' \in BOOLEAN
  <2>1. failed \in BOOLEAN /\ at \in Nat
    BY DEF DecodingInv, DecodingTypes
  <2> QED BY <2>1 DEF DecodePlain
<1> QED
  BY <1>1, <1>2, <1>3, <1>4 DEF OnlyMember, DecodePlain

LEMMA DecodeSinkStep ==
  ASSUME DecodingInv, DecodeSink
  PROVE  OnlyMember(Current.field)
<1>1. at' \in Nat \ {0} /\ failed' \in BOOLEAN
  BY CurrentMember DEF DecodeSink, DecodingInv, DecodingTypes
<1> QED
  BY <1>1, NothingIsOnlyMember DEF DecodeSink

LEMMA DecodeMismatchStep ==
  ASSUME DecodingInv, DecodeMismatch
  PROVE  OnlyMember(Current.field)
<1>1. at' \in Nat \ {0} /\ failed' \in BOOLEAN
  BY CurrentMember DEF DecodeMismatch
<1> QED
  BY <1>1, NothingIsOnlyMember DEF DecodeMismatch

LEMMA DecodeNullStep ==
  ASSUME DecodingInv, DecodeNull
  PROVE  OnlyMember(Current.field)
<1>1. at' \in Nat \ {0} /\ failed' \in BOOLEAN
  BY CurrentMember DEF DecodeNull, DecodingInv, DecodingTypes
<1>2. Current.field \in InMemory
  BY Fields DEF DecodeNull
<1>3. Nil \in Held[Current.field]
  BY HeldIs DEF DecodeNull, Pointer
<1> QED
  BY <1>1, <1>2, <1>3, StoreFreshIsOnlyMember DEF DecodeNull

LEMMA StorePointerIsOnlyMember ==
  ASSUME DecodingInv, More, NEW f, f = Current.field, f \in Pointer, NEW v \in Held[f] \ {Nil},
         StorePointer(f, v), UNCHANGED <<shared, pc, doc, before, decodes>>,
         at' \in Nat \ {0}, failed' \in BOOLEAN
  PROVE  OnlyMember(f)
<1>1. f \in InMemory /\ f \notin Raw
  BY Fields
<1>2. CASE shadow[f] = Nil
  BY <1>1, <1>2, StoreFreshIsOnlyMember DEF StorePointer
<1>3. CASE shadow[f] # Nil
  BY <1>1, <1>3, StoreIsOnlyMember DEF StorePointer
<1> QED
  BY <1>2, <1>3

LEMMA DecodePointerStep ==
  ASSUME DecodingInv, DecodePointer
  PROVE  OnlyMember(Current.field)
<1> DEFINE f   == Current.field
           cur == IF shadow["display"] = Nil THEN EmptyDisplay ELSE shadow["display"]
           v   == IF f = "displayAt" THEN Current.value ELSE DecodeInto(cur, Current.value)
<1>1. f \in Pointer
  BY DEF DecodePointer, Pointer
<1>2. StorePointer(f, v) /\ More /\ f \in {"displayAt", "display"} /\ Current.value \in Typeable[f]
  BY DEF DecodePointer
<1>3. v \in Held[f] \ {Nil}
  <2>1. CASE f = "displayAt"
    BY <1>2, <2>1, TypeableIs, HeldIs, Values
  <2>2. CASE f # "displayAt"
    <3>1. f = "display" /\ Current.value \in DisplayPrefs
      BY <1>2, <2>2, TypeableIs
    <3>2. cur \in DisplayPrefs
      <4>1. shadow["display"] \in DisplayPrefs \cup {Nil}
        BY HeldIs DEF DecodingInv, DecodingTypes, IsItem, Field, Exact, Raw, Pointer
      <4> QED BY <4>1, EmptyDisplayType
    <3>3. DecodeInto(cur, Current.value) \in DisplayPrefs
      <4> HIDE DEF cur
      <4> QED BY <3>1, <3>2, DecodeIntoType
    <3> HIDE DEF cur
    <3> QED BY <3>1, <3>3, HeldIs, Values
  <2> QED BY <2>1, <2>2
<1>4. at' \in Nat \ {0} /\ failed' \in BOOLEAN
  BY <1>2, CurrentMember DEF DecodePointer, DecodingInv, DecodingTypes
<1>5. UNCHANGED <<shared, pc, doc, before, decodes>>
  BY DEF DecodePointer
<1> HIDE DEF v, f
<1>6. f = Current.field
  BY DEF f
<1> QED
  BY <1>1, <1>2, <1>3, <1>4, <1>5, <1>6, StorePointerIsOnlyMember

LEMMA DecodeProvenanceStep ==
  ASSUME DecodingInv, DecodeProvenance
  PROVE  OnlyMember(Current.field)
<1> DEFINE id == UnmarshalSeriesID(Current.value)
<1>1. id \in Numeral \cup {Refused}
  BY SeriesIDType DEF DecodeProvenance
<1>2. More /\ Current.field = "provenance" /\ UNCHANGED <<shared, pc, doc, before, decodes>>
  BY DEF DecodeProvenance
<1>3. CASE id = Refused
  <2>1. at' \in Nat \ {0} /\ failed' \in BOOLEAN /\ UNCHANGED <<it, kept, shadow, fresh>>
    BY <1>2, <1>3, CurrentMember DEF DecodeProvenance
  <2> QED BY <1>2, <2>1, NothingIsOnlyMember
<1>4. CASE id # Refused
  <2>1. at' = at + 1 /\ StorePointer("provenance", id) /\ failed' = failed
    BY <1>4 DEF DecodeProvenance
  <2>2. at' \in Nat \ {0} /\ failed' \in BOOLEAN
    BY <1>2, <2>1, CurrentMember DEF DecodingInv, DecodingTypes
  <2>3. id \in Held["provenance"] \ {Nil}
    BY <1>1, <1>4, HeldIs, Values
  <2>4. "provenance" \in Pointer
    BY DEF Pointer
  <2> HIDE DEF id
  <2>5. OnlyMember("provenance")
    BY <1>2, <2>1, <2>2, <2>3, <2>4, StorePointerIsOnlyMember
  <2> QED BY <1>2, <2>5
<1> QED
  BY <1>3, <1>4

LEMMA DecodeRawStep ==
  ASSUME DecodingInv, DecodeRaw
  PROVE  OnlyMember(Current.field)
<1> DEFINE f == Current.field
           v == Current.value
<1>1. More /\ f \in Raw /\ f \in InMemory /\ UNCHANGED <<shared, pc, doc, before, decodes>>
  BY Fields DEF DecodeRaw
<1>2. v \in Typeable[f]
  BY <1>1, CurrentMember
<1>3. v \in Held[f] \ {Nil} /\ Malformed \in Held[f] \ {Nil}
  BY <1>1, <1>2, HeldIs, TypeableIs, Values DEF Raw
<1>4. at' \in Nat \ {0} /\ failed' \in BOOLEAN
  BY <1>1, CurrentMember DEF DecodeRaw, DecodingInv, DecodingTypes
<1>5. CASE StoreFresh(f, v)
  <2> HIDE DEF v, f
  <2>1. f = Current.field
    BY DEF f
  <2> QED BY <1>1, <1>3, <1>4, <1>5, <2>1, StoreFreshIsOnlyMember
<1>6. CASE /\ shadow[f] # Nil
           /\ \E seen, seenByCopy \in {v, Malformed} : Store(f, v, seen, seenByCopy)
           /\ UNCHANGED fresh
  <2>1. PICK seen, seenByCopy \in {v, Malformed} : Store(f, v, seen, seenByCopy)
    BY <1>6
  <2>2. seen \in Held[f] \ {Nil} /\ seenByCopy \in Held[f] \ {Nil} /\ seen \in {Malformed, Current.value}
    BY <1>3, <2>1
  <2>3. f = Current.field
    OBVIOUS
  <2> HIDE DEF v, f
  <2> QED BY <1>1, <1>3, <1>4, <1>6, <2>1, <2>2, <2>3, StoreIsOnlyMember
<1> QED
  BY <1>5, <1>6 DEF DecodeRaw

LEMMA MemberStep ==
  ASSUME DecodingInv,
         \/ DecodePlain \/ DecodeSink \/ DecodeNull \/ DecodeMismatch \/ DecodePointer
         \/ DecodeProvenance \/ DecodeRaw
  PROVE  More /\ OnlyMember(Current.field)
<1>1. More
  BY DEF DecodePlain, DecodeSink, DecodeNull, DecodeMismatch, DecodePointer, DecodeProvenance, DecodeRaw
<1> QED
  BY <1>1, DecodePlainStep, DecodeSinkStep, DecodeNullStep, DecodeMismatchStep, DecodePointerStep,
     DecodeProvenanceStep, DecodeRawStep

-----------------------------------------------------------------------------
(***************************************************************************)
(* One layer over another.                                                 *)
(***************************************************************************)
LEMMA ApplyProjections ==
  ASSUME NEW dst \in DisplayPrefs, NEW src \in DisplayControls
  PROVE  LET new == ApplyDisplayJSON(dst, src) IN
         /\ \A s \in Setting : new.plain[s] = Later(dst.plain[s], src.plain[s])
         /\ new.userOverrides = dst.userOverrides
         /\ MouseOf(new) = Later(MouseOf(dst), MouseOf(src))
         /\ KeyboardOf(new) = Typed(KeyboardOf(dst), KeyboardOf(src))
         /\ new.interaction = Unset <=> dst.interaction = Unset /\ src.interaction = Unset
<1> DEFINE new == ApplyDisplayJSON(dst, src)
           held == Else(dst.interaction, NoInteraction)
           ip   == IF src.interaction = Malformed THEN NoInteraction ELSE src.interaction
<1>1. /\ \A s \in Setting : new.plain[s] = Later(dst.plain[s], src.plain[s])
      /\ new.userOverrides = dst.userOverrides
  BY DEF ApplyDisplayJSON, LaterOf
<1>2. new \in DisplayPrefs
  BY ApplyDisplayJSONType
<1>3. dst.interaction # Malformed /\ new.interaction # Malformed
  <2> HIDE DEF new
  <2> QED BY <1>2, DisplayAssumption DEF DisplayPrefs, Optional
<1>4. held.mouse = MouseOf(dst) /\ held.keyboard = KeyboardOf(dst)
  BY <1>3 DEF Else, NoInteraction, MouseOf, KeyboardOf
<1>5. CASE src.interaction = Unset
  BY <1>1, <1>5 DEF ApplyDisplayJSON, MouseOf, KeyboardOf, Later, Typed
<1>6. CASE src.interaction # Unset
  <2>1. new.interaction = [keyboard |-> Typed(held.keyboard, ip.keyboard), mouse |-> Else(ip.mouse, held.mouse)]
    BY <1>6 DEF ApplyDisplayJSON
  <2>2. ip.mouse = MouseOf(src) /\ ip.keyboard = KeyboardOf(src)
    BY <1>6 DEF MouseOf, KeyboardOf, NoInteraction
  <2>3. new.interaction # Unset
    <3>1. new.interaction \in InteractionPrefs
      <4>1. new.interaction \in Optional(InteractionPrefs)
        <5> HIDE DEF new
        <5> QED BY <1>2 DEF DisplayPrefs
      <4>2. held \in InteractionPrefs
        BY DisplayAssumption DEF DisplayPrefs, InteractionPrefs, Optional, Else, NoInteraction
      <4>3. ip \in InteractionPrefs
        BY <1>6 DEF DisplayControls, InteractionPrefs, Optional, NoInteraction
      <4> HIDE DEF new, held, ip
      <4> QED BY <2>1, <4>2, <4>3 DEF InteractionPrefs, Typed, Else, Optional
    <3> HIDE DEF new
    <3> QED BY <3>1, DisplayAssumption
  <2> HIDE DEF new, held, ip
  <2>4. MouseOf(new) = Else(ip.mouse, held.mouse) /\ KeyboardOf(new) = Typed(held.keyboard, ip.keyboard)
    BY <1>3, <2>1, <2>3 DEF MouseOf, KeyboardOf
  <2>5. MouseOf(new) = Later(MouseOf(dst), MouseOf(src))
    BY <1>4, <2>2, <2>4 DEF Else, Later
  <2>6. KeyboardOf(new) = Typed(KeyboardOf(dst), KeyboardOf(src))
    BY <1>4, <2>2, <2>4
  <2> QED BY <1>1, <1>6, <2>3, <2>5, <2>6 DEF new
<1> QED
  BY <1>5, <1>6

LEMMA OverlayProjections ==
  ASSUME NEW dst \in DisplayPrefs, NEW src \in DisplayPrefs
  PROVE  LET new == OverlayDisplay(dst, src) IN
         /\ \A s \in Setting : new.plain[s] = Later(dst.plain[s], src.plain[s])
         /\ \A k \in OverrideKey : new.userOverrides[k] = Later(dst.userOverrides[k], src.userOverrides[k])
         /\ \A b \in Button : IsOn(MouseOf(new), b) <=> IsOn(MouseOf(dst), b) \/ IsOn(MouseOf(src), b)
         /\ KeyboardOf(new) = Typed(KeyboardOf(dst), KeyboardOf(src))
         /\ new.interaction = Unset <=> dst.interaction = Unset /\ src.interaction = Unset
<1> DEFINE new == OverlayDisplay(dst, src)
           held == Else(dst.interaction, NoInteraction)
<1>1. /\ \A s \in Setting : new.plain[s] = Later(dst.plain[s], src.plain[s])
      /\ \A k \in OverrideKey : new.userOverrides[k] = Later(dst.userOverrides[k], src.userOverrides[k])
  BY DEF OverlayDisplay, LaterOf
<1>2. new \in DisplayPrefs
  BY OverlayDisplayType
<1>3. dst.interaction # Malformed /\ new.interaction # Malformed /\ src.interaction # Malformed
  <2> HIDE DEF new
  <2> QED BY <1>2, DisplayAssumption DEF DisplayPrefs, Optional
<1>4. held.mouse = MouseOf(dst) /\ held.keyboard = KeyboardOf(dst)
  BY <1>3 DEF Else, NoInteraction, MouseOf, KeyboardOf
<1>5. CASE src.interaction = Unset
  BY <1>1, <1>5 DEF OverlayDisplay, MouseOf, KeyboardOf, Typed, IsOn
<1>6. CASE src.interaction # Unset
  <2> DEFINE mouse == IF src.interaction.mouse = Unset THEN held.mouse
                      ELSE SwitchOn(Else(held.mouse, NoButtons), src.interaction.mouse)
  <2>1. new.interaction = [keyboard |-> Typed(held.keyboard, src.interaction.keyboard), mouse |-> mouse]
    BY <1>6 DEF OverlayDisplay
  <2>2. src.interaction.mouse = MouseOf(src) /\ src.interaction.keyboard = KeyboardOf(src)
    BY <1>3, <1>6 DEF MouseOf, KeyboardOf
  <2>3. held \in InteractionPrefs /\ src.interaction \in InteractionPrefs
    BY <1>6, DisplayAssumption DEF DisplayPrefs, InteractionPrefs, Optional, Else, NoInteraction
  <2>4. MouseOf(src) # Unset => SwitchOn(Else(held.mouse, NoButtons), src.interaction.mouse) \in MousePrefs
    <3>1. Else(held.mouse, NoButtons) \in MousePrefs
      BY <2>3 DEF InteractionPrefs, MousePrefs, Optional, Else, NoButtons
    <3> QED BY <3>1 DEF MousePrefs, Optional, SwitchOn
  <2>5. new.interaction # Unset
    <3>1. new.interaction \in InteractionPrefs
      <4> HIDE DEF new, held
      <4> QED BY <2>1, <2>2, <2>3, <2>4 DEF InteractionPrefs, Typed, Optional
    <3> HIDE DEF new
    <3> QED BY <3>1, DisplayAssumption
  <2>6. \A b \in Button : IsOn(mouse, b) <=> IsOn(MouseOf(dst), b) \/ IsOn(MouseOf(src), b)
    <3> TAKE b \in Button
    <3>1. CASE MouseOf(src) = Unset
      BY <1>4, <2>2, <3>1 DEF IsOn
    <3>2. CASE MouseOf(src) # Unset
      <4>1. mouse # Unset
        <5> HIDE DEF held
        <5> QED BY <2>2, <2>4, <3>2, DisplayAssumption
      <4>2. mouse[b] = IF MouseOf(src)[b] = TRUE THEN TRUE ELSE Else(held.mouse, NoButtons)[b]
        <5> HIDE DEF held
        <5> QED BY <2>2, <3>2 DEF SwitchOn
      <4>3. Else(held.mouse, NoButtons)[b] = TRUE <=> IsOn(MouseOf(dst), b)
        <5> HIDE DEF held
        <5> QED BY <1>4, DisplayAssumption DEF Else, NoButtons, IsOn
      <4> HIDE DEF mouse, held
      <4> QED BY <3>2, <4>1, <4>2, <4>3 DEF IsOn
    <3> QED BY <3>1, <3>2
  <2> HIDE DEF new, held, mouse
  <2>7. MouseOf(new) = mouse /\ KeyboardOf(new) = Typed(held.keyboard, src.interaction.keyboard)
    BY <1>3, <2>1, <2>5 DEF MouseOf, KeyboardOf
  <2>8. KeyboardOf(new) = Typed(KeyboardOf(dst), KeyboardOf(src))
    BY <1>4, <2>2, <2>7
  <2>9. \A b \in Button : IsOn(MouseOf(new), b) <=> IsOn(MouseOf(dst), b) \/ IsOn(MouseOf(src), b)
    BY <2>6, <2>7
  <2> QED BY <1>1, <1>6, <2>5, <2>8, <2>9 DEF new
<1> QED
  BY <1>5, <1>6

LEMMA EmptyLayer ==
  ASSUME NEW d \in DisplayPrefs
  PROVE  ApplyDisplayJSON(d, EmptyDisplay) = d /\ OverlayDisplay(d, EmptyDisplay) = d
<1>1. LaterOf(Setting, d.plain, EmptyDisplay.plain) = d.plain
  BY DEF LaterOf, Later, EmptyDisplay, DisplayPrefs
<1>2. LaterOf(OverrideKey, d.userOverrides, EmptyDisplay.userOverrides) = d.userOverrides
  BY DEF LaterOf, Later, EmptyDisplay, DisplayPrefs, NoOverrides
<1>3. EmptyDisplay.interaction = Unset
  BY DEF EmptyDisplay
<1>4. d = [plain |-> d.plain, interaction |-> d.interaction, userOverrides |-> d.userOverrides]
  BY DEF DisplayPrefs
<1>5. ApplyDisplayJSON(d, EmptyDisplay) = d
  BY <1>1, <1>3, <1>4 DEF ApplyDisplayJSON
<1>6. OverlayDisplay(d, EmptyDisplay) = d
  BY <1>1, <1>2, <1>3, <1>4 DEF OverlayDisplay
<1> QED
  BY <1>5, <1>6

LEMMA LastOfFive ==
  ASSUME NEW told,
         NEW v, v = Later(Later(Later(Later(told[1], told[2]), told[3]), told[4]), told[5])
  PROVE  LastWins(v, told)
<1>1. CASE told[5] # Unset
  BY <1>1 DEF Later, LastWins
<1>2. CASE told[5] = Unset /\ told[4] # Unset
  BY <1>2 DEF Later, LastWins
<1>3. CASE told[5] = Unset /\ told[4] = Unset /\ told[3] # Unset
  BY <1>3 DEF Later, LastWins
<1>4. CASE told[5] = Unset /\ told[4] = Unset /\ told[3] = Unset /\ told[2] # Unset
  BY <1>4 DEF Later, LastWins
<1>5. CASE told[5] = Unset /\ told[4] = Unset /\ told[3] = Unset /\ told[2] = Unset
  BY <1>5 DEF Later, LastWins
<1> QED
  BY <1>1, <1>2, <1>3, <1>4, <1>5

LEMMA LastWinsIs ==
  ASSUME NEW told, NEW v, v # Unset
  PROVE  LastWins(v, told) <=>
           \/ told[5] = v
           \/ told[5] = Unset /\ told[4] = v
           \/ told[5] = Unset /\ told[4] = Unset /\ told[3] = v
           \/ told[5] = Unset /\ told[4] = Unset /\ told[3] = Unset /\ told[2] = v
           \/ told[5] = Unset /\ told[4] = Unset /\ told[3] = Unset /\ told[2] = Unset /\ told[1] = v
<1>1. LastWins(v, told) <=> \E i \in {1, 2, 3, 4, 5} : told[i] = v /\ \A j \in i + 1 .. 5 : told[j] = Unset
  BY DEF LastWins
<1>2. /\ 5 + 1 .. 5 = {} /\ 4 + 1 .. 5 = {5} /\ 3 + 1 .. 5 = {4, 5} /\ 2 + 1 .. 5 = {3, 4, 5}
      /\ 1 + 1 .. 5 = {2, 3, 4, 5}
  OBVIOUS
<1> QED
  BY <1>1, <1>2

-----------------------------------------------------------------------------
(***************************************************************************)
(* All layers.                                                             *)
(***************************************************************************)
Laid(l) ==
  OverlayDisplay(OverlayDisplay(ApplyDisplayJSON(ApplyDisplayJSON(l[1], l[2]), l[3]), l[4]), l[5])

LayersTyped ==
  /\ Layers[1] \in DisplayPrefs /\ Layers[2] \in DisplayControls /\ Layers[3] \in DisplayControls
  /\ Layers[4] \in DisplayPrefs /\ Layers[5] \in DisplayPrefs

\* A button outside the gap, whatever TRUE and FALSE are.
LEMMA ButtonWins ==
  ASSUME NEW yes, NEW no, NEW told, yes # Unset, no # yes,
         \A i \in {1, 2, 3, 4, 5} : told[i] \in {yes, no, Unset}, told[4] # no, told[5] # no
  PROVE  LastWins(yes, told) <=>
           \/ told[5] = yes \/ told[4] = yes
           \/ IF told[3] # Unset THEN told[3] = yes
              ELSE IF told[2] # Unset THEN told[2] = yes ELSE told[1] = yes
<1>1. LastWins(yes, told) <=>
           \/ told[5] = yes
           \/ told[5] = Unset /\ told[4] = yes
           \/ told[5] = Unset /\ told[4] = Unset /\ told[3] = yes
           \/ told[5] = Unset /\ told[4] = Unset /\ told[3] = Unset /\ told[2] = yes
           \/ told[5] = Unset /\ told[4] = Unset /\ told[3] = Unset /\ told[2] = Unset /\ told[1] = yes
  BY LastWinsIs
<1>2. told[4] \in {yes, Unset} /\ told[5] \in {yes, Unset}
  OBVIOUS
<1> QED
  BY <1>1, <1>2

LEMMA LaidWins ==
  ASSUME LayersTyped, NEW shown, shown = Laid(Layers)
  PROVE  /\ shown \in DisplayPrefs
         /\ \A s \in Setting : LastWins(shown.plain[s], [i \in 1 .. 5 |-> Layers[i].plain[s]])
         /\ \A k \in OverrideKey : LastWins(shown.userOverrides[k], [i \in 1 .. 5 |-> Layers[i].userOverrides[k]])
         /\ \A b \in Button :
              /\ OutsideGap(b) =>
                   (IsOn(MouseOf(shown), b) <=> LastWins(TRUE, [i \in 1 .. 5 |-> Says(Layers[i], b)]))
              /\ (\E i \in 4 .. 5 : Says(Layers[i], b) = TRUE) => IsOn(MouseOf(shown), b)
         /\ (\A i \in 2 .. 5 : KeyboardOf(Layers[i]) # NoKeys) =>
              LastWins(KeyboardOf(shown), [i \in 1 .. 5 |-> KeyboardOf(Layers[i])])
         /\ IsEmptyDisplay(shown) <=> \A i \in 1 .. 5 : IsEmptyDisplay(Layers[i])
<1> DEFINE l  == Layers
           d2 == ApplyDisplayJSON(l[1], l[2])
           d3 == ApplyDisplayJSON(d2, l[3])
           d4 == OverlayDisplay(d3, l[4])
           d5 == OverlayDisplay(d4, l[5])
<1>1. /\ l[1] \in DisplayPrefs /\ l[2] \in DisplayControls /\ l[3] \in DisplayControls
      /\ l[4] \in DisplayPrefs /\ l[5] \in DisplayPrefs /\ shown = d5
  BY DEF LayersTyped, Laid
<1>0. l = Layers
  OBVIOUS
<1> HIDE DEF l
<1>2. d2 \in DisplayPrefs
  BY <1>1, ApplyDisplayJSONType
<1>3. d3 \in DisplayPrefs
  <2> HIDE DEF d2
  <2> QED BY <1>1, <1>2, ApplyDisplayJSONType
<1>4. d4 \in DisplayPrefs
  <2> HIDE DEF d3
  <2> QED BY <1>1, <1>3, OverlayDisplayType
<1>5. d5 \in DisplayPrefs
  <2> HIDE DEF d4
  <2> QED BY <1>1, <1>4, OverlayDisplayType
<1> DEFINE Applied(new, dst, src) ==
             /\ \A s \in Setting : new.plain[s] = Later(dst.plain[s], src.plain[s])
             /\ new.userOverrides = dst.userOverrides
             /\ MouseOf(new) = Later(MouseOf(dst), MouseOf(src))
             /\ KeyboardOf(new) = Typed(KeyboardOf(dst), KeyboardOf(src))
             /\ new.interaction = Unset <=> dst.interaction = Unset /\ src.interaction = Unset
           Overlaid(new, dst, src) ==
             /\ \A s \in Setting : new.plain[s] = Later(dst.plain[s], src.plain[s])
             /\ \A k \in OverrideKey : new.userOverrides[k] = Later(dst.userOverrides[k], src.userOverrides[k])
             /\ \A b \in Button : IsOn(MouseOf(new), b) <=> IsOn(MouseOf(dst), b) \/ IsOn(MouseOf(src), b)
             /\ KeyboardOf(new) = Typed(KeyboardOf(dst), KeyboardOf(src))
             /\ new.interaction = Unset <=> dst.interaction = Unset /\ src.interaction = Unset
<1>6. Applied(d2, l[1], l[2])
  BY <1>1, ApplyProjections
<1>7. Applied(d3, d2, l[3])
  <2> HIDE DEF d2
  <2> QED BY <1>1, <1>2, ApplyProjections
<1>8. Overlaid(d4, d3, l[4])
  <2> HIDE DEF d3
  <2> QED BY <1>1, <1>3, OverlayProjections
<1>9. Overlaid(d5, d4, l[5])
  <2> HIDE DEF d4
  <2> QED BY <1>1, <1>4, OverlayProjections
<1> HIDE DEF d2, d3, d4, d5
<1>10. ASSUME NEW s \in Setting
       PROVE  LastWins(shown.plain[s], [i \in 1 .. 5 |-> l[i].plain[s]])
  <2> DEFINE told == [i \in 1 .. 5 |-> l[i].plain[s]]
  <2>1. shown.plain[s] = Later(Later(Later(Later(told[1], told[2]), told[3]), told[4]), told[5])
    BY <1>1, <1>6, <1>7, <1>8, <1>9
  <2> HIDE DEF told
  <2>2. LastWins(shown.plain[s], told)
    BY <2>1, LastOfFive
  <2> QED BY <2>2 DEF told
<1>11. ASSUME NEW k \in OverrideKey
       PROVE  LastWins(shown.userOverrides[k], [i \in 1 .. 5 |-> l[i].userOverrides[k]])
  <2> DEFINE told == [i \in 1 .. 5 |-> l[i].userOverrides[k]]
  <2>1. told[2] = Unset /\ told[3] = Unset
    BY <1>1 DEF DisplayControls, NoOverrides
  <2>2. shown.userOverrides[k] = Later(Later(told[1], told[4]), told[5])
    BY <1>1, <1>6, <1>7, <1>8, <1>9
  <2> HIDE DEF told
  <2>3. shown.userOverrides[k] = Later(Later(Later(Later(told[1], told[2]), told[3]), told[4]), told[5])
    BY <2>1, <2>2 DEF Later
  <2>4. LastWins(shown.userOverrides[k], told)
    BY <2>3, LastOfFive
  <2> QED BY <2>4 DEF told
<1>12. ASSUME NEW b \in Button
       PROVE  /\ OutsideGap(b) =>
                   (IsOn(MouseOf(shown), b) <=> LastWins(TRUE, [i \in 1 .. 5 |-> Says(l[i], b)]))
              /\ (\E i \in 4 .. 5 : Says(l[i], b) = TRUE) => IsOn(MouseOf(shown), b)
  <2>1. IsOn(MouseOf(shown), b) <=>
          \/ IsOn(MouseOf(l[5]), b) \/ IsOn(MouseOf(l[4]), b)
          \/ IsOn(Later(Later(MouseOf(l[1]), MouseOf(l[2])), MouseOf(l[3])), b)
    BY <1>1, <1>6, <1>7, <1>8, <1>9
  <2>2. \A i \in 1 .. 5 : IsOn(MouseOf(l[i]), b) <=> Says(l[i], b) = TRUE
    BY DisplayAssumption DEF IsOn, Says
  <2>3. (\E i \in 4 .. 5 : Says(l[i], b) = TRUE) => IsOn(MouseOf(shown), b)
    BY <2>1, <2>2
  <2>4. ASSUME OutsideGap(b)
        PROVE  IsOn(MouseOf(shown), b) <=> LastWins(TRUE, [i \in 1 .. 5 |-> Says(l[i], b)])
    <3>0. 4 \in 4 .. 5 /\ 5 \in 4 .. 5 /\ 2 \in 2 .. 3 /\ 3 \in 2 .. 3 /\ 1 \in 1 .. 5
      OBVIOUS
    <3>1. Says(l[4], b) # FALSE /\ Says(l[5], b) # FALSE
      BY <1>0, <2>4, <3>0, Zenon DEF OutsideGap
    <3>2. (MouseOf(l[2]) # Unset => Says(l[2], b) # Unset) /\ (MouseOf(l[3]) # Unset => Says(l[3], b) # Unset)
      BY <1>0, <2>4, <3>0, Zenon DEF OutsideGap
    <3>3. \A i \in 1 .. 5 : MouseOf(l[i]) = Unset => Says(l[i], b) = Unset
      BY DEF Says
    <3>4. \A i \in 1 .. 5 : Says(l[i], b) \in {TRUE, FALSE, Unset}
      <4>1. \A i \in 1 .. 5 : MouseOf(l[i]) \in MousePrefs \cup {Unset}
        <5>1. \A i \in {1, 4, 5} : MouseOf(l[i]) \in MousePrefs \cup {Unset}
          BY <1>1 DEF DisplayPrefs, InteractionPrefs, Optional, MouseOf
        <5>2. \A i \in {2, 3} : MouseOf(l[i]) \in MousePrefs \cup {Unset}
          BY <1>1 DEF DisplayControls, InteractionPrefs, Optional, MouseOf
        <5> QED BY <5>1, <5>2
      <4> QED BY <4>1 DEF MousePrefs, Optional, Says
    <3>5. IsOn(Later(Later(MouseOf(l[1]), MouseOf(l[2])), MouseOf(l[3])), b) <=>
            IF MouseOf(l[3]) # Unset THEN IsOn(MouseOf(l[3]), b)
            ELSE IF MouseOf(l[2]) # Unset THEN IsOn(MouseOf(l[2]), b)
            ELSE IsOn(MouseOf(l[1]), b)
      BY DEF Later
    <3> DEFINE m(i)  == MouseOf(l[i])
               told  == [i \in 1 .. 5 |-> Says(l[i], b)]
               on(i) == IsOn(MouseOf(l[i]), b)
    <3>6. \A i \in {1, 2, 3, 4, 5} : told[i] = Says(l[i], b)
      OBVIOUS
    <3>7. /\ \A i \in {1, 2, 3, 4, 5} : on(i) <=> told[i] = TRUE
          /\ \A i \in {1, 2, 3, 4, 5} : told[i] \in {TRUE, FALSE, Unset}
          /\ \A i \in {1, 2, 3} : m(i) = Unset => told[i] = Unset
      <4>1. \A i \in {1, 2, 3, 4, 5} : i \in 1 .. 5
        OBVIOUS
      <4> HIDE DEF told
      <4> QED BY <4>1, <2>2, <3>3, <3>4, <3>6, Zenon
    <3>8. told[4] # FALSE /\ told[5] # FALSE /\ (m(2) # Unset => told[2] # Unset) /\ (m(3) # Unset => told[3] # Unset)
      <4> HIDE DEF told
      <4> QED BY <3>1, <3>2, <3>6, Zenon
    <3> HIDE DEF told, on, m
    <3>9. TRUE # Unset /\ FALSE # TRUE
      BY DisplayAssumption
    <3>10. IsOn(MouseOf(shown), b) <=>
             \/ on(5) \/ on(4)
             \/ IF m(3) # Unset THEN on(3) ELSE IF m(2) # Unset THEN on(2) ELSE on(1)
      BY <2>1, <3>5, Zenon DEF on, m
    <3>11. (m(2) # Unset <=> told[2] # Unset) /\ (m(3) # Unset <=> told[3] # Unset)
      BY <3>7, <3>8, Zenon
    <3>12. LastWins(TRUE, told) <=>
             \/ told[5] = TRUE \/ told[4] = TRUE
             \/ IF told[3] # Unset THEN told[3] = TRUE
                ELSE IF told[2] # Unset THEN told[2] = TRUE ELSE told[1] = TRUE
      BY <3>7, <3>8, <3>9, ButtonWins, Zenon
    <3>13. IsOn(MouseOf(shown), b) <=>
             \/ told[5] = TRUE \/ told[4] = TRUE
             \/ IF told[3] # Unset THEN told[3] = TRUE
                ELSE IF told[2] # Unset THEN told[2] = TRUE ELSE told[1] = TRUE
      BY <3>7, <3>10, <3>11, Zenon
    <3>14. IsOn(MouseOf(shown), b) <=> LastWins(TRUE, told)
      BY <3>12, <3>13, Zenon
    <3> QED BY <3>14 DEF told
  <2> QED BY <2>3, <2>4
<1>13. ASSUME \A i \in 2 .. 5 : KeyboardOf(l[i]) # NoKeys
       PROVE  LastWins(KeyboardOf(shown), [i \in 1 .. 5 |-> KeyboardOf(l[i])])
  <2> DEFINE told == [i \in 1 .. 5 |-> KeyboardOf(l[i])]
  <2>1. \A i \in 2 .. 5, x \in {KeyboardOf(l[1]), KeyboardOf(d2), KeyboardOf(d3), KeyboardOf(d4)} :
          Typed(x, KeyboardOf(l[i])) = Later(x, KeyboardOf(l[i]))
    BY <1>13 DEF Typed, Later
  <2>2. KeyboardOf(shown) = Later(Later(Later(Later(told[1], told[2]), told[3]), told[4]), told[5])
    BY <1>1, <1>6, <1>7, <1>8, <1>9, <2>1
  <2> HIDE DEF told
  <2>3. LastWins(KeyboardOf(shown), told)
    BY <2>2, LastOfFive
  <2> QED BY <2>3 DEF told
<1>14. IsEmptyDisplay(shown) <=> \A i \in 1 .. 5 : IsEmptyDisplay(l[i])
  <2>1. (\A s \in Setting : shown.plain[s] = Unset) <=>
          \A i \in 1 .. 5 : \A s \in Setting : l[i].plain[s] = Unset
    <3>2. ASSUME NEW s \in Setting
          PROVE  shown.plain[s] = Unset <=> \A i \in 1 .. 5 : l[i].plain[s] = Unset
      <4>1. shown.plain[s] =
              Later(Later(Later(Later(l[1].plain[s], l[2].plain[s]), l[3].plain[s]), l[4].plain[s]), l[5].plain[s])
        BY <1>1, <1>6, <1>7, <1>8, <1>9
      <4> QED BY <4>1 DEF Later
    <3> QED BY <3>2
  <2>2. shown.interaction = Unset <=> \A i \in 1 .. 5 : l[i].interaction = Unset
    BY <1>1, <1>6, <1>7, <1>8, <1>9
  <2>3. shown.userOverrides = NoOverrides <=> \A i \in 1 .. 5 : l[i].userOverrides = NoOverrides
    <3>1. l[2].userOverrides = NoOverrides /\ l[3].userOverrides = NoOverrides
      BY <1>1 DEF DisplayControls
    <3>2. \A k \in OverrideKey : shown.userOverrides[k] =
            Later(Later(l[1].userOverrides[k], l[4].userOverrides[k]), l[5].userOverrides[k])
      BY <1>1, <1>6, <1>7, <1>8, <1>9
    <3>3. \A k \in OverrideKey : shown.userOverrides[k] = Unset <=>
            \A i \in {1, 4, 5} : l[i].userOverrides[k] = Unset
      BY <3>2 DEF Later
    <3>4. \A x \in [OverrideKey -> Optional(BOOLEAN)] : x = NoOverrides <=> \A k \in OverrideKey : x[k] = Unset
      BY DEF NoOverrides
    <3>5. /\ shown.userOverrides \in [OverrideKey -> Optional(BOOLEAN)]
          /\ \A i \in {1, 4, 5} : l[i].userOverrides \in [OverrideKey -> Optional(BOOLEAN)]
      BY <1>1, <1>5 DEF DisplayPrefs
    <3>6. shown.userOverrides = NoOverrides <=> \A i \in {1, 4, 5} : l[i].userOverrides = NoOverrides
      BY <3>3, <3>4, <3>5
    <3> QED BY <3>1, <3>6
  <2> QED BY <2>1, <2>2, <2>3 DEF IsEmptyDisplay
<1> QED
  BY <1>1, <1>5, <1>10, <1>11, <1>12, <1>13, <1>14 DEF l

-----------------------------------------------------------------------------
(***************************************************************************)
(* A call of DisplayForItem.                                               *)
(***************************************************************************)
CallTypes ==
  /\ pc \in Idle \cup {"members", "inline", "ref", "override", "item", "result"}
  /\ defaults \in DisplayPrefs \cup {Nil} /\ ref \in DisplayControls \cup {Nil}
  /\ base \in DisplayPrefs /\ result \in DisplayPrefs \cup {Nil, Failure}
  /\ alias = {}
  /\ pc = "members" => defaults = Nil

\* base is made of the layers so far, and no layer so far failed.
CallInv ==
  /\ pc = "inline" => base = Layers[1]
  /\ pc = "ref" => base = ApplyDisplayJSON(Layers[1], Layers[2])
  /\ pc = "override" => base = ApplyDisplayJSON(ApplyDisplayJSON(Layers[1], Layers[2]), Layers[3])
  /\ pc = "item" =>
       base = OverlayDisplay(ApplyDisplayJSON(ApplyDisplayJSON(Layers[1], Layers[2]), Layers[3]), Layers[4])
  /\ pc = "result" => base = Laid(Layers)
  /\ pc \in {"ref", "override", "item", "result"} => ManifestForItem(ref, it) # Failure
  /\ pc \in {"item", "result"} => it["override"] # Malformed
  /\ pc = "shown" =>
       IF result = Failure THEN ManifestForItem(ref, it) = Failure \/ it["override"] = Malformed
       ELSE /\ ManifestForItem(ref, it) # Failure /\ it["override"] # Malformed
            /\ result = IF IsEmptyDisplay(Laid(Layers)) THEN Nil ELSE Laid(Layers)

Inv == DecodingInv /\ CallTypes /\ CallInv

LayersHold ==
  /\ Layers[1] = IF defaults = Nil THEN EmptyDisplay ELSE defaults
  /\ Layers[2] = IF ParseInlineManifest(it) \in {Nil, Failure} THEN EmptyDisplay ELSE ParseInlineManifest(it)
  /\ Layers[3] = IF ref = Nil THEN EmptyDisplay ELSE ref
  /\ Layers[1] \in DisplayPrefs /\ Layers[2] \in DisplayControls /\ Layers[3] \in DisplayControls
  /\ it["override"] # Malformed =>
       /\ Layers[4] = IF it["override"] \in {Nil, Null} THEN EmptyDisplay ELSE it["override"]
       /\ Layers[4] \in DisplayPrefs
  /\ Layers[5] = IF it["display"] = Nil THEN EmptyDisplay ELSE it["display"]
  /\ Layers[5] \in DisplayPrefs

LEMMA LayersAre == DecodingInv /\ CallTypes => LayersHold
<1> SUFFICES ASSUME DecodingInv, CallTypes PROVE LayersHold
  OBVIOUS
<1>1. /\ it["override"] \in DisplayPrefs \cup {Nil, Null, Malformed}
      /\ it["display"] \in DisplayPrefs \cup {Nil}
      /\ ParseInlineManifest(it) \in DisplayControls \cup {Nil, Failure}
  BY HeldIs, ParsedType DEF DecodingInv, DecodingTypes, IsItem, Field, Raw, Pointer
<1>2. defaults \in DisplayPrefs \cup {Nil} /\ ref \in DisplayControls \cup {Nil}
  BY DEF CallTypes
<1>3. /\ Null \notin DisplayPrefs \cup DisplayControls /\ Nil # Malformed
      /\ Failure \notin DisplayPrefs \cup DisplayControls \cup {Nil}
      /\ Nil \notin DisplayPrefs \cup DisplayControls
  BY Values, LayerAssumption
<1>4. EmptyDisplay \in DisplayPrefs /\ EmptyDisplay \in DisplayControls
  BY EmptyDisplayType DEF EmptyDisplay, DisplayControls, DisplayPrefs, NoOverrides
<1> DEFINE OrEmpty(x) == IF x \in {Nil, Null, Failure} THEN EmptyDisplay ELSE x
<1>5. /\ Layers[1] = OrEmpty(defaults) /\ Layers[2] = OrEmpty(ParseInlineManifest(it))
      /\ Layers[3] = OrEmpty(ref) /\ Layers[4] = OrEmpty(it["override"]) /\ Layers[5] = OrEmpty(it["display"])
  BY DEF Layers
<1> HIDE DEF OrEmpty
<1>6. \A x \in DisplayPrefs \cup DisplayControls : OrEmpty(x) = x
  BY <1>3 DEF OrEmpty
<1>7. \A x \in {Nil, Null, Failure} : OrEmpty(x) = EmptyDisplay
  BY DEF OrEmpty
<1>8. /\ Layers[1] = IF defaults = Nil THEN EmptyDisplay ELSE defaults
      /\ Layers[1] \in DisplayPrefs
  BY <1>2, <1>4, <1>5, <1>6, <1>7
<1>9. /\ Layers[2] = IF ParseInlineManifest(it) \in {Nil, Failure} THEN EmptyDisplay ELSE ParseInlineManifest(it)
      /\ Layers[2] \in DisplayControls
  BY <1>1, <1>4, <1>5, <1>6, <1>7
<1>10. Layers[3] = (IF ref = Nil THEN EmptyDisplay ELSE ref) /\ Layers[3] \in DisplayControls
  BY <1>2, <1>4, <1>5, <1>6, <1>7
<1>11. ASSUME it["override"] # Malformed
       PROVE  /\ Layers[4] = IF it["override"] \in {Nil, Null} THEN EmptyDisplay ELSE it["override"]
              /\ Layers[4] \in DisplayPrefs
  BY <1>1, <1>4, <1>5, <1>6, <1>7, <1>11
<1>12. Layers[5] = (IF it["display"] = Nil THEN EmptyDisplay ELSE it["display"]) /\ Layers[5] \in DisplayPrefs
  BY <1>1, <1>4, <1>5, <1>6, <1>7
<1> QED
  BY <1>8, <1>9, <1>10, <1>11, <1>12 DEF LayersHold

\* Nothing of base is memory of the defaults, so a layer only adds to base.
LEMMA ManifestStep ==
  ASSUME CallTypes, NEW m \in DisplayControls \cup {Nil}, ApplyManifestDisplay(m)
  PROVE  /\ base' = ApplyDisplayJSON(base, IF m = Nil THEN EmptyDisplay ELSE m)
         /\ base' \in DisplayPrefs /\ alias' = {} /\ defaults' = defaults
<1>1. base \in DisplayPrefs /\ alias = {}
  BY DEF CallTypes
<1>2. CASE m = Nil
  BY <1>1, <1>2, EmptyLayer DEF ApplyManifestDisplay
<1>3. CASE m # Nil
  <2>1. m \in DisplayControls
    BY <1>3
  <2>2. ApplyDisplayJSON(base, m) \in DisplayPrefs
    BY <1>1, <2>1, ApplyDisplayJSONType
  <2>3. base' = ApplyDisplayJSON(base, m) /\ alias' = {}
    BY <1>1, <1>3 DEF ApplyManifestDisplay
  <2>4. defaults' = defaults
    BY <1>1, <1>3, <2>3 DEF ApplyManifestDisplay, WrittenThrough
  <2> QED BY <1>3, <2>2, <2>3, <2>4
<1> QED
  BY <1>2, <1>3

LEMMA OverlayStep ==
  ASSUME CallTypes, NEW src \in DisplayPrefs, Overlay(src)
  PROVE  /\ base' = OverlayDisplay(base, src)
         /\ base' \in DisplayPrefs /\ alias' = {} /\ defaults' = defaults
BY OverlayDisplayType DEF CallTypes, Overlay, WrittenThrough

LEMMA ItemUnchangedKeepsInv ==
  ASSUME DecodingInv, ItemUnchanged, pc' # "members"
  PROVE  DecodingInv'
BY DEF DecodingInv, DecodingTypes, ItemUnchanged, IsMember, IsItem

LEMMA LayersUnchanged ==
  ASSUME ItemUnchanged, UNCHANGED <<defaults, ref>>
  PROVE  Layers' = Layers /\ ManifestForItem(ref, it)' = ManifestForItem(ref, it) /\ it' = it
BY DEF ItemUnchanged, Layers, ParseInlineManifest, ManifestForItem

LEMMA ZeroIsItem == IsItem(Zero)
<1>1. \A f \in Field \ {"title"} : Nil \in Held[f]
  BY HeldIs DEF Field, Raw, Pointer, Exact
<1>2. Blank \in Held["title"]
  BY HeldIs, DocumentAssumption
<1> QED
  BY <1>1, <1>2 DEF IsItem, Zero

LEMMA DisplayForItemStep ==
  ASSUME Inv, NEW def \in Defaults, NEW manifest \in Fetched, DisplayForItem(def, manifest)
  PROVE  Inv'
<1>1. DecodingInv'
  <2>1. IsItem(Zero)
    BY ZeroIsItem
  <2>2. doc' = <<>> /\ at' = 1 /\ failed' = FALSE /\ before' = Zero /\ pc' # "members"
        /\ UNCHANGED <<it, kept, shared, shadow, fresh, decodes>>
    BY DEF DisplayForItem
  <2>3. Len(<<>>) \in Nat /\ DOMAIN <<>> = 1 .. Len(<<>>) /\ \A i \in DOMAIN <<>> : IsMember(<<>>[i])
    OBVIOUS
  <2>4. Len(doc') \in Nat /\ DOMAIN doc' = 1 .. Len(doc') /\ \A i \in DOMAIN doc' : IsMember(doc'[i])
    BY <2>2, <2>3
  <2>5. DecodingTypes'
    <3>1. /\ IsItem(it') /\ IsItem(kept') /\ IsItem(shadow') /\ IsItem(before')
          /\ shared' \subseteq InMemory /\ fresh' \subseteq InMemory
          /\ failed' \in BOOLEAN /\ at' \in Nat \ {0} /\ decodes' \in 0 .. MaxDecodes
          /\ \A f \in shared' : kept'[f] # Nil /\ it'[f] # Nil
      <4>1. DecodingTypes
        BY DEF Inv, DecodingInv
      <4>2. IsItem(it') /\ IsItem(kept') /\ IsItem(shadow') /\ IsItem(before')
        BY <2>1, <2>2, <4>1, Zenon DEF DecodingTypes
      <4>3. /\ shared' \subseteq InMemory /\ fresh' \subseteq InMemory /\ decodes' \in 0 .. MaxDecodes
            /\ \A f \in shared' : kept'[f] # Nil /\ it'[f] # Nil
        BY <2>2, <4>1, Zenon DEF DecodingTypes
      <4>4. at' \in Nat \ {0}
        BY <2>2
      <4>5. failed' \in BOOLEAN
        BY <2>2, Zenon
      <4> QED BY <4>2, <4>3, <4>4, <4>5
    <3>2. IsItem(it)' /\ IsItem(kept)' /\ IsItem(shadow)' /\ IsItem(before)'
      BY <3>1 DEF IsItem
    <3>3. (\A i \in DOMAIN doc : IsMember(doc[i]))'
      BY <2>2
    <3> QED BY <2>4, <3>1, <3>2, <3>3 DEF DecodingTypes
  <2> QED BY <2>2, <2>5 DEF DecodingInv
<1>2. def \in DisplayPrefs \cup {Nil} /\ manifest \in DisplayControls \cup {Nil}
  BY LayerAssumption
<1>3. Blocks(def) \ ClonedBlocks = {}
  BY DEF Blocks, Block, ClonedBlocks
<1>4. CallTypes'
  BY <1>2, <1>3, EmptyDisplayType DEF DisplayForItem, CallTypes
<1>5. pc' = "inline" /\ defaults' = def /\ base' = IF def = Nil THEN EmptyDisplay ELSE def
  BY DEF DisplayForItem
<1>6. LayersHold'
  BY <1>1, <1>4, LayersAre, PTL
<1>7. CallInv'
  BY <1>5, <1>6 DEF LayersHold, CallInv
<1> QED
  BY <1>1, <1>4, <1>7 DEF Inv

LEMMA InlineManifestStep ==
  ASSUME Inv, InlineManifest
  PROVE  Inv'
<1> DEFINE inline == ParseInlineManifest(it)
           m      == IF inline = Failure THEN Nil ELSE inline
<1>1. LayersHold /\ pc = "inline" /\ base = Layers[1] /\ ItemUnchanged /\ ref' = ref
  BY LayersAre DEF Inv, CallInv, InlineManifest
<1>2. inline \in DisplayControls \cup {Nil, Failure} /\ ref \in DisplayControls \cup {Nil}
  BY ParsedType, HeldIs DEF Inv, CallTypes, DecodingInv, DecodingTypes, IsItem, Field, Raw
<1>3. CASE inline = Failure /\ ref = Nil
  <2>1. pc' = "shown" /\ result' = Failure /\ UNCHANGED <<base, alias, defaults>>
    BY <1>3 DEF InlineManifest, Fail
  <2>2. DecodingInv'
    BY <1>1, <2>1, ItemUnchangedKeepsInv DEF Inv
  <2>3. CallTypes'
    BY <1>1, <2>1 DEF Inv, CallTypes, Idle
  <2>4. ManifestForItem(ref, it)' = Failure
    BY <1>1, <1>3, <2>1, LayersUnchanged DEF ManifestForItem
  <2> QED BY <2>1, <2>2, <2>3, <2>4 DEF Inv, CallInv
<1>4. CASE ~(inline = Failure /\ ref = Nil)
  <2>1. pc' = "ref" /\ result' = result /\ ApplyManifestDisplay(m)
    BY <1>4 DEF InlineManifest
  <2>2. m \in DisplayControls \cup {Nil}
    BY <1>2
  <2>3. /\ base' = ApplyDisplayJSON(base, IF m = Nil THEN EmptyDisplay ELSE m)
        /\ base' \in DisplayPrefs /\ alias' = {} /\ defaults' = defaults
    <3> HIDE DEF m
    <3> QED BY <2>1, <2>2, ManifestStep DEF Inv
  <2>4. DecodingInv'
    BY <1>1, <2>1, ItemUnchangedKeepsInv DEF Inv
  <2>5. CallTypes'
    BY <1>1, <2>1, <2>3 DEF Inv, CallTypes
  <2>6. Layers[2] = IF m = Nil THEN EmptyDisplay ELSE m
    BY <1>1, <1>2, LayerAssumption DEF LayersHold
  <2>7. ManifestForItem(ref, it) # Failure
    BY <1>2, <1>4, LayerAssumption DEF ManifestForItem
  <2>8. Layers' = Layers /\ ManifestForItem(ref, it)' = ManifestForItem(ref, it)
    BY <1>1, <2>3, LayersUnchanged
  <2> QED BY <1>1, <2>1, <2>3, <2>4, <2>5, <2>6, <2>7, <2>8 DEF Inv, CallInv
<1> QED
  BY <1>3, <1>4

LEMMA RefManifestStep ==
  ASSUME Inv, RefManifest
  PROVE  Inv'
<1>1. /\ LayersHold /\ base = ApplyDisplayJSON(Layers[1], Layers[2]) /\ ManifestForItem(ref, it) # Failure
      /\ pc' = "override" /\ ItemUnchanged /\ ref' = ref /\ result' = result /\ ApplyManifestDisplay(ref)
  BY LayersAre DEF Inv, CallInv, RefManifest
<1>2. ref \in DisplayControls \cup {Nil}
  BY DEF Inv, CallTypes
<1>3. /\ base' = ApplyDisplayJSON(base, IF ref = Nil THEN EmptyDisplay ELSE ref)
      /\ base' \in DisplayPrefs /\ alias' = {} /\ defaults' = defaults
  BY <1>1, <1>2, ManifestStep DEF Inv
<1>4. DecodingInv'
  BY <1>1, ItemUnchangedKeepsInv DEF Inv
<1>5. CallTypes'
  BY <1>1, <1>3 DEF Inv, CallTypes
<1>6. Layers' = Layers /\ ManifestForItem(ref, it)' = ManifestForItem(ref, it)
  BY <1>1, <1>3, LayersUnchanged
<1>7. Layers[3] = IF ref = Nil THEN EmptyDisplay ELSE ref
  BY <1>1 DEF LayersHold
<1> QED
  BY <1>1, <1>3, <1>4, <1>5, <1>6, <1>7 DEF Inv, CallInv

LEMMA ItemOverrideStep ==
  ASSUME Inv, ItemOverride
  PROVE  Inv'
<1> DEFINE b == ApplyDisplayJSON(ApplyDisplayJSON(Layers[1], Layers[2]), Layers[3])
<1>1. /\ LayersHold /\ base = b /\ ManifestForItem(ref, it) # Failure
      /\ ItemUnchanged /\ ref' = ref
  BY LayersAre DEF Inv, CallInv, ItemOverride
<1> HIDE DEF b
<1>2. base \in DisplayPrefs
  BY DEF Inv, CallTypes
<1>3. CASE it["override"] = Malformed
  <2>1. pc' = "shown" /\ result' = Failure /\ UNCHANGED <<base, alias, defaults>>
    BY <1>3 DEF ItemOverride, Fail
  <2>2. DecodingInv'
    BY <1>1, <2>1, ItemUnchangedKeepsInv DEF Inv
  <2>3. CallTypes'
    BY <1>1, <2>1 DEF Inv, CallTypes, Idle
  <2>4. it'["override"] = Malformed
    BY <1>1, <1>3 DEF ItemUnchanged
  <2> QED BY <2>1, <2>2, <2>3, <2>4 DEF Inv, CallInv
<1>4. CASE it["override"] # Malformed
  <2>1. /\ pc' = "item" /\ result' = result
        /\ IF it["override"] \in {Nil, Null} THEN UNCHANGED <<base, alias, defaults>> ELSE Overlay(it["override"])
    BY <1>4 DEF ItemOverride
  <2>2. Layers[4] = (IF it["override"] \in {Nil, Null} THEN EmptyDisplay ELSE it["override"]) /\ Layers[4] \in DisplayPrefs
    BY <1>1, <1>4 DEF LayersHold
  <2>3. base' = OverlayDisplay(base, Layers[4]) /\ base' \in DisplayPrefs /\ alias' = {} /\ defaults' = defaults
    <3>1. CASE it["override"] \in {Nil, Null}
      BY <1>2, <2>1, <2>2, <3>1, EmptyLayer DEF Inv, CallTypes
    <3>2. CASE it["override"] \notin {Nil, Null}
      BY <2>1, <2>2, <3>2, OverlayStep DEF Inv
    <3> QED BY <3>1, <3>2
  <2>4. DecodingInv'
    BY <1>1, <2>1, ItemUnchangedKeepsInv DEF Inv
  <2>5. CallTypes'
    BY <1>1, <2>1, <2>3 DEF Inv, CallTypes
  <2>6. Layers' = Layers /\ ManifestForItem(ref, it)' = ManifestForItem(ref, it) /\ it' = it
    BY <1>1, <2>3, LayersUnchanged
  <2> QED BY <1>1, <1>4, <2>1, <2>3, <2>4, <2>5, <2>6 DEF Inv, CallInv, b
<1> QED
  BY <1>3, <1>4

LEMMA ItemSettingsStep ==
  ASSUME Inv, ItemSettings
  PROVE  Inv'
<1> DEFINE b == OverlayDisplay(ApplyDisplayJSON(ApplyDisplayJSON(Layers[1], Layers[2]), Layers[3]), Layers[4])
<1>1. /\ LayersHold /\ base = b /\ ManifestForItem(ref, it) # Failure /\ it["override"] # Malformed
      /\ ItemUnchanged /\ ref' = ref /\ result' = result /\ pc' = "result"
  BY LayersAre DEF Inv, CallInv, ItemSettings
<1> HIDE DEF b
<1>2. base \in DisplayPrefs
  BY DEF Inv, CallTypes
<1>3. Layers[5] = (IF it["display"] = Nil THEN EmptyDisplay ELSE it["display"]) /\ Layers[5] \in DisplayPrefs
  BY <1>1 DEF LayersHold
<1>4. base' = OverlayDisplay(base, Layers[5]) /\ base' \in DisplayPrefs /\ alias' = {} /\ defaults' = defaults
  <2>1. CASE it["display"] = Nil
    BY <1>2, <1>3, <2>1, EmptyLayer DEF ItemSettings, Inv, CallTypes
  <2>2. CASE it["display"] # Nil
    BY <1>3, <2>2, OverlayStep DEF ItemSettings, Inv
  <2> QED BY <2>1, <2>2
<1>5. DecodingInv'
  BY <1>1, ItemUnchangedKeepsInv DEF Inv
<1>6. CallTypes'
  BY <1>1, <1>4 DEF Inv, CallTypes
<1>7. Layers' = Layers /\ ManifestForItem(ref, it)' = ManifestForItem(ref, it) /\ it' = it
  BY <1>1, <1>4, LayersUnchanged
<1> QED
  BY <1>1, <1>4, <1>5, <1>6, <1>7 DEF Inv, CallInv, b, Laid

LEMMA ReturnDisplayStep ==
  ASSUME Inv, ReturnDisplay
  PROVE  Inv'
<1>1. /\ base = Laid(Layers) /\ ManifestForItem(ref, it) # Failure /\ it["override"] # Malformed
      /\ ItemUnchanged /\ UNCHANGED <<ref, base, alias, defaults>>
      /\ pc' = "shown" /\ result' = IF IsEmptyDisplay(base) THEN Nil ELSE base
  BY DEF Inv, CallInv, ReturnDisplay
<1>2. result' # Failure
  BY <1>1, LayerAssumption DEF Inv, CallTypes
<1>3. DecodingInv'
  BY <1>1, ItemUnchangedKeepsInv DEF Inv
<1>4. CallTypes'
  BY <1>1 DEF Inv, CallTypes, Idle
<1>5. Layers' = Layers /\ ManifestForItem(ref, it)' = ManifestForItem(ref, it) /\ it' = it
  BY <1>1, LayersUnchanged
<1> QED
  BY <1>1, <1>2, <1>3, <1>4, <1>5 DEF Inv, CallInv

-----------------------------------------------------------------------------
(***************************************************************************)
(* The other steps of the consumer and of UnmarshalJSON.                   *)
(***************************************************************************)
LEMMA NewVariableStep ==
  ASSUME DecodingInv, NewVariable
  PROVE  DecodingInv' /\ pc' = "start"
<1>1. IsItem(it')
  BY ZeroIsItem DEF NewVariable
<1>2. DecodingTypes'
  BY <1>1 DEF DecodingInv, DecodingTypes, NewVariable, IsItem, IsMember
<1> QED
  BY <1>2 DEF DecodingInv, NewVariable

LEMMA KeepStep ==
  ASSUME DecodingInv, Keep
  PROVE  DecodingInv' /\ pc' = "decoded"
<1>1. IsItem(kept')
  BY DEF DecodingInv, DecodingTypes, Keep
<1>2. DecodingTypes'
  BY <1>1 DEF DecodingInv, DecodingTypes, Keep, IsItem, IsMember
<1> QED
  BY <1>2 DEF DecodingInv, Keep

LEMMA UnmarshalStep ==
  ASSUME DecodingInv, NEW d, IsDocument(d), Unmarshal(d)
  PROVE  DecodingInv' /\ pc' = "members"
<1>1. Len(doc') \in Nat /\ DOMAIN doc' = 1 .. Len(doc') /\ \A i \in DOMAIN doc' : IsMember(doc'[i])
  <2>1. Len(<<>>) \in Nat /\ DOMAIN <<>> = 1 .. Len(<<>>) /\ \A i \in DOMAIN <<>> : IsMember(<<>>[i])
    OBVIOUS
  <2>2. CASE d \in {NotObject, Null}
    BY <2>1, <2>2 DEF Unmarshal
  <2>3. CASE d \notin {NotObject, Null}
    BY <2>3 DEF Unmarshal, IsDocument
  <2> QED BY <2>2, <2>3
<1>2. /\ pc' = "members" /\ failed' = (d = NotObject) /\ at' = 1 /\ shadow' = it /\ fresh' = {} /\ before' = it
      /\ decodes < MaxDecodes /\ decodes' = decodes + 1 /\ UNCHANGED <<it, kept, shared>>
  BY DEF Unmarshal
<1>3. failed' \in BOOLEAN
  BY <1>2, Zenon
<1>4. at' \in Nat \ {0} /\ decodes' \in 0 .. MaxDecodes
  BY <1>2, DocumentAssumption DEF DecodingInv, DecodingTypes
<1>5. DecodingTypes'
  <2>1. DecodingTypes
    BY DEF DecodingInv
  <2>2. IsItem(it)' /\ IsItem(kept)' /\ IsItem(shadow)' /\ IsItem(before)'
    BY <1>2, <2>1 DEF DecodingTypes, IsItem
  <2>3. shared' \subseteq InMemory /\ fresh' \subseteq InMemory /\ \A f \in shared' : kept'[f] # Nil /\ it'[f] # Nil
    BY <1>2, <2>1, Zenon DEF DecodingTypes
  <2>4. (\A i \in DOMAIN doc : IsMember(doc[i]))'
    BY <1>1 DEF IsMember
  <2> QED BY <1>1, <1>3, <1>4, <2>2, <2>3, <2>4 DEF DecodingTypes
<1>6. \A f \in Field : InPlace(f)'
  <2> TAKE f \in Field
  <2>1. it' = it /\ before' = it /\ shadow' = it
    BY <1>2
  <2> QED BY <2>1 DEF InPlace
<1> QED
  BY <1>2, <1>5, <1>6 DEF DecodingInv

LEMMA TakenType ==
  ASSUME DecodingInv, NEW f \in Exact
  PROVE  Taken(f) \in Held[f]
BY HeldIs, Fields DEF DecodingInv, DecodingTypes, IsItem, Taken

LEMMA CommitStep ==
  ASSUME DecodingInv, Commit
  PROVE  DecodingInv' /\ pc' = "decoded"
<1>1. DecodingTypes /\ \A f \in Field : InPlace(f)
  BY DEF DecodingInv, Commit
<1>2. /\ it' = [f \in Field |-> IF f \in Exact THEN Taken(f) ELSE shadow[f]]
      /\ shared' = shared \ fresh /\ shadow' = Zero /\ fresh' = {} /\ pc' = "decoded"
      /\ UNCHANGED <<kept, doc, at, failed, before, decodes>>
  BY DEF Commit
<1>3. IsItem(it)'
  BY <1>1, <1>2, TakenType DEF DecodingInv, DecodingTypes, IsItem
<1>4. \A f \in shared' : kept'[f] # Nil /\ it'[f] # Nil
  <2> TAKE f \in shared'
  <2>1. f \in shared /\ f \notin fresh /\ f \in InMemory /\ f \in Field /\ f \notin Exact
    BY <1>1, <1>2, Fields DEF DecodingTypes
  <2>2. shadow[f] # Nil /\ kept[f] # Nil
    BY <1>1, <2>1 DEF DecodingTypes, InPlace
  <2> QED BY <1>2, <2>1, <2>2
<1>5. IsItem(shadow)' /\ IsItem(kept)' /\ IsItem(before)'
  BY <1>1, <1>2, ZeroIsItem DEF DecodingTypes, IsItem
<1>6. DecodingTypes'
  <2>1. shared' \subseteq InMemory /\ fresh' \subseteq InMemory
    BY <1>1, <1>2 DEF DecodingTypes
  <2>2. (\A i \in DOMAIN doc : IsMember(doc[i]))' /\ Len(doc') \in Nat /\ DOMAIN doc' = 1 .. Len(doc')
    BY <1>1, <1>2 DEF DecodingTypes, IsMember
  <2>3. failed' \in BOOLEAN /\ at' \in Nat \ {0} /\ decodes' \in 0 .. MaxDecodes
    BY <1>1, <1>2 DEF DecodingTypes
  <2> QED BY <1>3, <1>4, <1>5, <2>1, <2>2, <2>3 DEF DecodingTypes
<1> QED
  BY <1>2, <1>6 DEF DecodingInv

LEMMA ReturnErrorStep ==
  ASSUME DecodingInv, ReturnError
  PROVE  DecodingInv' /\ pc' = "refused"
<1>1. DecodingTypes
  BY DEF DecodingInv
<1>2. IsItem(shadow')
  BY ZeroIsItem DEF ReturnError
<1>3. DecodingTypes'
  BY <1>1, <1>2 DEF DecodingTypes, ReturnError, IsItem, IsMember
<1> QED
  BY <1>3 DEF DecodingInv, ReturnError

LEMMA DecodingStep ==
  ASSUME DecodingInv, DecodingNext
  PROVE  DecodingInv' /\ pc' \in {"start", "members", "decoded", "refused"}
<1>1. CASE NewVariable \/ Keep
  BY <1>1, NewVariableStep, KeepStep
<1>2. ASSUME NEW d \in Document \cup FirstDocument, Unmarshal(d)
      PROVE  DecodingInv' /\ pc' \in {"start", "members", "decoded", "refused"}
  BY <1>2, UnmarshalStep, DocumentAssumption
<1>3. CASE \/ DecodePlain \/ DecodeSink \/ DecodeNull \/ DecodeMismatch \/ DecodePointer
           \/ DecodeProvenance \/ DecodeRaw
  <2>1. More /\ OnlyMember(Current.field)
    BY <1>3, MemberStep
  <2>2. pc' = "members"
    BY <2>1 DEF More, OnlyMember
  <2> QED BY <2>1, <2>2, MemberKeepsInv
<1>4. CASE Commit \/ ReturnError
  BY <1>4, CommitStep, ReturnErrorStep
<1> QED
  BY <1>1, <1>2, <1>3, <1>4 DEF DecodingNext

LEMMA ForgetStep ==
  ASSUME Inv, Forget, pc' \in {"start", "members", "decoded", "refused"}
  PROVE  CallTypes' /\ CallInv'
<1>1. CallTypes'
  BY EmptyDisplayType DEF Forget, CallTypes, Idle
<1> QED
  BY <1>1 DEF CallInv

LEMMA Inductive == Spec => []Inv
<1>1. Init => Inv
  <2> SUFFICES ASSUME Init PROVE Inv
    OBVIOUS
  <2>1. DecodingTypes
    <3>1. IsItem(it) /\ IsItem(kept) /\ IsItem(before) /\ IsItem(shadow)
      BY ZeroIsItem DEF Init, DecodingInit
    <3>2. shared \subseteq InMemory /\ fresh \subseteq InMemory /\ \A f \in shared : kept[f] # Nil /\ it[f] # Nil
      BY DEF Init, DecodingInit
    <3>3. at \in Nat \ {0} /\ decodes \in 0 .. MaxDecodes
      BY DocumentAssumption DEF Init, DecodingInit
    <3>4. failed \in BOOLEAN
      BY Zenon DEF Init, DecodingInit
    <3>5. Len(doc) \in Nat /\ DOMAIN doc = 1 .. Len(doc) /\ \A i \in DOMAIN doc : IsMember(doc[i])
      <4>1. doc = <<>>
        BY DEF Init, DecodingInit
      <4> QED BY <4>1
    <3> QED BY <3>1, <3>2, <3>3, <3>4, <3>5 DEF DecodingTypes
  <2>2. CallTypes
    BY EmptyDisplayType DEF Init, DecodingInit, CallTypes, Idle
  <2>3. pc = "start"
    BY DEF Init, DecodingInit
  <2> QED BY <2>1, <2>2, <2>3 DEF Inv, DecodingInv, CallInv
<1>2. Inv /\ [Next]_vars => Inv'
  <2> SUFFICES ASSUME Inv, [Next]_vars PROVE Inv'
    OBVIOUS
  <2>1. CASE DecodingNext /\ Forget
    BY <2>1, DecodingStep, ForgetStep DEF Inv
  <2>2. CASE \E def \in Defaults, manifest \in Fetched : DisplayForItem(def, manifest)
    BY <2>2, DisplayForItemStep
  <2>3. CASE InlineManifest \/ RefManifest \/ ItemOverride \/ ItemSettings \/ ReturnDisplay
    BY <2>3, InlineManifestStep, RefManifestStep, ItemOverrideStep, ItemSettingsStep, ReturnDisplayStep
  <2>4. CASE UNCHANGED vars
    <3>1. UNCHANGED <<it, kept, shared, pc, doc, at, shadow, fresh, failed, before, decodes>>
      BY <2>4 DEF vars, decoding
    <3>2. UNCHANGED <<defaults, ref, base, alias, result>>
      BY <2>4 DEF vars, display
    <3>3. DecodingInv'
      BY <3>1 DEF Inv, DecodingInv, DecodingTypes, InPlace, IsMember, IsItem, Members
    <3>4. CallTypes'
      BY <3>1, <3>2 DEF Inv, CallTypes
    <3>5. Layers' = Layers /\ ManifestForItem(ref, it)' = ManifestForItem(ref, it)
      BY <3>1, <3>2 DEF Layers, ParseInlineManifest, ManifestForItem
    <3>6. CallInv'
      BY <3>1, <3>2, <3>5 DEF Inv, CallInv
    <3> QED BY <3>3, <3>4, <3>6 DEF Inv
  <2> QED BY <2>1, <2>2, <2>3, <2>4 DEF Next
<1> QED
  BY <1>1, <1>2, PTL DEF Spec

-----------------------------------------------------------------------------
(***************************************************************************)
(* What the shadow holds when a part of the document is decoded: the same  *)
(* as DecodeMergesOrKeeps says of the item, of the members so far.         *)
(***************************************************************************)
Done(f)   == {i \in Members(f) : i < at}
Set(f, S) == IF f = "title" THEN {i \in S : doc[i].value # Null} ELSE S

\* The value of a field after the members S of it.
PlainAfter(f, S) ==
  IF Set(f, S) = {} THEN before[f]
  ELSE IF f = "displayAt" /\ doc[LastOf(Set(f, S))].value = Null THEN Nil
  ELSE doc[LastOf(Set(f, S))].value

\* x is a display after the members S of document d, and was y before.
MergedFrom(x, S, d, y) ==
  LET nulls == {i \in S : d[i].value = Null} IN
  IF x = Nil THEN IF S = {} THEN y = Nil ELSE d[LastOf(S)].value = Null
  ELSE \A s \in Setting :
         LET told == {i \in S \ nulls : d[i].value.plain[s] # Unset /\ \A n \in nulls : n < i}
         IN  x.plain[s] =
               IF told # {} THEN d[LastOf(told)].value.plain[s]
               ELSE IF nulls # {} \/ y = Nil THEN Unset
               ELSE y.plain[s]

DisplayAfter(x, S) == MergedFrom(x, S, doc, before["display"])

Plainly == {"title", "displayAt"} \cup Raw

MergeInv ==
  /\ pc = "members" /\ ~failed =>
       /\ \A f \in Plainly : shadow[f] = PlainAfter(f, Done(f))
       /\ DisplayAfter(shadow["display"], Done("display"))
  /\ pc = "decoded" =>
       /\ \A f \in Plainly : it[f] = PlainAfter(f, Members(f))
       /\ DisplayAfter(it["display"], Members("display"))

LEMMA DoneNext ==
  ASSUME DecodingInv, More, doc' = doc, at' = at + 1
  PROVE  /\ \A g : g = Current.field => Done(g)' = Done(g) \cup {at}
         /\ \A g : g # Current.field => Done(g)' = Done(g)
         /\ \A g : Done(g) \subseteq 1 .. Len(doc) /\ \A i \in Done(g) : i < at
         /\ at \in 1 .. Len(doc) /\ Len(doc) \in Nat
<1>1. Len(doc) \in Nat /\ DOMAIN doc = 1 .. Len(doc) /\ at \in 1 .. Len(doc)
  BY DEF DecodingInv, DecodingTypes, More
<1>2. \A g : Done(g)' = {i \in Members(g) : i < at + 1}
  BY DEF Done, Members
<1>3. \A g : Members(g) \subseteq 1 .. Len(doc) /\ (at \in Members(g) <=> g = Current.field)
  BY <1>1 DEF Members, Current
<1>4. \A g : Done(g)' = Done(g) \cup (Members(g) \cap {at})
  <2> TAKE g
  <2>1. \A i \in Members(g) : i < at + 1 <=> i < at \/ i = at
    BY <1>1, <1>3
  <2> QED BY <1>2, <2>1 DEF Done
<1>5. \A g : g = Current.field => Done(g)' = Done(g) \cup {at}
  BY <1>3, <1>4
<1>6. \A g : g # Current.field => Done(g)' = Done(g)
  BY <1>3, <1>4
<1>7. \A g : Done(g) \subseteq 1 .. Len(doc) /\ \A i \in Done(g) : i < at
  BY <1>3 DEF Done
<1> QED
  BY <1>1, <1>5, <1>6, <1>7

LEMMA LastIsNew ==
  ASSUME NEW n \in Nat, NEW i \in 1 .. n, NEW S \in SUBSET (1 .. n), \A j \in S : j < i
  PROVE  LastOf(S \cup {i}) = i
<1>1. \A j \in S \cup {i} : j <= i
  BY SMT
<1>2. S \cup {i} \in SUBSET (1 .. n) /\ i \in S \cup {i}
  OBVIOUS
<1> DEFINE T == S \cup {i}
<1> HIDE DEF T
<1>3. LastOf(T) = i
  BY <1>1, <1>2, LastOfIs DEF T
<1> QED BY <1>3 DEF T

LEMMA DecodedDisplay ==
  ASSUME NEW n \in Nat, NEW i \in 1 .. n, NEW S \in SUBSET (1 .. n), \A j \in S : j < i,
         NEW x \in DisplayPrefs \cup {Nil}, DisplayAfter(x, S), doc[i].value \in DisplayPrefs
  PROVE  DisplayAfter(DecodeInto(IF x = Nil THEN EmptyDisplay ELSE x, doc[i].value), S \cup {i})
<1> DEFINE v     == doc[i].value
           cur   == IF x = Nil THEN EmptyDisplay ELSE x
           new   == DecodeInto(cur, v)
           T     == S \cup {i}
           nulls == {j \in S : doc[j].value = Null}
           told(s) == {j \in S \ nulls : doc[j].value.plain[s] # Unset /\ \A m \in nulls : m < j}
           newly(s) == {j \in T \ nulls : doc[j].value.plain[s] # Unset /\ \A m \in nulls : m < j}
<1>1. v # Null /\ nulls = {j \in T : doc[j].value = Null}
  BY Values
<1>2. cur \in DisplayPrefs
  BY EmptyDisplayType
<1>3. new # Nil
  <2>1. new \in DisplayPrefs
    <3> HIDE DEF cur
    <3> QED BY <1>2, DecodeIntoType
  <2> HIDE DEF new
  <2> QED BY <2>1, Values
<1>4. \A s \in Setting : new.plain[s] = Later(cur.plain[s], v.plain[s])
  BY DEF DecodeInto, LaterOf
<1>5. ASSUME NEW s \in Setting
      PROVE  new.plain[s] =
               IF newly(s) # {} THEN doc[LastOf(newly(s))].value.plain[s]
               ELSE IF nulls # {} \/ before["display"] = Nil THEN Unset
               ELSE before["display"].plain[s]
  <2>1. CASE v.plain[s] # Unset
    <3>1. newly(s) = told(s) \cup {i}
      <4>1. i \notin nulls /\ \A m \in nulls : m < i
        BY <1>1
      <4> QED BY <2>1, <4>1
    <3>2. LastOf(newly(s)) = i
      <4>1. told(s) \in SUBSET (1 .. n) /\ \A j \in told(s) : j < i
        OBVIOUS
      <4> HIDE DEF told, newly
      <4> QED BY <3>1, <4>1, LastIsNew
    <3>3. i \in newly(s)
      BY <3>1
    <3>4. new.plain[s] = v.plain[s]
      BY <1>4, <2>1 DEF Later
    <3> HIDE DEF newly, new
    <3> QED BY <3>2, <3>3, <3>4
  <2>2. CASE v.plain[s] = Unset
    <3>1. newly(s) = told(s)
      BY <2>2
    <3>2. new.plain[s] = cur.plain[s]
      BY <1>4, <2>2 DEF Later
    <3>3. CASE x = Nil
      <4>1. cur.plain[s] = Unset
        BY <3>3 DEF EmptyDisplay
      <4>2. told(s) = {} /\ (nulls # {} \/ before["display"] = Nil)
        <5>1. CASE S = {}
          BY <3>3, <5>1 DEF DisplayAfter, MergedFrom
        <5>2. CASE S # {}
          <6>1. doc[LastOf(S)].value = Null
            BY <3>3, <5>2 DEF DisplayAfter, MergedFrom
          <6>2. LastOf(S) \in S /\ \A j \in S : j <= LastOf(S)
            BY <5>2, LastOfExists
          <6>3. PICK last \in nulls : \A j \in S : j <= last
            BY <6>1, <6>2
          <6>4. \A j \in S : j \in Int
            OBVIOUS
          <6>5. \A j \in S : ~(last < j)
            BY <6>3, <6>4
          <6> QED BY <6>3, <6>5
        <5> QED BY <5>1, <5>2
      <4> HIDE DEF newly, new, told, nulls, cur
      <4> QED BY <3>1, <3>2, <4>1, <4>2
    <3>4. CASE x # Nil
      <4>1. x.plain[s] = IF told(s) # {} THEN doc[LastOf(told(s))].value.plain[s]
                         ELSE IF nulls # {} \/ before["display"] = Nil THEN Unset
                         ELSE before["display"].plain[s]
        BY <3>4 DEF DisplayAfter, MergedFrom
      <4>2. cur = x
        BY <3>4
      <4> HIDE DEF newly, new, told, nulls, cur
      <4> QED BY <3>1, <3>2, <4>1, <4>2
    <3> QED BY <3>3, <3>4
  <2> QED BY <2>1, <2>2
<1>6. DisplayAfter(new, T) <=>
        \A s \in Setting :
          new.plain[s] = IF newly(s) # {} THEN doc[LastOf(newly(s))].value.plain[s]
                         ELSE IF nulls # {} \/ before["display"] = Nil THEN Unset
                         ELSE before["display"].plain[s]
  <2> HIDE DEF new, T
  <2> QED BY <1>1, <1>3 DEF DisplayAfter, MergedFrom
<1> HIDE DEF newly, nulls
<1>7. DisplayAfter(new, T)
  BY <1>5, <1>6
<1> QED BY <1>7

LEMMA PlainNext ==
  ASSUME DecodingInv, More, UNCHANGED <<doc, before>>, at' = at + 1,
         NEW f \in Plainly, shadow[f] = PlainAfter(f, Done(f)),
         \/ f # Current.field /\ shadow'[f] = shadow[f]
         \/ f = Current.field /\ f = "title" /\ Current.value = Null /\ shadow'[f] = shadow[f]
         \/ /\ f = Current.field /\ (f = "title" => Current.value # Null)
            /\ shadow'[f] = IF f = "displayAt" /\ Current.value = Null THEN Nil ELSE Current.value
  PROVE  shadow'[f] = PlainAfter(f, Done(f))'
<1>1. /\ f = Current.field => Done(f)' = Done(f) \cup {at}
      /\ f # Current.field => Done(f)' = Done(f)
      /\ Done(f) \subseteq 1 .. Len(doc) /\ \A i \in Done(f) : i < at
      /\ at \in 1 .. Len(doc) /\ Len(doc) \in Nat
  BY DoneNext
<1> DEFINE old == Set(f, Done(f))
           new == Set(f, Done(f)')
<1>2. PlainAfter(f, Done(f))' = IF new = {} THEN before[f]
                                ELSE IF f = "displayAt" /\ doc[LastOf(new)].value = Null THEN Nil
                                ELSE doc[LastOf(new)].value
  BY DEF PlainAfter, Set, LastOf
<1>3. CASE \/ f # Current.field /\ shadow'[f] = shadow[f]
           \/ f = Current.field /\ f = "title" /\ Current.value = Null /\ shadow'[f] = shadow[f]
  <2>1. new = old
    BY <1>1, <1>3 DEF Set, Current
  <2> HIDE DEF new, old
  <2>2. shadow[f] = IF old = {} THEN before[f]
                    ELSE IF f = "displayAt" /\ doc[LastOf(old)].value = Null THEN Nil
                    ELSE doc[LastOf(old)].value
    BY DEF PlainAfter, old
  <2> QED BY <1>2, <1>3, <2>1, <2>2
<1>4. CASE /\ f = Current.field /\ (f = "title" => Current.value # Null)
           /\ shadow'[f] = IF f = "displayAt" /\ Current.value = Null THEN Nil ELSE Current.value
  <2>1. new = old \cup {at} /\ old \in SUBSET (1 .. Len(doc)) /\ \A i \in old : i < at
    BY <1>1, <1>4 DEF Set, Current
  <2> HIDE DEF new, old
  <2>2. LastOf(new) = at /\ new # {}
    BY <1>1, <2>1, LastIsNew
  <2> QED BY <1>2, <1>4, <2>2 DEF Current
<1> QED
  BY <1>3, <1>4

LEMMA DisplayNext ==
  ASSUME DecodingInv, More, UNCHANGED <<doc, before>>, at' = at + 1, NEW f, f = "display",
         DisplayAfter(shadow[f], Done(f)),
         \/ f # Current.field /\ shadow'[f] = shadow[f]
         \/ f = Current.field /\ Current.value = Null /\ shadow'[f] = Nil
         \/ /\ f = Current.field /\ Current.value \in DisplayPrefs
            /\ shadow'[f] = DecodeInto(IF shadow[f] = Nil THEN EmptyDisplay ELSE shadow[f], Current.value)
  PROVE  DisplayAfter(shadow[f], Done(f))'
<1>1. /\ f = Current.field => Done(f)' = Done(f) \cup {at}
      /\ f # Current.field => Done(f)' = Done(f)
      /\ Done(f) \subseteq 1 .. Len(doc) /\ \A i \in Done(f) : i < at
      /\ at \in 1 .. Len(doc) /\ Len(doc) \in Nat
  BY DoneNext
<1>3. DisplayAfter(shadow[f], Done(f))' <=> DisplayAfter(shadow'[f], Done(f)')
  BY DEF DisplayAfter
<1>4. CASE f # Current.field /\ shadow'[f] = shadow[f]
  BY <1>1, <1>3, <1>4
<1>5. CASE f = Current.field /\ Current.value = Null /\ shadow'[f] = Nil
  <2> DEFINE T == Done(f) \cup {at}
  <2>1. LastOf(T) = at /\ T # {}
    BY <1>1, LastIsNew
  <2> HIDE DEF T
  <2>2. DisplayAfter(Nil, T)
    BY <1>5, <2>1 DEF DisplayAfter, MergedFrom, Current
  <2> QED BY <1>1, <1>3, <1>5, <2>2 DEF T
<1>6. CASE /\ f = Current.field /\ Current.value \in DisplayPrefs
           /\ shadow'[f] = DecodeInto(IF shadow[f] = Nil THEN EmptyDisplay ELSE shadow[f], Current.value)
  <2>1. shadow[f] \in DisplayPrefs \cup {Nil}
    BY HeldIs DEF DecodingInv, DecodingTypes, IsItem, Field, Pointer
  <2>2. DisplayAfter(DecodeInto(IF shadow[f] = Nil THEN EmptyDisplay ELSE shadow[f], doc[at].value), Done(f) \cup {at})
    BY <1>1, <1>6, <2>1, DecodedDisplay DEF Current
  <2> QED BY <1>1, <1>3, <1>6, <2>2 DEF Current
<1> QED
  BY <1>4, <1>5, <1>6

\* What a step that saves no error does to the shadow of its own member.
OwnMember(f) ==
  /\ at' = at + 1 /\ ~failed
  /\ f \in Plainly =>
       \/ f = "title" /\ Current.value = Null /\ shadow'[f] = shadow[f]
       \/ /\ f = "title" => Current.value # Null
          /\ shadow'[f] = IF f = "displayAt" /\ Current.value = Null THEN Nil ELSE Current.value
  /\ f = "display" =>
       \/ Current.value = Null /\ shadow'[f] = Nil
       \/ /\ Current.value \in DisplayPrefs
          /\ shadow'[f] = DecodeInto(IF shadow[f] = Nil THEN EmptyDisplay ELSE shadow[f], Current.value)

LEMMA StoredIs ==
  ASSUME DecodingInv, NEW f \in Field, NEW v, StoreFresh(f, v) \/ \E a, b : Store(f, v, a, b)
  PROVE  shadow'[f] = v
<1>1. shadow' = [shadow EXCEPT ![f] = v] /\ f \in DOMAIN shadow
  BY DEF DecodingInv, DecodingTypes, IsItem, StoreFresh, Store
<1> QED BY <1>1

LEMMA OwnMemberStep ==
  ASSUME DecodingInv, ~failed',
         \/ DecodePlain \/ DecodeSink \/ DecodeNull \/ DecodeMismatch \/ DecodePointer
         \/ DecodeProvenance \/ DecodeRaw
  PROVE  OwnMember(Current.field)
<1> DEFINE f == Current.field
           v == Current.value
<1>1. \/ v \in Typeable[f]
      \/ f \notin Raw /\ v \in {Null, Mismatch}
  BY CurrentMember, MemberStep
<1>2. f \in Field
  BY CurrentMember, MemberStep
<1>3. \A g \in Field : \A x : (StorePointer(g, x) => shadow'[g] = x)
  BY StoredIs DEF StorePointer
<1>4. CASE DecodePlain
  <2>1. f = "title" /\ at' = at + 1 /\ ~failed /\ v # Mismatch /\ v \in Text \cup {Null}
    BY <1>1, <1>4, TypeableIs DEF DecodePlain
  <2>2. CASE v \in Text
    <3>1. shadow' = [shadow EXCEPT !["title"] = v] /\ f \in DOMAIN shadow
      BY <1>2, <1>4, <2>2 DEF DecodePlain, DecodingInv, DecodingTypes, IsItem
    <3>2. shadow'[f] = v /\ v # Null
      BY <2>1, <2>2, <3>1, Values
    <3> QED BY <2>1, <3>2 DEF OwnMember
  <2>3. CASE v \notin Text
    BY <1>4, <2>1, <2>3 DEF DecodePlain, OwnMember
  <2> QED BY <2>2, <2>3
<1>5. CASE DecodeSink
  BY <1>5 DEF DecodeSink, OwnMember, Exact, Plainly, Raw
<1>6. CASE DecodeNull
  <2>1. f \in Pointer /\ v = Null /\ at' = at + 1 /\ ~failed /\ StoreFresh(f, Nil)
    BY <1>6 DEF DecodeNull
  <2>2. shadow'[f] = Nil
    BY <1>2, <2>1, StoredIs
  <2> QED BY <2>1, <2>2 DEF OwnMember, Pointer, Plainly, Raw
<1>7. CASE DecodeMismatch
  BY <1>7 DEF DecodeMismatch
<1>8. CASE DecodePointer
  <2>1. f \in {"displayAt", "display"} /\ at' = at + 1 /\ ~failed /\ v \in Typeable[f]
    BY <1>8 DEF DecodePointer
  <2>2. StorePointer(f, IF f = "displayAt" THEN v
                        ELSE DecodeInto(IF shadow["display"] = Nil THEN EmptyDisplay ELSE shadow["display"], v))
    BY <1>8 DEF DecodePointer
  <2>3. CASE f = "displayAt"
    <3>1. shadow'[f] = v /\ v # Null
      BY <1>2, <1>3, <2>1, <2>2, <2>3, TypeableIs, Values
    <3> QED BY <2>1, <2>3, <3>1 DEF OwnMember
  <2>4. CASE f = "display"
    <3>1. v \in DisplayPrefs
      BY <2>1, <2>4, TypeableIs
    <3>2. shadow'[f] = DecodeInto(IF shadow[f] = Nil THEN EmptyDisplay ELSE shadow[f], v)
      BY <1>2, <1>3, <2>2, <2>4
    <3> QED BY <2>1, <2>4, <3>1, <3>2 DEF OwnMember, Plainly, Raw
  <2> QED BY <2>1, <2>3, <2>4
<1>9. CASE DecodeProvenance
  BY <1>9 DEF DecodeProvenance, OwnMember, Plainly, Raw
<1>10. CASE DecodeRaw
  <2>1. f \in Raw /\ at' = at + 1 /\ ~failed /\ (StoreFresh(f, v) \/ \E a, b : Store(f, v, a, b))
    BY <1>10 DEF DecodeRaw
  <2>2. shadow'[f] = v
    BY <1>2, <2>1, StoredIs
  <2> QED BY <2>1, <2>2 DEF OwnMember, Raw
<1> QED
  BY <1>4, <1>5, <1>6, <1>7, <1>8, <1>9, <1>10

LEMMA MemberMerges ==
  ASSUME DecodingInv, MergeInv,
         \/ DecodePlain \/ DecodeSink \/ DecodeNull \/ DecodeMismatch \/ DecodePointer
         \/ DecodeProvenance \/ DecodeRaw
  PROVE  MergeInv'
<1>1. More /\ OnlyMember(Current.field) /\ pc = "members" /\ pc' = "members" /\ UNCHANGED <<doc, before>>
  BY MemberStep DEF More, OnlyMember
<1> SUFFICES ASSUME ~failed'
             PROVE  /\ \A f \in Plainly : shadow'[f] = PlainAfter(f, Done(f))'
                    /\ DisplayAfter(shadow["display"], Done("display"))'
  BY <1>1 DEF MergeInv
<1>2. OwnMember(Current.field)
  BY OwnMemberStep
<1>3. Plainly \subseteq Field /\ "display" \in Field
  BY DEF Plainly, Field, Pointer, Raw
<1>4. \A g \in Field : g # Current.field => shadow'[g] = shadow[g]
  BY <1>1 DEF OnlyMember
<1>5. /\ \A f \in Plainly : shadow[f] = PlainAfter(f, Done(f))
      /\ DisplayAfter(shadow["display"], Done("display")) /\ at' = at + 1
  BY <1>1, <1>2 DEF MergeInv, OwnMember
<1>6. ASSUME NEW f \in Plainly
      PROVE  shadow'[f] = PlainAfter(f, Done(f))'
  <2>1. \/ f # Current.field /\ shadow'[f] = shadow[f]
        \/ f = Current.field /\ f = "title" /\ Current.value = Null /\ shadow'[f] = shadow[f]
        \/ /\ f = Current.field /\ (f = "title" => Current.value # Null)
           /\ shadow'[f] = IF f = "displayAt" /\ Current.value = Null THEN Nil ELSE Current.value
    BY <1>2, <1>3, <1>4 DEF OwnMember
  <2> QED BY <1>1, <1>5, <2>1, PlainNext
<1>7. DisplayAfter(shadow["display"], Done("display"))'
  <2> DEFINE f == "display"
  <2>1. \/ f # Current.field /\ shadow'[f] = shadow[f]
        \/ f = Current.field /\ Current.value = Null /\ shadow'[f] = Nil
        \/ /\ f = Current.field /\ Current.value \in DisplayPrefs
           /\ shadow'[f] = DecodeInto(IF shadow[f] = Nil THEN EmptyDisplay ELSE shadow[f], Current.value)
    BY <1>2, <1>3, <1>4 DEF OwnMember
  <2> QED BY <1>1, <1>5, <2>1, DisplayNext
<1> QED
  BY <1>6, <1>7

LEMMA AfterUnchanged ==
  ASSUME UNCHANGED <<doc, before>>, NEW f
  PROVE  /\ Members(f)' = Members(f) => PlainAfter(f, Members(f))' = PlainAfter(f, Members(f))
         /\ Done(f)' = Done(f) => PlainAfter(f, Done(f))' = PlainAfter(f, Done(f))
<1> DEFINE Stored(S) == IF S = {} THEN before[f]
                       ELSE IF f = "displayAt" /\ doc[LastOf(S)].value = Null THEN Nil
                       ELSE doc[LastOf(S)].value
<1>1. /\ PlainAfter(f, Members(f))' = Stored(Set(f, Members(f)'))
      /\ PlainAfter(f, Done(f))' = Stored(Set(f, Done(f)'))
  BY DEF PlainAfter, Set, LastOf
<1>2. \A S : PlainAfter(f, S) = Stored(Set(f, S))
  BY DEF PlainAfter
<1> HIDE DEF Stored
<1> QED BY <1>1, <1>2

LEMMA DisplayUnchanged ==
  ASSUME UNCHANGED <<doc, before>>
  PROVE  /\ DisplayAfter(it["display"], Members("display"))' <=>
              DisplayAfter(it'["display"], Members("display")')
         /\ DisplayAfter(shadow["display"], Done("display"))' <=>
              DisplayAfter(shadow'["display"], Done("display")')
BY DEF DisplayAfter

LEMMA UnmarshalMerges ==
  ASSUME DecodingInv, NEW d, Unmarshal(d), IsDocument(d)
  PROVE  MergeInv'
<1>1. at' = 1 /\ shadow' = it /\ before' = it /\ pc' = "members"
  BY DEF Unmarshal
<1>2. DOMAIN doc' \subseteq Nat \ {0}
  <2>1. Len(doc') \in Nat /\ DOMAIN doc' = 1 .. Len(doc')
    BY UnmarshalStep DEF DecodingInv, DecodingTypes
  <2> QED BY <2>1
<1>3. \A f : Done(f)' = {}
  BY <1>1, <1>2 DEF Done, Members
<1>4. \A f : shadow'[f] = PlainAfter(f, Done(f))'
  BY <1>1, <1>3 DEF PlainAfter, Set
<1>5. DisplayAfter(shadow["display"], Done("display"))'
  BY <1>1, <1>3 DEF DisplayAfter, MergedFrom
<1> QED
  BY <1>1, <1>4, <1>5 DEF MergeInv

LEMMA CommitMerges ==
  ASSUME DecodingInv, MergeInv, Commit
  PROVE  MergeInv'
<1>1. pc = "members" /\ ~failed /\ at > Len(doc) /\ pc' = "decoded" /\ UNCHANGED <<doc, before>>
  BY DEF Commit
<1>2. \A f \in Plainly \cup {"display"} : it'[f] = shadow[f]
  <2>1. \A f \in Plainly \cup {"display"} : f \in Field /\ f \notin Exact
    BY DEF Plainly, Field, Raw, Pointer, Exact
  <2> QED BY <2>1 DEF Commit
<1>3. \A f : Done(f) = Members(f) /\ Members(f)' = Members(f)
  <2>1. Len(doc) \in Nat /\ DOMAIN doc = 1 .. Len(doc) /\ at \in Nat
    BY DEF DecodingInv, DecodingTypes
  <2> QED BY <1>1, <2>1 DEF Done, Members
<1>4. ASSUME NEW f \in Plainly
      PROVE  it'[f] = PlainAfter(f, Members(f))'
  <2>1. shadow[f] = PlainAfter(f, Members(f))
    BY <1>1, <1>3 DEF MergeInv
  <2>2. PlainAfter(f, Members(f))' = PlainAfter(f, Members(f))
    BY <1>1, <1>3, AfterUnchanged
  <2> QED BY <1>2, <2>1, <2>2
<1>5. DisplayAfter(it["display"], Members("display"))'
  <2>1. DisplayAfter(shadow["display"], Members("display"))
    BY <1>1, <1>3 DEF MergeInv
  <2>2. it'["display"] = shadow["display"] /\ Members("display")' = Members("display")
    BY <1>2, <1>3
  <2> QED BY <1>1, <2>1, <2>2, DisplayUnchanged
<1> QED
  BY <1>1, <1>4, <1>5 DEF MergeInv

LEMMA MergeUnchanged ==
  ASSUME MergeInv, pc' = pc, UNCHANGED <<it, shadow, at, failed, doc, before>>
  PROVE  MergeInv'
<1>1. \A f : Members(f)' = Members(f) /\ Done(f)' = Done(f)
  BY DEF Members, Done
<1>2. \A f : PlainAfter(f, Members(f))' = PlainAfter(f, Members(f)) /\ PlainAfter(f, Done(f))' = PlainAfter(f, Done(f))
  BY <1>1, AfterUnchanged
<1>3. /\ DisplayAfter(it["display"], Members("display"))' <=> DisplayAfter(it["display"], Members("display"))
      /\ DisplayAfter(shadow["display"], Done("display"))' <=> DisplayAfter(shadow["display"], Done("display"))
  BY <1>1, DisplayUnchanged
<1> QED
  BY <1>2, <1>3 DEF MergeInv

\* What is left to say of a step that does not decode.
LEMMA OtherSteps ==
  ASSUME [Next]_vars, ~DecodingNext
  PROVE  \/ pc' \notin {"members", "decoded", "refused"}
         \/ pc' = pc /\ UNCHANGED <<it, shadow, at, failed, doc, before>>
<1>1. CASE \E def \in Defaults, manifest \in Fetched : DisplayForItem(def, manifest)
  BY <1>1 DEF DisplayForItem
<1>2. CASE InlineManifest \/ RefManifest \/ ItemOverride \/ ItemSettings \/ ReturnDisplay
  BY <1>2 DEF InlineManifest, RefManifest, ItemOverride, ItemSettings, ReturnDisplay, Fail
<1>3. CASE UNCHANGED vars
  BY <1>3 DEF vars, decoding
<1> QED BY <1>1, <1>2, <1>3 DEF Next

LEMMA Merging == Spec => []MergeInv
<1>1. Init => MergeInv
  BY DEF Init, DecodingInit, MergeInv
<1>2. Inv /\ MergeInv /\ [Next]_vars => MergeInv'
  <2> SUFFICES ASSUME Inv, MergeInv, [Next]_vars PROVE MergeInv'
    OBVIOUS
  <2>0. DecodingInv
    BY DEF Inv
  <2>1. CASE \/ DecodePlain \/ DecodeSink \/ DecodeNull \/ DecodeMismatch \/ DecodePointer
             \/ DecodeProvenance \/ DecodeRaw
    BY <2>0, <2>1, MemberMerges
  <2>2. ASSUME NEW d \in Document \cup FirstDocument, Unmarshal(d) PROVE MergeInv'
    BY <2>0, <2>2, UnmarshalMerges, DocumentAssumption
  <2>3. CASE Commit
    BY <2>0, <2>3, CommitMerges
  <2>4. CASE ReturnError \/ NewVariable
    BY <2>4 DEF ReturnError, NewVariable, MergeInv
  <2>5. CASE Keep
    <3>1. pc' = pc /\ UNCHANGED <<it, shadow, at, failed, doc, before>>
      BY <2>5 DEF Keep
    <3> QED BY <3>1, MergeUnchanged
  <2>6. CASE ~DecodingNext
    <3>1. CASE pc' \notin {"members", "decoded", "refused"}
      BY <3>1 DEF MergeInv
    <3>2. CASE pc' = pc /\ UNCHANGED <<it, shadow, at, failed, doc, before>>
      BY <3>2, MergeUnchanged
    <3> QED BY <2>6, <3>1, <3>2, OtherSteps
  <2> QED BY <2>1, <2>2, <2>3, <2>4, <2>5, <2>6 DEF DecodingNext
<1> QED
  BY <1>1, <1>2, Inductive, PTL DEF Spec

-----------------------------------------------------------------------------
(***************************************************************************)
(* What holds of every item, document, playlist and manifest.              *)
(***************************************************************************)
\* Variables and memory keep their Go types: a display is complete or absent, and the copy
\* of an item points only to memory that is there.
THEOREM TypeCorrect == Spec => []TypeOK
<1>1. Inv => TypeOK
  BY Fields DEF Inv, DecodingInv, DecodingTypes, CallTypes, IsItem, TypeOK
<1> QED
  BY <1>1, Inductive, PTL

\* DisplayForItem gives a layer's setting if no higher layer has it, fails only if the only
\* manifest or the override does not decode, and outside the known gap of merge.go is right
\* about interactions as well.
THEOREM DisplayIsLastWins == Spec => []LastWinsButForTheGap
<1>1. Inv => LastWinsButForTheGap
  <2> SUFFICES ASSUME Inv, pc = "shown", result # Failure
               PROVE  LastWinsButForTheGap
    BY DEF Inv, CallInv, LastWinsButForTheGap
  <2> DEFINE shown == IF result = Nil THEN EmptyDisplay ELSE result
  <2>1. /\ ManifestForItem(ref, it) # Failure /\ it["override"] # Malformed
        /\ result = IF IsEmptyDisplay(Laid(Layers)) THEN Nil ELSE Laid(Layers)
    BY DEF Inv, CallInv
  <2>2. LayersTyped
    BY <2>1, LayersAre DEF Inv, LayersHold, LayersTyped
  <2>3. Laid(Layers) \in DisplayPrefs
    BY <2>2, LaidWins
  <2>4. shown = Laid(Layers)
    <3>1. CASE IsEmptyDisplay(Laid(Layers))
      <4>1. Laid(Layers) = EmptyDisplay
        <5> DEFINE d == Laid(Layers)
        <5>1. d \in DisplayPrefs /\ IsEmptyDisplay(d)
          BY <2>3, <3>1
        <5> HIDE DEF d
        <5>2. d = EmptyDisplay
          BY <5>1 DEF IsEmptyDisplay, EmptyDisplay, DisplayPrefs
        <5> QED BY <5>2 DEF d
      <4> QED BY <2>1, <3>1, <4>1
    <3>2. CASE ~IsEmptyDisplay(Laid(Layers))
      BY <2>1, <2>3, <3>2, LayerAssumption
    <3> QED BY <3>1, <3>2
  <2>5. result = Nil <=> IsEmptyDisplay(shown)
    BY <2>1, <2>3, <2>4, LayerAssumption
  <2> HIDE DEF shown
  <2> QED BY <2>1, <2>2, <2>4, <2>5, LaidWins DEF LastWinsButForTheGap, shown
<1> QED
  BY <1>1, Inductive, PTL

\* cloneDisplay copies every block through which a layer is written, so that the items of a
\* playlist cannot change each other's defaults.
THEOREM DefaultsStayUntouched == Spec => DefaultsUntouched
<1>1. Inv /\ [Next]_vars => [pc \notin Idle => UNCHANGED defaults]_vars
  <2> SUFFICES ASSUME Inv, Next, pc \notin Idle
               PROVE  defaults' = defaults
    BY DEF DefaultsUntouched
  <2>1. CASE DecodingNext /\ Forget
    <3>1. pc = "members"
      BY <2>1 DEF DecodingNext, NewVariable, Keep, Unmarshal, DecodePlain, DecodeSink, DecodeNull, DecodeMismatch,
         DecodePointer, DecodeProvenance, DecodeRaw, More, Commit, ReturnError, Idle
    <3> QED BY <2>1, <3>1 DEF Inv, CallTypes, Forget
  <2>2. CASE \E def \in Defaults, manifest \in Fetched : DisplayForItem(def, manifest)
    BY <2>2 DEF DisplayForItem
  <2>3. CASE InlineManifest
    <3> DEFINE inline == ParseInlineManifest(it)
               m      == IF inline = Failure THEN Nil ELSE inline
    <3>1. defaults' = defaults \/ ApplyManifestDisplay(m)
      BY <2>3 DEF InlineManifest, Fail
    <3>2. m \in DisplayControls \cup {Nil}
      BY ParsedType, HeldIs DEF Inv, DecodingInv, DecodingTypes, IsItem, Field, Raw
    <3> HIDE DEF m
    <3> QED BY <3>1, <3>2, ManifestStep DEF Inv
  <2>4. CASE RefManifest
    <3>1. ApplyManifestDisplay(ref) /\ ref \in DisplayControls \cup {Nil}
      BY <2>4 DEF RefManifest, Inv, CallTypes
    <3> QED BY <3>1, ManifestStep DEF Inv
  <2>5. CASE ItemOverride \/ ItemSettings
    <3>1. alias = {}
      BY DEF Inv, CallTypes
    <3>2. \A src : Overlay(src) => defaults' = defaults
      BY <3>1 DEF Overlay, WrittenThrough
    <3> QED BY <2>5, <3>2 DEF ItemOverride, ItemSettings, Fail
  <2>6. CASE ReturnDisplay
    BY <2>6 DEF ReturnDisplay
  <2> QED BY <2>1, <2>2, <2>3, <2>4, <2>5, <2>6 DEF Next
<1> QED
  BY <1>1, Inductive, PTL DEF Spec, DefaultsUntouched

\* A copy of an item that shares memory with the variable keeps its values and its rating
\* whatever is decoded later, and changes behind a pointer only where the variable has one.
THEOREM CopyKeepsItsValuesHolds == Spec => CopyKeepsItsValues
<1> DEFINE Same(f)   == kept'[f] = kept[f]
           Behind(f) == /\ f \in InMemory /\ pc = "members" /\ before[f] # Nil
                        /\ kept[f] # Nil /\ kept'[f] # Nil
<1>1. ASSUME Inv, NEW g \in Field, Same(g) \/ (More /\ OnlyMember(Current.field) /\ g \in shared)
      PROVE  Same(g) \/ Behind(g)
  <2> SUFFICES ASSUME More, OnlyMember(Current.field), g \in shared, ~Same(g) PROVE Behind(g)
    BY <1>1
  <2>1. /\ pc = "members" /\ g \in InMemory /\ kept[g] # Nil /\ it[g] # Nil /\ InPlace(g)
    BY <1>1 DEF Inv, DecodingInv, DecodingTypes, More
  <2>2. g = Current.field
    BY DEF OnlyMember
  <2>3. kept'[g] # Nil
    BY <2>1, <2>2 DEF OnlyMember
  <2> QED BY <2>1, <2>3 DEF InPlace
<1>2. ASSUME Inv, NEW f \in Field, kept' = kept \/ \E v, seen, seenByCopy : Store(f, v, seen, seenByCopy)
      PROVE  \A g \in Field : Same(g) \/ g \in shared
  <2>1. CASE kept' = kept
    BY <2>1
  <2>2. ASSUME NEW v, NEW seen, NEW seenByCopy, Store(f, v, seen, seenByCopy)
        PROVE  \A g \in Field : Same(g) \/ g \in shared
    <3>1. kept' = kept \/ (f \in shared /\ kept' = [kept EXCEPT ![f] = seenByCopy])
      BY <2>2 DEF Store
    <3>2. DOMAIN kept = Field
      BY <1>2 DEF Inv, DecodingInv, DecodingTypes, IsItem
    <3> QED BY <3>1, <3>2
  <2> QED BY <1>2, <2>1, <2>2
<1>3. Inv /\ [Next]_vars => [Keep \/ \A f \in Field : Same(f) \/ Behind(f)]_vars
  <2> SUFFICES ASSUME Inv, Next, ~Keep, NEW g \in Field PROVE Same(g) \/ Behind(g)
    BY Zenon
  <2>1. CASE \/ DecodePlain \/ DecodeSink \/ DecodeNull \/ DecodeMismatch \/ DecodePointer
             \/ DecodeProvenance \/ DecodeRaw
    <3>1. More /\ OnlyMember(Current.field)
      BY <2>1, MemberStep DEF Inv
    <3>2. kept' = kept \/ \E f \in Field : \E v, seen, seenByCopy : Store(f, v, seen, seenByCopy)
      <4>1. CASE DecodePlain \/ DecodeSink \/ DecodeNull \/ DecodeMismatch
        BY <4>1 DEF DecodePlain, DecodeSink, DecodeNull, DecodeMismatch, StoreFresh
      <4>2. ASSUME NEW f \in Field, NEW v, StorePointer(f, v)
            PROVE  kept' = kept \/ \E w, seen, seenByCopy : Store(f, w, seen, seenByCopy)
        BY <4>2 DEF StorePointer, StoreFresh
      <4>3. CASE DecodePointer
        <5>1. Current.field \in Field /\ \E v : StorePointer(Current.field, v)
          BY <4>3 DEF DecodePointer, Field, Pointer
        <5> QED BY <4>2, <5>1
      <4>4. CASE DecodeProvenance
        <5>1. kept' = kept \/ \E v : StorePointer("provenance", v)
          BY <4>4 DEF DecodeProvenance
        <5>2. "provenance" \in Field
          BY DEF Field, Pointer
        <5> QED BY <4>2, <5>1, <5>2
      <4>5. CASE DecodeRaw
        <5>1. Current.field \in Field
          BY <4>5 DEF DecodeRaw, Field
        <5>2. \/ kept' = kept
              \/ \E seen, seenByCopy : Store(Current.field, Current.value, seen, seenByCopy)
          BY <4>5 DEF DecodeRaw, StoreFresh
        <5> QED BY <5>1, <5>2
      <4> QED BY <2>1, <4>1, <4>3, <4>4, <4>5
    <3>3. Same(g) \/ g \in shared
      <4>1. CASE kept' = kept
        BY <4>1
      <4>2. CASE \E f \in Field : \E v, seen, seenByCopy : Store(f, v, seen, seenByCopy)
        BY <1>2, <4>2
      <4> QED BY <3>2, <4>1, <4>2
    <3> QED BY <1>1, <3>1, <3>3
  <2>2. CASE kept' = kept
    BY <2>2
  <2>3. CASE DecodingNext
    BY <2>1, <2>2, <2>3 DEF DecodingNext, NewVariable, Unmarshal, Commit, ReturnError
  <2>4. CASE ~DecodingNext
    <3>1. kept' = kept
      BY <2>4 DEF Next, DisplayForItem, InlineManifest, RefManifest, ItemOverride, ItemSettings,
         ReturnDisplay, ItemUnchanged
    <3> QED BY <2>2, <3>1
  <2> QED BY <2>3, <2>4
<1>4. [Keep \/ \A f \in Field : Same(f) \/ Behind(f)]_vars
        => [Keep \/ \A f \in Field :
              \/ kept'[f] = kept[f]
              \/ /\ f \in InMemory /\ pc = "members" /\ before[f] # Nil
                 /\ kept[f] # Nil /\ kept'[f] # Nil]_vars
  OBVIOUS
<1> HIDE DEF Same, Behind
<1> QED
  BY <1>3, <1>4, Inductive, PTL DEF Spec, CopyKeepsItsValues

\* Reading the members of Exact a second time, by their keys as they are spelt, gives the
\* rating that a validator of the document sees, and never that of another spelling.
THEOREM RatingIsValidated == Spec => []RatingIsTheValidatedOne
<1>1. Init => RatingIsTheValidatedOne
  BY DEF Init, DecodingInit, RatingIsTheValidatedOne
<1>2. Inv /\ RatingIsTheValidatedOne /\ [Next]_vars => RatingIsTheValidatedOne'
  <2> SUFFICES ASSUME Inv, RatingIsTheValidatedOne, [Next]_vars
               PROVE  RatingIsTheValidatedOne'
    OBVIOUS
  <2>1. CASE Commit
    <3> SUFFICES ASSUME NEW f \in Exact
                 PROVE  \/ /\ it'[f] = before[f]
                           /\ \A i \in DOMAIN doc : ~(doc[i].field = f /\ doc[i].exact)
                        \/ \E i \in DOMAIN doc :
                             /\ doc[i].field = f /\ doc[i].exact
                             /\ \A j \in i + 1 .. Len(doc) : ~(doc[j].field = f /\ doc[j].exact)
                             /\ it'[f] = IF doc[i].value \in Label THEN doc[i].value ELSE Nil
      BY <2>1 DEF Commit, RatingIsTheValidatedOne
    <3> DEFINE found == {i \in DOMAIN doc : doc[i].field = f /\ doc[i].exact}
    <3>1. f \in Field /\ it'[f] = Taken(f)
      BY <2>1, Fields DEF Commit
    <3>2. shadow[f] = before[f]
      BY <2>1, <3>1 DEF Commit, Inv, DecodingInv, InPlace
    <3>3. Len(doc) \in Nat /\ DOMAIN doc = 1 .. Len(doc)
      BY DEF Inv, DecodingInv, DecodingTypes
    <3>4. CASE found = {}
      BY <3>1, <3>2, <3>4 DEF Taken
    <3>5. CASE found # {}
      <4> DEFINE i == LastOf(found)
      <4>1. i \in found /\ \A j \in found : j <= i
        <5>1. found \in SUBSET (1 .. Len(doc))
          BY <3>3
        <5> HIDE DEF found
        <5> QED BY <3>3, <3>5, <5>1, LastOfExists
      <4>2. it'[f] = IF doc[i].value \in Label THEN doc[i].value ELSE Nil
        BY <3>1, <3>5 DEF Taken
      <4> HIDE DEF i
      <4>3. \A j \in i + 1 .. Len(doc) : ~(doc[j].field = f /\ doc[j].exact)
        BY <3>3, <4>1
      <4> QED BY <4>1, <4>2, <4>3
    <3> QED BY <3>4, <3>5
  <2>2. CASE ReturnError
    BY <2>2, Fields DEF ReturnError, RatingIsTheValidatedOne, Inv, DecodingInv, InPlace
  <2>3. CASE pc' \notin {"decoded", "refused"}
    BY <2>3 DEF RatingIsTheValidatedOne
  <2>4. CASE pc' = pc /\ UNCHANGED <<it, doc, before>>
    BY <2>4 DEF RatingIsTheValidatedOne
  <2>5. ~Commit /\ ~ReturnError => pc' \notin {"decoded", "refused"} \/ (pc' = pc /\ UNCHANGED <<it, doc, before>>)
    <3>1. CASE DecodingNext /\ ~Commit /\ ~ReturnError
      BY <3>1 DEF DecodingNext, NewVariable, Keep, Unmarshal, DecodePlain, DecodeSink, DecodeNull, DecodeMismatch,
         DecodePointer, DecodeProvenance, DecodeRaw, More
    <3>2. CASE \E def \in Defaults, manifest \in Fetched : DisplayForItem(def, manifest)
      BY <3>2 DEF DisplayForItem
    <3>3. CASE InlineManifest \/ RefManifest \/ ItemOverride \/ ItemSettings \/ ReturnDisplay
      BY <3>3 DEF InlineManifest, RefManifest, ItemOverride, ItemSettings, ReturnDisplay, Fail
    <3>4. CASE UNCHANGED vars
      BY <3>4 DEF vars, decoding
    <3> QED BY <3>1, <3>2, <3>3, <3>4 DEF Next
  <2> QED BY <2>1, <2>2, <2>3, <2>4, <2>5
<1> QED
  BY <1>1, <1>2, Inductive, PTL DEF Spec

\* What passes the digit bound makes big.Rat write at most MaxSeriesIDDigits digits over a
\* denominator of at most twice as many, digits after the point and exponent together, for
\* every width of int and every exponent: no sum that admits a literal has wrapped around.
THEOREM DigitBoundBoundsWork ==
  \A lit \in NumberLiteral :
    Expanded(lit) /\ SeriesIDWithinDigitBound(lit) =>
      /\ NumeratorDigits(lit) <= MaxSeriesIDDigits
      /\ DenominatorDigits(lit) <= 2 * MaxSeriesIDDigits
<1> SUFFICES ASSUME NEW lit \in NumberLiteral, Expanded(lit), SeriesIDWithinDigitBound(lit)
             PROVE  /\ NumeratorDigits(lit) <= MaxSeriesIDDigits
                    /\ DenominatorDigits(lit) <= 2 * MaxSeriesIDDigits
  OBVIOUS
<1> DEFINE e == Exponent(lit)
           f == Len(lit.frac)
           d == Len(Digits(lit))
           m == MantissaLen(lit)
<1>1. /\ e \in Int /\ f \in Nat /\ d \in Nat /\ m \in Nat /\ f < d /\ d <= m
      /\ Shift(lit) = e - f /\ MaxSeriesIDDigits \in Nat /\ MaxInt \in Nat
      /\ m + MaxSeriesIDDigits <= MaxInt
  BY LiteralParts, WidthAssumption DEF NumberLiteral
<1>2. m <= MaxSeriesIDDigits /\ e >= -MaxSeriesIDDigits /\ (e > 0 => m + e <= MaxSeriesIDDigits)
  <2>1. ~SeriesIDMantissaIsZero(lit)
    BY DEF Expanded
  <2>2. CASE e < 0
    BY <2>1, <2>2 DEF SeriesIDWithinDigitBound
  <2>3. CASE e >= 0
    <3>1. e <= MaxSeriesIDDigits /\ Wrap(m + e) <= MaxSeriesIDDigits
      BY <2>1, <2>3 DEF SeriesIDWithinDigitBound
    <3> HIDE DEF e, m
    <3>2. m + e <= MaxSeriesIDDigits
      <4>1. m + e \in Nat /\ m + e <= MaxInt
        BY <1>1, <2>3, <3>1
      <4> DEFINE t == m + e
      <4> HIDE DEF t
      <4>2. Wrap(t) = t
        BY <4>1, WrapBelow DEF t
      <4> QED BY <3>1, <4>2 DEF t
    <3> QED BY <1>1, <2>3, <3>2
  <2> QED BY <1>1, <2>2, <2>3
<1>3. NumeratorDigits(lit) = d + (IF e - f > 0 THEN e - f ELSE 0)
  BY <1>1 DEF NumeratorDigits
<1>4. DenominatorDigits(lit) = 1 + (IF e - f < 0 THEN -(e - f) ELSE 0)
  BY <1>1 DEF DenominatorDigits
<1> HIDE DEF e, f, d, m
<1> QED BY <1>1, <1>2, <1>3, <1>4

\* Decoding into a variable that holds an item already: members that are absent stay, those
\* that are there take the place of the old, a display is merged setting by setting; and a
\* document that is refused has changed nothing but memory behind pointers.
THEOREM DecodeMergesOrKeepsHolds == Spec => []DecodeMergesOrKeeps
<1> DEFINE Refusal ==
             pc = "refused" =>
               /\ \A f \in Field \ InMemory : it[f] = before[f]
               /\ \A f \in InMemory : it[f] = Nil <=> before[f] = Nil
               /\ \A f \in Raw : it[f] \in {before[f], Malformed} \/ \E i \in Members(f) : it[f] = doc[i].value
<1>1. Init => Refusal
  BY DEF Init, DecodingInit
<1>2. Inv /\ Refusal /\ [Next]_vars => Refusal'
  <2> SUFFICES ASSUME Inv, Refusal, [Next]_vars PROVE Refusal'
    OBVIOUS
  <2>1. CASE ReturnError
    <3>1. /\ pc = "members" /\ UNCHANGED <<it, doc, before>> /\ \A f : Members(f)' = Members(f)
      BY <2>1 DEF ReturnError, Members
    <3>2. \A f \in Field : InPlace(f)
      BY <3>1 DEF Inv, DecodingInv
    <3> QED BY <3>1, <3>2, Fields DEF InPlace
  <2>2. CASE pc' # "refused"
    BY <2>2
  <2>3. CASE pc' = pc /\ UNCHANGED <<it, doc, before>>
    BY <2>3 DEF Members
  <2>4. DecodingNext /\ ~ReturnError => pc' # "refused" \/ (pc' = pc /\ UNCHANGED <<it, doc, before>>)
    BY DEF DecodingNext, NewVariable, Keep, Unmarshal, DecodePlain, DecodeSink, DecodeNull, DecodeMismatch,
       DecodePointer, DecodeProvenance, DecodeRaw, More, Commit
  <2> HIDE DEF Refusal
  <2> QED BY <2>1, <2>2, <2>3, <2>4, OtherSteps
<1>3. MergeInv /\ Refusal => DecodeMergesOrKeeps
  BY DEF MergeInv, DecodeMergesOrKeeps, PlainAfter, Set, Plainly, DisplayAfter, MergedFrom, DisplayMerged, Last
<1> HIDE DEF Refusal
<1> QED
  BY <1>1, <1>2, <1>3, Inductive, Merging, PTL DEF Spec

-----------------------------------------------------------------------------
(***************************************************************************)
(* The series id when a part of the document is decoded, and what must be  *)
(* in the document when an error is saved.                                 *)
(***************************************************************************)
IdAfter(S) ==
  IF S = {} THEN before["provenance"]
  ELSE IF doc[LastOf(S)].value = Null THEN Nil
  ELSE UnmarshalSeriesID(doc[LastOf(S)].value)

\* The last of the members S was decoded.
IdDecoded(S) ==
  S # {} => \/ doc[LastOf(S)].value = Null
            \/ doc[LastOf(S)].value \in Literal /\ UnmarshalSeriesID(doc[LastOf(S)].value) # Refused

IsCause(m) ==
  \/ m.value = Mismatch
  \/ m.field = "provenance" /\ m.value \in Literal /\ UnmarshalSeriesID(m.value) = Refused

IdInv ==
  /\ pc = "members" /\ ~failed =>
       shadow["provenance"] = IdAfter(Done("provenance")) /\ IdDecoded(Done("provenance"))
  /\ pc = "decoded" =>
       it["provenance"] = IdAfter(Members("provenance")) /\ IdDecoded(Members("provenance"))
  /\ (pc = "members" /\ failed) \/ pc = "refused" =>
       DOMAIN doc = {} \/ \E i \in DOMAIN doc : IsCause(doc[i])

\* What a step that saves no error does to the series id of its own member.
LEMMA IdStored ==
  ASSUME DecodingInv, ~failed', Current.field = "provenance",
         \/ DecodePlain \/ DecodeSink \/ DecodeNull \/ DecodeMismatch \/ DecodePointer
         \/ DecodeProvenance \/ DecodeRaw
  PROVE  /\ at' = at + 1 /\ ~failed
         /\ \/ Current.value = Null /\ shadow'["provenance"] = Nil
            \/ /\ Current.value \in Literal /\ UnmarshalSeriesID(Current.value) # Refused
               /\ shadow'["provenance"] = UnmarshalSeriesID(Current.value)
<1>1. "provenance" \in Field
  BY DEF Field, Pointer
<1>2. CASE DecodeNull
  <2>1. at' = at + 1 /\ ~failed /\ Current.value = Null /\ StoreFresh("provenance", Nil)
    BY <1>2 DEF DecodeNull
  <2> QED BY <1>1, <2>1, StoredIs
<1>3. CASE DecodeProvenance
  <2> DEFINE id == UnmarshalSeriesID(Current.value)
  <2>1. id # Refused /\ at' = at + 1 /\ ~failed /\ Current.value \in Literal /\ StorePointer("provenance", id)
    BY <1>3 DEF DecodeProvenance
  <2> HIDE DEF id
  <2>2. shadow'["provenance"] = id
    BY <1>1, <2>1, StoredIs DEF StorePointer
  <2> QED BY <2>1, <2>2 DEF id
<1>4. ~DecodePlain /\ ~DecodeSink /\ ~DecodeMismatch /\ ~DecodePointer /\ ~DecodeRaw
  BY DEF DecodePlain, DecodeSink, DecodeMismatch, DecodePointer, DecodeRaw, Exact, Raw
<1> QED
  BY <1>2, <1>3, <1>4

LEMMA CauseSaved ==
  ASSUME DecodingInv, ~failed, failed',
         \/ DecodePlain \/ DecodeSink \/ DecodeNull \/ DecodeMismatch \/ DecodePointer
         \/ DecodeProvenance \/ DecodeRaw
  PROVE  IsCause(Current)
<1>1. CASE DecodePlain
  BY <1>1 DEF DecodePlain, IsCause
<1>2. CASE DecodeMismatch
  BY <1>2 DEF DecodeMismatch, IsCause
<1>3. CASE DecodeProvenance
  BY <1>3 DEF DecodeProvenance, IsCause
<1>4. ~DecodeSink /\ ~DecodeNull /\ ~DecodePointer /\ ~DecodeRaw
  BY DEF DecodeSink, DecodeNull, DecodePointer, DecodeRaw
<1> QED
  BY <1>1, <1>2, <1>3, <1>4

LEMMA IdUnchanged ==
  ASSUME UNCHANGED <<doc, before>>, NEW f
  PROVE  /\ Members(f)' = Members(f) => /\ IdAfter(Members(f))' = IdAfter(Members(f))
                                        /\ IdDecoded(Members(f))' <=> IdDecoded(Members(f))
         /\ Done(f)' = Done(f) => /\ IdAfter(Done(f))' = IdAfter(Done(f))
                                  /\ IdDecoded(Done(f))' <=> IdDecoded(Done(f))
         /\ (\E i \in DOMAIN doc : IsCause(doc[i]))' <=> \E i \in DOMAIN doc : IsCause(doc[i])
<1> DEFINE Id(S) == IF S = {} THEN before["provenance"]
                    ELSE IF doc[LastOf(S)].value = Null THEN Nil
                    ELSE UnmarshalSeriesID(doc[LastOf(S)].value)
           Ok(S) == S # {} => \/ doc[LastOf(S)].value = Null
                              \/ /\ doc[LastOf(S)].value \in Literal
                                 /\ UnmarshalSeriesID(doc[LastOf(S)].value) # Refused
<1>1. /\ IdAfter(Members(f))' = Id(Members(f)') /\ (IdDecoded(Members(f))' <=> Ok(Members(f)'))
      /\ IdAfter(Done(f))' = Id(Done(f)') /\ (IdDecoded(Done(f))' <=> Ok(Done(f)'))
  BY DEF IdAfter, IdDecoded, LastOf
<1>2. \A S : IdAfter(S) = Id(S) /\ (IdDecoded(S) <=> Ok(S))
  BY DEF IdAfter, IdDecoded
<1>3. (\E i \in DOMAIN doc : IsCause(doc[i]))' <=> \E i \in DOMAIN doc : IsCause(doc[i])
  BY DEF IsCause
<1> HIDE DEF Id, Ok
<1> QED BY <1>1, <1>2, <1>3

LEMMA MemberIds ==
  ASSUME DecodingInv, IdInv,
         \/ DecodePlain \/ DecodeSink \/ DecodeNull \/ DecodeMismatch \/ DecodePointer
         \/ DecodeProvenance \/ DecodeRaw
  PROVE  IdInv'
<1> DEFINE f == "provenance"
<1>1. More /\ OnlyMember(Current.field) /\ pc = "members" /\ pc' = "members" /\ UNCHANGED <<doc, before>>
  BY MemberStep DEF More, OnlyMember
<1>2. f \in Field /\ at \in DOMAIN doc
  BY <1>1, CurrentMember DEF Field, Pointer
<1>3. ASSUME failed'
      PROVE  \E i \in DOMAIN doc : IsCause(doc[i])
  <2>1. CASE failed
    BY <1>1, <1>2, <2>1 DEF IdInv
  <2>2. CASE ~failed
    BY <1>2, <1>3, <2>2, CauseSaved DEF Current
  <2> QED BY <2>1, <2>2
<1>4. ASSUME ~failed'
      PROVE  (shadow[f] = IdAfter(Done(f)) /\ IdDecoded(Done(f)))'
  <2>1. at' = at + 1 /\ ~failed
    BY <1>4, OwnMemberStep DEF OwnMember
  <2>2. shadow[f] = IdAfter(Done(f)) /\ IdDecoded(Done(f))
    BY <1>1, <2>1 DEF IdInv
  <2>3. /\ f = Current.field => Done(f)' = Done(f) \cup {at}
        /\ f # Current.field => Done(f)' = Done(f)
        /\ Done(f) \subseteq 1 .. Len(doc) /\ \A i \in Done(f) : i < at
        /\ at \in 1 .. Len(doc) /\ Len(doc) \in Nat
    BY <1>1, <2>1, DoneNext
  <2>4. CASE Current.field # f
    <3>1. shadow'[f] = shadow[f]
      BY <1>1, <1>2, <2>4 DEF OnlyMember
    <3> QED BY <1>1, <2>2, <2>3, <2>4, <3>1, IdUnchanged
  <2>5. CASE Current.field = f
    <3> DEFINE T == Done(f) \cup {at}
    <3>1. LastOf(T) = at /\ T # {}
      BY <2>3, LastIsNew
    <3>2. T = Done(f)'
      BY <2>3, <2>5
    <3> HIDE DEF T
    <3>3. /\ IdAfter(Done(f))' = (IF T = {} THEN before[f]
                                  ELSE IF doc[LastOf(T)].value = Null THEN Nil
                                  ELSE UnmarshalSeriesID(doc[LastOf(T)].value))
          /\ IdDecoded(Done(f))' <=> (T # {} => \/ doc[LastOf(T)].value = Null
                                               \/ /\ doc[LastOf(T)].value \in Literal
                                                  /\ UnmarshalSeriesID(doc[LastOf(T)].value) # Refused)
      BY <1>1, <3>2 DEF IdAfter, IdDecoded, LastOf
    <3>4. \/ Current.value = Null /\ shadow'[f] = Nil
          \/ /\ Current.value \in Literal /\ UnmarshalSeriesID(Current.value) # Refused
             /\ shadow'[f] = UnmarshalSeriesID(Current.value)
      BY <1>4, <2>5, IdStored
    <3>5. Null \notin Literal
      BY Values
    <3> QED BY <3>1, <3>3, <3>4, <3>5 DEF Current
  <2> QED BY <2>4, <2>5
<1>5. (\E i \in DOMAIN doc : IsCause(doc[i]))' <=> \E i \in DOMAIN doc : IsCause(doc[i])
  BY <1>1, IdUnchanged
<1> QED
  BY <1>1, <1>3, <1>4, <1>5 DEF IdInv

LEMMA UnmarshalIds ==
  ASSUME DecodingInv, NEW d, Unmarshal(d), IsDocument(d)
  PROVE  IdInv'
<1>1. at' = 1 /\ shadow' = it /\ before' = it /\ pc' = "members" /\ (failed' => doc' = <<>>)
  BY DEF Unmarshal
<1>2. DOMAIN doc' \subseteq Nat \ {0}
  <2>1. Len(doc') \in Nat /\ DOMAIN doc' = 1 .. Len(doc')
    BY UnmarshalStep DEF DecodingInv, DecodingTypes
  <2> QED BY <2>1
<1>3. Done("provenance")' = {}
  BY <1>1, <1>2 DEF Done, Members
<1>4. (shadow["provenance"] = IdAfter(Done("provenance")) /\ IdDecoded(Done("provenance")))'
  BY <1>1, <1>3 DEF IdAfter, IdDecoded
<1>5. failed' => DOMAIN doc' = {}
  <2>1. DOMAIN <<>> = {}
    OBVIOUS
  <2> QED BY <1>1, <2>1
<1> QED
  BY <1>1, <1>4, <1>5 DEF IdInv

LEMMA EndIds ==
  ASSUME DecodingInv, IdInv, Commit \/ ReturnError
  PROVE  IdInv'
<1> DEFINE f == "provenance"
<1>1. CASE Commit
  <2>1. pc = "members" /\ ~failed /\ at > Len(doc) /\ pc' = "decoded" /\ UNCHANGED <<doc, before>>
    BY <1>1 DEF Commit
  <2>2. f \in Field /\ f \notin Exact
    BY DEF Field, Pointer, Exact
  <2>3. it'[f] = shadow[f]
    BY <1>1, <2>2 DEF Commit
  <2>4. Done(f) = Members(f) /\ Members(f)' = Members(f)
    <3>1. Len(doc) \in Nat /\ DOMAIN doc = 1 .. Len(doc) /\ at \in Nat
      BY DEF DecodingInv, DecodingTypes
    <3> QED BY <2>1, <3>1 DEF Done, Members
  <2>5. shadow[f] = IdAfter(Members(f)) /\ IdDecoded(Members(f))
    BY <2>1, <2>4 DEF IdInv
  <2>6. IdAfter(Members(f))' = IdAfter(Members(f)) /\ (IdDecoded(Members(f))' <=> IdDecoded(Members(f)))
    BY <2>1, <2>4, IdUnchanged
  <2> QED BY <2>1, <2>3, <2>5, <2>6 DEF IdInv
<1>2. CASE ReturnError
  <2>1. pc = "members" /\ failed /\ pc' = "refused" /\ UNCHANGED <<doc, before>>
    BY <1>2 DEF ReturnError
  <2> QED BY <2>1, IdUnchanged DEF IdInv
<1> QED BY <1>1, <1>2

LEMMA OtherIds ==
  ASSUME IdInv, pc' = pc, UNCHANGED <<it, shadow, at, failed, doc, before>>
  PROVE  IdInv'
<1>1. \A f : Members(f)' = Members(f) /\ Done(f)' = Done(f)
  BY DEF Members, Done
<1>2. /\ IdAfter(Members("provenance"))' = IdAfter(Members("provenance"))
      /\ IdDecoded(Members("provenance"))' <=> IdDecoded(Members("provenance"))
      /\ IdAfter(Done("provenance"))' = IdAfter(Done("provenance"))
      /\ IdDecoded(Done("provenance"))' <=> IdDecoded(Done("provenance"))
      /\ (\E i \in DOMAIN doc : IsCause(doc[i]))' <=> \E i \in DOMAIN doc : IsCause(doc[i])
  BY <1>1, IdUnchanged
<1> QED
  BY <1>2 DEF IdInv

LEMMA Ids == Spec => []IdInv
<1>1. Init => IdInv
  BY DEF Init, DecodingInit, IdInv
<1>2. Inv /\ IdInv /\ [Next]_vars => IdInv'
  <2> SUFFICES ASSUME Inv, IdInv, [Next]_vars PROVE IdInv'
    OBVIOUS
  <2>0. DecodingInv
    BY DEF Inv
  <2>1. CASE \/ DecodePlain \/ DecodeSink \/ DecodeNull \/ DecodeMismatch \/ DecodePointer
             \/ DecodeProvenance \/ DecodeRaw
    BY <2>0, <2>1, MemberIds
  <2>2. ASSUME NEW d \in Document \cup FirstDocument, Unmarshal(d) PROVE IdInv'
    BY <2>0, <2>2, UnmarshalIds, DocumentAssumption
  <2>3. CASE Commit \/ ReturnError
    BY <2>0, <2>3, EndIds
  <2>4. CASE NewVariable
    BY <2>4 DEF NewVariable, IdInv
  <2>5. CASE Keep
    <3>1. pc' = pc /\ UNCHANGED <<it, shadow, at, failed, doc, before>>
      BY <2>5 DEF Keep
    <3> QED BY <3>1, OtherIds
  <2>6. CASE ~DecodingNext
    <3>1. CASE pc' \notin {"members", "decoded", "refused"}
      BY <3>1 DEF IdInv
    <3>2. CASE pc' = pc /\ UNCHANGED <<it, shadow, at, failed, doc, before>>
      BY <3>2, OtherIds
    <3> QED BY <2>6, <3>1, <3>2, OtherSteps
  <2> QED BY <2>1, <2>2, <2>3, <2>4, <2>5, <2>6 DEF DecodingNext
<1> QED
  BY <1>1, <1>2, Inductive, PTL DEF Spec

\* The digits that the decoder stores denote the number on the wire, and have no zeros in
\* front; a literal is refused because it is no natural number or, not being zero, longer than
\* the bound; and what big.Rat writes for one is bounded: for every base, width of int and
\* exponent.
THEOREM SeriesIDHolds == Spec => []SeriesIDIsTheNumber
<1>1. Inv /\ IdInv => SeriesIDIsTheNumber
  <2> SUFFICES ASSUME Inv, IdInv PROVE SeriesIDIsTheNumber
    OBVIOUS
  <2> DEFINE f == "provenance"
  <2>1. /\ Len(doc) \in Nat /\ DOMAIN doc = 1 .. Len(doc)
        /\ \A i \in DOMAIN doc : IsMember(doc[i])
        /\ Members(f) \in SUBSET (1 .. Len(doc))
    BY DEF Inv, DecodingInv, DecodingTypes, Members
  <2>2. ASSUME pc = "decoded", Members(f) # {}, Last(f) # Null
        PROVE  CASE Last(f).form = "string" -> it[f] = Last(f).text
                 [] Last(f).form = "number" ->
                      Denotes(it[f], Last(f)) /\ (it[f][1] = 0 => Len(it[f]) = 1)
    <3> DEFINE lit == Last(f)
    <3>1. lit \in Literal /\ it[f] = UnmarshalSeriesID(lit) /\ UnmarshalSeriesID(lit) # Refused
      BY <2>2 DEF IdInv, IdAfter, IdDecoded, Last
    <3> HIDE DEF lit
    <3>2. CASE lit \in StringLiteral
      <4>1. lit.form = "string"
        BY <3>2 DEF StringLiteral
      <4>2. it[f] = lit.text
        BY <3>1, <4>1 DEF UnmarshalSeriesID
      <4> QED BY <4>1, <4>2 DEF lit
    <3>3. CASE lit \in NumberLiteral
      <4>1. lit.form = "number"
        BY <3>3 DEF NumberLiteral, Spelling
      <4>2. Denotes(it[f], lit) /\ (it[f][1] = 0 => Len(it[f]) = 1)
        BY <3>1, <3>3, DecodedDenotes
      <4> QED BY <4>1, <4>2 DEF lit
    <3> QED BY <3>1, <3>2, <3>3 DEF Literal
  <2>3. ASSUME pc = "refused", NEW i \in DOMAIN doc, doc[i].field = f, doc[i].value \in NumberLiteral,
               \A j \in DOMAIN doc \ {i} : doc[j].field # f /\ doc[j].value # Mismatch
        PROVE  RefusedForCause(doc[i].value)
    <3>1. PICK j \in DOMAIN doc : IsCause(doc[j])
      BY <2>3 DEF IdInv
    <3>2. doc[i].value # Mismatch
      BY <2>3, Values DEF Literal
    <3>3. j = i
      BY <2>3, <3>1, <3>2 DEF IsCause
    <3>4. UnmarshalSeriesID(doc[i].value) = Refused
      BY <3>1, <3>2, <3>3 DEF IsCause
    <3> QED BY <2>3, <3>4, RefusedHasCause
  <2>4. (/\ Current.value \in NumberLiteral
         /\ Expanded(Current.value) /\ SeriesIDWithinDigitBound(Current.value)) =>
          /\ NumeratorDigits(Current.value) <= MaxSeriesIDDigits
          /\ DenominatorDigits(Current.value) <= 2 * MaxSeriesIDDigits
    BY DigitBoundBoundsWork
  <2> HIDE DEF f
  <2> QED BY <2>2, <2>3, <2>4 DEF SeriesIDIsTheNumber, f
<1> QED
  BY <1>1, Ids, Inductive, PTL
=============================================================================
