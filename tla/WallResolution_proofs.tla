----------------------- MODULE WallResolution_proofs ------------------------
(***************************************************************************)
(* For every zone, day and reading the call returns what the extension     *)
(* prescribes and never its fallback.  A zone changes by at most half a    *)
(* day, or by at most a day when its clock reads 00:00.                    *)
(***************************************************************************)
EXTENDS WallResolution, TLAPS

\* A reading is in the gap exactly when the change is past for the old offset
\* and not yet there for the new one.
LEMMA GapBounds ==
  ASSUME NEW z \in Zone, NEW w \in Int
  PROVE  InGap(w, z) <=> (w - z.before >= z.at /\ w - z.after < z.at)
<1>1. z.before \in Int /\ z.after \in Int /\ z.at \in Int
  BY DEF Zone
<1>2. \A t \in Int : OffsetAt(t, z) \in Int
  BY <1>1 DEF OffsetAt
<1>3. \A t \in Int, off \in Int : WallAt(w - off, z) = w <=> OffsetAt(w - off, z) = off
  BY <1>2 DEF WallAt
<1>4. InGap(w, z) <=> /\ WallAt(w - z.before, z) # w
                      /\ WallAt(w - z.after, z) # w
  BY DEF InGap, Displaying
<1> QED BY <1>1, <1>2, <1>3, <1>4 DEF OffsetAt

\* The Go library reads a clock with one of the two offsets of the zone.
LEMMA GoDateOffsets ==
  ASSUME NEW z \in Zone, NEW w \in Int
  PROVE  /\ GoDate(w, z) \in Int
         /\ \/ GoDate(w, z) = w - z.before
            \/ GoDate(w, z) = w - z.after /\ z.at <= w - z.after
            \/ GoDate(w, z) = w - z.after /\ z.at <= w - z.before
BY DEF GoDate, OffsetAt, Zone

\* The earliest instant of a non-empty set of readings of the clock exists.
LEMMA MeaningIsEarliest ==
  ASSUME NEW z \in Zone, NEW w \in Int, ~ InGap(w, z)
  PROVE  /\ MeaningOf(w, z) \in Displaying(w, z)
         /\ \A u \in Displaying(w, z) : MeaningOf(w, z) <= u
<1> DEFINE D == Displaying(w, z)
<1>1. D # {} /\ D \subseteq {w - z.before, w - z.after}
  BY DEF InGap, Displaying
<1>2. w - z.before \in Int /\ w - z.after \in Int
  BY DEF Zone
<1>3. \E t \in D : \A u \in D : t <= u
  BY <1>1, <1>2
<1> QED
  BY <1>3 DEF MeaningOf

-----------------------------------------------------------------------------
\* A change of more than half a day is not inside a civil day of the old clock.
OrdinaryChange == loc.after - loc.before \in -(12 * H) .. 12 * H

DateLineChange ==
  /\ loc.after - loc.before \in -(24 * H) .. 24 * H
  /\ LET r == loc.at + loc.before - midnight IN r <= 0 \/ r = 24 * H \/ r >= 48 * H
  /\ LET r == loc.at + loc.before - midnight IN r <= -(24 * H) \/ r >= 0

LEMMA Multiples ==
  ASSUME NEW d \in Nat \ {0}, NEW r \in Int, r % d = 0
  PROVE  (r <= -d \/ r >= 0) /\ (r <= 0 \/ r = d \/ r >= 2 * d)
<1>1. r = d * (r \div d) /\ r \div d \in Int
  OBVIOUS
<1>2. CASE r \div d <= -1
  BY <1>1, <1>2
<1>3. CASE r \div d = 0
  BY <1>1, <1>3
<1>4. CASE r \div d = 1
  BY <1>1, <1>4
<1>5. CASE r \div d >= 2
  BY <1>1, <1>5
<1> QED BY <1>1, <1>2, <1>3, <1>4, <1>5

LEMMA Changes ==
  ASSUME loc \in Locations, midnight \in Midnights
  PROVE  OrdinaryChange \/ DateLineChange
<1> USE HAssumption, LocationsAssumption, MidnightsAssumption
<1>1. loc.before \in Int /\ loc.after \in Int /\ loc.at \in Int /\ midnight \in Int
  BY DEF Zone
<1>2. CASE /\ loc.after - loc.before \in -Day .. Day
           /\ (loc.at + loc.before - midnight) % Day = 0
  <2>1. Day \in Nat \ {0} /\ loc.at + loc.before - midnight \in Int /\ Day = 24 * H /\ 2 * Day = 48 * H
    BY <1>1 DEF Day
  <2>2. LET r == loc.at + loc.before - midnight
        IN  (r <= -Day \/ r >= 0) /\ (r <= 0 \/ r = Day \/ r >= 2 * Day)
    BY <1>2, <2>1, Multiples
  <2> QED BY <1>2, <2>1, <2>2 DEF DateLineChange
<1> QED BY <1>2, ChangesAssumption DEF OrdinaryChange

\* The five samples see both offsets, or the one that matters.
LEMMA SamplesSuffice ==
  ASSUME loc \in Locations, midnight \in Midnights, clockTime \in 0 .. Day - 1
  PROVE  { t \in { wall - OffsetAt(s, loc) : s \in SamplePoints } :
             WallAt(t, loc) = wall } = Displaying(wall, loc)
<1> USE HAssumption
<1>1. loc \in Zone /\ midnight \in Int /\ (OrdinaryChange \/ DateLineChange)
  BY Changes, LocationsAssumption, MidnightsAssumption
<1>2. /\ loc.before \in Int /\ loc.after \in Int /\ loc.at \in Int
      /\ wall \in Int /\ midnight <= wall /\ wall < midnight + 24 * H
  BY <1>1 DEF Zone, wall, Day
<1>3. /\ noon \in Int
      /\ \/ noon = midnight + 12 * H - loc.before
         \/ noon = midnight + 12 * H - loc.after
  BY <1>1, <1>2, GoDateOffsets DEF noon
<1>4. ASSUME wall - loc.before < loc.at
      PROVE  \E s \in SamplePoints : OffsetAt(s, loc) = loc.before
  <2>1. noon - 24 * H < loc.at
    BY <1>1, <1>2, <1>3, <1>4 DEF OrdinaryChange, DateLineChange
  <2> QED BY <2>1 DEF SamplePoints, OffsetAt
<1>5. ASSUME wall - loc.after >= loc.at
      PROVE  \E s \in SamplePoints : OffsetAt(s, loc) = loc.after
  <2>1. noon + 24 * H >= loc.at
    BY <1>1, <1>2, <1>3, <1>5 DEF OrdinaryChange, DateLineChange
  <2> QED BY <1>2, <1>3, <2>1 DEF SamplePoints, OffsetAt
<1>6. \A s \in SamplePoints : OffsetAt(s, loc) \in {loc.before, loc.after}
  BY DEF OffsetAt
<1>7. ASSUME NEW t \in Displaying(wall, loc)
      PROVE  \E s \in SamplePoints : t = wall - OffsetAt(s, loc)
  <2>1. t \in Int /\ t + OffsetAt(t, loc) = wall
    BY <1>2 DEF Displaying, WallAt
  <2>2. CASE t < loc.at
    BY <1>2, <1>4, <2>1, <2>2 DEF OffsetAt
  <2>3. CASE ~ (t < loc.at)
    BY <1>2, <1>5, <2>1, <2>3 DEF OffsetAt
  <2> QED BY <2>2, <2>3
<1> QED BY <1>6, <1>7 DEF Displaying

\* The walk starts before the gap it looks for and ends after it.
LEMMA WalkMeetsGap ==
  ASSUME loc \in Locations, midnight \in Midnights, clockTime \in 0 .. Day - 1,
         InGap(wall, loc)
  PROVE  /\ loc.before \in Int /\ loc.after \in Int /\ loc.at \in Int
         /\ anchor \in Int /\ anchor < loc.at /\ loc.at <= anchor + 36 * H
         /\ loc.before < loc.after
<1> USE HAssumption
<1>1. loc \in Zone /\ midnight \in Int /\ (OrdinaryChange \/ DateLineChange)
  BY Changes, LocationsAssumption, MidnightsAssumption
<1>2. /\ loc.before \in Int /\ loc.after \in Int /\ loc.at \in Int
      /\ wall \in Int /\ midnight <= wall /\ wall < midnight + 24 * H
  BY <1>1 DEF Zone, wall, Day
<1>3. wall - loc.before >= loc.at /\ wall - loc.after < loc.at
  BY <1>1, <1>2, GapBounds
<1>4. /\ noon \in Int
      /\ \/ noon = midnight + 12 * H - loc.before
         \/ /\ noon = midnight + 12 * H - loc.after
            /\ loc.at <= midnight + 12 * H - loc.after
         \/ /\ noon = midnight + 12 * H - loc.after
            /\ loc.at <= midnight + 12 * H - loc.before
  <2>1. \A r \in Int : /\ GoDate(r, loc) \in Int
                       /\ \/ GoDate(r, loc) = r - loc.before
                          \/ GoDate(r, loc) = r - loc.after /\ loc.at <= r - loc.after
                          \/ GoDate(r, loc) = r - loc.after /\ loc.at <= r - loc.before
    BY <1>1, GoDateOffsets
  <2>2. midnight + 12 * H \in Int
    BY <1>1
  <2> QED BY <1>1, <1>2, <2>1, <2>2 DEF noon
<1> QED BY <1>1, <1>2, <1>3, <1>4 DEF anchor, OrdinaryChange, DateLineChange

\* The hours of the walk follow each other.
LEMMA WalkHours ==
  ASSUME NEW n \in Nat, anchor \in Int
  PROVE  /\ At(n) \in Int /\ At(n + 1) = At(n) + H
         /\ At(0) = anchor /\ At(36) = anchor + 36 * H
BY HAssumption DEF At
-----------------------------------------------------------------------------
(***************************************************************************)
(* The inductive invariant: what each phase of the call has established    *)
(* for the next one.                                                       *)
(***************************************************************************)
Sampled ==
  pc = "wallUTCCandidates" => offsets = { OffsetAt(t, loc) : t \in SamplePoints }

CandidatesComplete ==
  pc = "resolveLocalWall" => candidates = Displaying(wall, loc)

\* The walk happens in a gap only and has not crossed the change yet.
WalkBeforeGap ==
  pc = "firstInstantAfterGap" =>
    /\ InGap(wall, loc)
    /\ At(step) < loc.at /\ prevOffset = loc.before

\* The bisection looks for the change itself.
BisectsGap ==
  pc = "firstInstantWithOffset" =>
    /\ InGap(wall, loc)
    /\ loc.before < loc.after /\ target = loc.after

Inv == /\ TypeOK
       /\ Sampled
       /\ CandidatesComplete
       /\ WalkBeforeGap
       /\ BisectsGap
       /\ TransitionBracketed
       /\ FallbackUnreachable
       /\ ResolvesToMeaning

LEMMA InitInv == Init => Inv
BY HAssumption, LocationsAssumption, MidnightsAssumption, ClockTimesAssumption, NoneAssumption
DEF Init, Inv, TypeOK, Control, CoarseSteps, Sampled, CandidatesComplete, WalkBeforeGap,
    BisectsGap, TransitionBracketed, FallbackUnreachable, ResolvesToMeaning

\* The arguments never change, so neither does what is computed from them alone.
LEMMA ArgsFixed ==
  ASSUME UNCHANGED args
  PROVE  /\ wall' = wall /\ noon' = noon /\ anchor' = anchor
         /\ SamplePoints' = SamplePoints
         /\ \A n \in Nat : At(n)' = At(n)
BY DEF args, wall, noon, anchor, SamplePoints, At

\* The arguments are of their types in every state of the invariant.
LEMMA ArgsTyped ==
  ASSUME TypeOK
  PROVE  /\ loc \in Locations /\ loc \in Zone
         /\ loc.before \in Int /\ loc.after \in Int /\ loc.at \in Int
         /\ midnight \in Midnights /\ midnight \in Int /\ clockTime \in 0 .. Day - 1
         /\ wall \in Int /\ noon \in Int /\ anchor \in Int
<1> USE HAssumption, LocationsAssumption, MidnightsAssumption, ClockTimesAssumption
<1>1. /\ loc \in Locations /\ loc \in Zone
      /\ midnight \in Midnights /\ midnight \in Int /\ clockTime \in 0 .. Day - 1
  BY DEF TypeOK
<1>2. loc.before \in Int /\ loc.after \in Int /\ loc.at \in Int
  BY <1>1 DEF Zone
<1>3. wall \in Int /\ noon \in Int
  BY <1>1, <1>2, GoDateOffsets DEF wall, noon, Day
<1> QED BY <1>1, <1>2, <1>3 DEF anchor

LEMMA NearbyOffsetsInv ==
  ASSUME Inv, NearbyOffsets
  PROVE  Inv'
<1>1. UNCHANGED args /\ pc' = "wallUTCCandidates"
  BY DEF NearbyOffsets
<1>2. SamplePoints \subseteq Int
  BY ArgsTyped, GoDateOffsets, HAssumption DEF Inv, SamplePoints
<1>3. offsets' \subseteq Int
  BY <1>2, ArgsTyped DEF NearbyOffsets, OffsetAt, Inv
<1>4. TypeOK'
  BY <1>3 DEF Inv, TypeOK, NearbyOffsets, args, Control
<1>5. Sampled'
  BY <1>1, ArgsFixed DEF NearbyOffsets, Sampled, args, OffsetAt
<1> QED
  BY <1>1, <1>4, <1>5 DEF Inv, CandidatesComplete, WalkBeforeGap, BisectsGap,
     TransitionBracketed, FallbackUnreachable, ResolvesToMeaning

LEMMA WallUTCCandidatesInv ==
  ASSUME Inv, WallUTCCandidates
  PROVE  Inv'
<1>1. UNCHANGED args /\ pc = "wallUTCCandidates" /\ pc' = "resolveLocalWall"
  BY DEF WallUTCCandidates
<1>2. candidates' = Displaying(wall, loc)
  <2>1. candidates' = { t \in { wall - OffsetAt(s, loc) : s \in SamplePoints } :
                          WallAt(t, loc) = wall }
    BY <1>1 DEF WallUTCCandidates, Inv, Sampled
  <2> QED
    BY <2>1, SamplesSuffice, ArgsTyped DEF Inv
<1>3. candidates' \subseteq Int
  BY <1>2, ArgsTyped DEF Inv, Displaying
<1>4. TypeOK'
  BY <1>3 DEF Inv, TypeOK, WallUTCCandidates, args, Control
<1>5. CandidatesComplete'
  BY <1>1, <1>2, ArgsFixed DEF CandidatesComplete, args
<1> QED
  BY <1>1, <1>4, <1>5 DEF Inv, Sampled, WalkBeforeGap, BisectsGap,
     TransitionBracketed, FallbackUnreachable, ResolvesToMeaning

LEMMA ResolveCandidatesInv ==
  ASSUME Inv, ResolveCandidates
  PROVE  Inv'
<1>1. /\ UNCHANGED args /\ pc = "resolveLocalWall" /\ pc' = "done"
      /\ candidates = Displaying(wall, loc) /\ candidates # {}
      /\ resolved' = CHOOSE t \in candidates : \A u \in candidates : t <= u
  BY DEF ResolveCandidates, Inv, CandidatesComplete
<1>2. ~ InGap(wall, loc)
  BY <1>1 DEF InGap
<1>3. resolved' = MeaningOf(wall, loc)
  BY <1>1, <1>2 DEF MeaningOf
<1>4. resolved' \in Int
  <2>1. MeaningOf(wall, loc) \in Displaying(wall, loc)
    BY <1>2, MeaningIsEarliest, ArgsTyped DEF Inv
  <2> QED BY <1>3, <2>1, ArgsTyped DEF Displaying, Inv
<1>5. TypeOK'
  BY <1>1, <1>4, NoneAssumption DEF Inv, TypeOK, ResolveCandidates, args, Control
<1>6. ResolvesToMeaning'
  BY <1>1, <1>3, ArgsFixed DEF ResolvesToMeaning, args
<1> QED
  BY <1>1, <1>5, <1>6 DEF Inv, Sampled, CandidatesComplete, WalkBeforeGap, BisectsGap,
     TransitionBracketed, FallbackUnreachable

LEMMA EnterGapSearchInv ==
  ASSUME Inv, EnterGapSearch
  PROVE  Inv'
<1>1. /\ UNCHANGED args /\ pc = "resolveLocalWall" /\ pc' = "firstInstantAfterGap"
      /\ step' = 0 /\ prevOffset' = OffsetAt(anchor, loc)
      /\ InGap(wall, loc)
  BY DEF EnterGapSearch, Inv, CandidatesComplete, InGap
<1>2. anchor < loc.at /\ OffsetAt(anchor, loc) = loc.before /\ loc.before \in Int
  BY <1>1, WalkMeetsGap, ArgsTyped DEF Inv, OffsetAt
<1>3. TypeOK'
  BY <1>1, <1>2 DEF Inv, TypeOK, EnterGapSearch, args, Control, CoarseSteps
<1>4. WalkBeforeGap'
  <2>1. At(0) = anchor
    BY WalkHours, ArgsTyped DEF Inv
  <2>2. At(0)' = anchor /\ wall' = wall /\ loc' = loc
    BY <1>1, <2>1, ArgsFixed DEF args
  <2>3. At(step)' = anchor
    BY <1>1, <2>2 DEF At
  <2> QED BY <1>1, <1>2, <2>2, <2>3 DEF WalkBeforeGap
<1> QED
  BY <1>1, <1>3, <1>4 DEF Inv, Sampled, CandidatesComplete, BisectsGap,
     TransitionBracketed, FallbackUnreachable, ResolvesToMeaning

LEMMA WalkInv ==
  ASSUME Inv, Walk
  PROVE  Inv'
<1> DEFINE curOffset == OffsetAt(At(step + 1), loc)
<1>1. /\ UNCHANGED <<args, offsets, candidates>> /\ pc = "firstInstantAfterGap"
      /\ InGap(wall, loc) /\ At(step) < loc.at /\ prevOffset = loc.before
      /\ step \in 0 .. 36
  BY DEF Walk, Inv, WalkBeforeGap, TypeOK, CoarseSteps
<1>2. /\ loc.before \in Int /\ loc.after \in Int /\ loc.at \in Int
      /\ anchor \in Int /\ loc.at <= anchor + 36 * H
      /\ loc.before < loc.after
  BY <1>1, WalkMeetsGap, ArgsTyped DEF Inv
<1>3. /\ At(step) \in Int /\ At(step + 1) \in Int
      /\ At(step + 1) = At(step) + H
      /\ At(36) = anchor + 36 * H
  BY <1>1, <1>2, WalkHours
<1>4. step < 36
  BY <1>1, <1>2, <1>3, HAssumption
<1>5. CASE curOffset > prevOffset
  <2>1. /\ lo' = At(step) /\ hi' = At(step + 1) /\ target' = curOffset
        /\ pc' = "firstInstantWithOffset"
        /\ UNCHANGED <<step, prevOffset, resolved>>
    BY <1>1, <1>4, <1>5 DEF Walk, CoarseSteps
  <2>2. At(step + 1) >= loc.at /\ curOffset = loc.after
    BY <1>1, <1>2, <1>3, <1>5 DEF OffsetAt
  <2>3. TypeOK'
    BY <1>1, <1>2, <1>3, <2>1, <2>2 DEF Inv, TypeOK, args, Control
  <2>4. BisectsGap'
    BY <1>1, <1>2, <2>1, <2>2, ArgsFixed DEF BisectsGap, args
  <2>5. TransitionBracketed'
    BY <1>1, <1>2, <1>3, <2>1, <2>2, HAssumption DEF TransitionBracketed, OffsetAt, args
  <2> QED
    BY <2>1, <2>3, <2>4, <2>5 DEF Inv, Sampled, CandidatesComplete, WalkBeforeGap,
       FallbackUnreachable, ResolvesToMeaning
<1>6. CASE ~ (curOffset > prevOffset)
  <2>1. /\ step' = step + 1 /\ prevOffset' = curOffset
        /\ UNCHANGED <<pc, lo, hi, target, resolved>>
    BY <1>1, <1>4, <1>6 DEF Walk, CoarseSteps
  <2>2. At(step + 1) < loc.at /\ curOffset = loc.before
    BY <1>1, <1>2, <1>3, <1>6 DEF OffsetAt
  <2>3. TypeOK'
    BY <1>1, <1>2, <1>4, <2>1, <2>2 DEF Inv, TypeOK, args, CoarseSteps
  <2>4. WalkBeforeGap'
    <3>1. At(step)' = At(step + 1)
      BY <1>1, <2>1, ArgsFixed DEF At
    <3> QED
      BY <1>1, <2>1, <2>2, <3>1, ArgsFixed DEF WalkBeforeGap, args
  <2> QED
    BY <1>1, <2>1, <2>3, <2>4 DEF Inv, Sampled, CandidatesComplete, BisectsGap,
       TransitionBracketed, FallbackUnreachable, ResolvesToMeaning
<1> QED
  BY <1>5, <1>6

\* Halving an interval longer than one tick leaves both halves non-empty.
LEMMA MidpointInside ==
  ASSUME NEW a \in Int, NEW b \in Int, b - a > 1
  PROVE  LET mid == a + (b - a) \div 2
         IN  mid \in Int /\ a < mid /\ mid < b
OBVIOUS

LEMMA BisectInv ==
  ASSUME Inv, Bisect
  PROVE  Inv'
<1> DEFINE mid == lo + (hi - lo) \div 2
<1>1. /\ UNCHANGED <<args, pc, offsets, candidates, step, prevOffset, target, resolved>>
      /\ pc = "firstInstantWithOffset"
      /\ lo \in Int /\ hi \in Int /\ target \in Int /\ hi - lo > 1
      /\ hi - lo <= H
      /\ OffsetAt(lo, loc) < target /\ OffsetAt(hi, loc) >= target
  BY DEF Bisect, Inv, TypeOK, TransitionBracketed
<1>2. mid \in Int /\ lo < mid /\ mid < hi
  BY <1>1, MidpointInside
<1>3. \/ OffsetAt(mid, loc) >= target /\ hi' = mid /\ lo' = lo
      \/ ~ (OffsetAt(mid, loc) >= target) /\ lo' = mid /\ hi' = hi
  BY DEF Bisect
<1> HIDE DEF mid
<1>4. OffsetAt(mid, loc) \in Int
  BY <1>2, ArgsTyped DEF Inv, OffsetAt
<1>5. TypeOK'
  BY <1>1, <1>2, <1>3 DEF Inv, TypeOK, args
<1>6. TransitionBracketed'
  <2>1. UNCHANGED <<loc, target, pc>>
    BY <1>1 DEF args
  <2>2. lo' < hi' /\ hi' - lo' <= H
    BY <1>1, <1>2, <1>3, HAssumption
  <2>3. OffsetAt(lo', loc) < target /\ OffsetAt(hi', loc) >= target
    BY <1>1, <1>3, <1>4
  <2> QED BY <2>1, <2>2, <2>3 DEF TransitionBracketed, OffsetAt
<1>7. BisectsGap'
  BY <1>1, ArgsFixed DEF BisectsGap, Inv, args
<1> QED
  BY <1>1, <1>5, <1>6, <1>7 DEF Inv, Sampled, CandidatesComplete, WalkBeforeGap,
     FallbackUnreachable, ResolvesToMeaning

LEMMA BracketedInv ==
  ASSUME Inv, Bracketed
  PROVE  Inv'
<1>1. /\ UNCHANGED args /\ pc = "firstInstantWithOffset" /\ pc' = "done"
      /\ resolved' = hi
      /\ lo \in Int /\ hi \in Int /\ lo < hi /\ hi - lo <= 1
      /\ OffsetAt(lo, loc) < target /\ OffsetAt(hi, loc) >= target
      /\ target = loc.after /\ loc.before < loc.after
      /\ InGap(wall, loc)
  BY DEF Bracketed, Inv, TypeOK, TransitionBracketed, BisectsGap
<1>2. hi = loc.at
  BY <1>1, ArgsTyped DEF Inv, OffsetAt
<1>3. TypeOK'
  BY <1>1, NoneAssumption DEF Inv, TypeOK, Bracketed, args, Control
<1>4. ResolvesToMeaning'
  BY <1>1, <1>2, ArgsFixed DEF ResolvesToMeaning, MeaningOf, args
<1> QED
  BY <1>1, <1>3, <1>4 DEF Inv, Sampled, CandidatesComplete, WalkBeforeGap, BisectsGap,
     TransitionBracketed, FallbackUnreachable

LEMMA StutterInv ==
  ASSUME Inv, UNCHANGED vars
  PROVE  Inv'
BY ArgsFixed DEF vars, args, Inv, TypeOK, Sampled, CandidatesComplete, WalkBeforeGap, At,
   BisectsGap, TransitionBracketed, FallbackUnreachable, ResolvesToMeaning

LEMMA Invariance == Spec => []Inv
<1>1. Init => Inv
  BY InitInv
<1>2. Inv /\ [Next]_vars => Inv'
  BY NearbyOffsetsInv, WallUTCCandidatesInv, ResolveCandidatesInv, EnterGapSearchInv,
     WalkInv, BisectInv, BracketedInv, StutterInv DEF Next
<1> QED
  BY <1>1, <1>2, PTL DEF Spec

(***************************************************************************)
(* resolveLocalWall implements the sentence of the extension it quotes, in *)
(* every zone, across the changes of the date line too.                    *)
(***************************************************************************)
THEOREM ResolutionCorrect == Spec => []ResolvesToMeaning
<1>1. Inv => ResolvesToMeaning
  BY DEF Inv
<1> QED
  BY <1>1, Invariance, PTL

(***************************************************************************)
(* The line the source calls unreachable is: the walk of 36 hours always   *)
(* meets the gap it was started for.                                       *)
(***************************************************************************)
THEOREM FallbackNeverTaken == Spec => []FallbackUnreachable
<1>1. Inv => FallbackUnreachable
  BY DEF Inv
<1> QED
  BY <1>1, Invariance, PTL

(***************************************************************************)
(* Type correctness and the loop invariant of the bisection.               *)
(***************************************************************************)
THEOREM TypesAndBracket == Spec => [](TypeOK /\ TransitionBracketed)
<1>1. Inv => TypeOK /\ TransitionBracketed
  BY DEF Inv
<1> QED
  BY <1>1, Invariance, PTL

(***************************************************************************)
(* Local displayAt values keep their order whatever the zone does between  *)
(* them: a later reading never resolves to an earlier instant.             *)
(***************************************************************************)
THEOREM MeaningKeepsOrder ==
  ASSUME NEW z \in Zone, NEW v \in Int, NEW w \in Int, v <= w
  PROVE  MeaningOf(v, z) <= MeaningOf(w, z)
<1>1. z.before \in Int /\ z.after \in Int /\ z.at \in Int
  BY DEF Zone
<1>2. ASSUME NEW r \in Int
      PROVE  MeaningOf(r, z) = IF r - z.before < z.at THEN r - z.before
                               ELSE IF r - z.after >= z.at THEN r - z.after
                               ELSE z.at
  <2>1. CASE InGap(r, z)
    BY <1>1, <2>1, GapBounds DEF MeaningOf
  <2>2. CASE ~ InGap(r, z)
    <3>1. /\ MeaningOf(r, z) \in Displaying(r, z)
          /\ \A u \in Displaying(r, z) : MeaningOf(r, z) <= u
      BY <2>2, MeaningIsEarliest
    <3>2. \A t \in Int : t \in Displaying(r, z) <=>
            \/ t = r - z.before /\ t < z.at
            \/ t = r - z.after /\ t >= z.at
      BY <1>1 DEF Displaying, WallAt, OffsetAt
    <3>3. MeaningOf(r, z) \in Int
      BY <1>1, <3>1 DEF Displaying
    <3> QED
      BY <1>1, <2>2, <3>1, <3>2, <3>3, GapBounds
  <2> QED BY <2>1, <2>2
<1> QED
  BY <1>1, <1>2
=============================================================================
