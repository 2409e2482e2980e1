--------------------------- MODULE WallResolution ---------------------------
(***************************************************************************)
(* resolveLocalWall of displayat/displayat.go: how a timezone-less         *)
(* displayAt value becomes an instant.  The code never asks the zone for   *)
(* its transition.  It samples the offset at five points around the day,   *)
(* keeps the instants that display as the reading and, when there is none  *)
(* (a spring-forward gap), walks a day and a half in steps of one hour     *)
(* until the offset grows and bisects that hour.                           *)
(*                                                                         *)
(* One behaviour is one call: each loop iteration is a step.               *)
(***************************************************************************)
EXTENDS ZoneClock

CONSTANTS
  Locations,     \* the zones of the calls
  Midnights,     \* the readings 00:00 of the civil days of the calls
  ClockTimes,    \* the times of day of the calls, in ticks after midnight
  None           \* no result yet

ASSUME LocationsAssumption == Locations \subseteq Zone
ASSUME MidnightsAssumption == Midnights \subseteq Int
ASSUME ClockTimesAssumption == ClockTimes \subseteq 0 .. Day - 1
ASSUME NoneAssumption == None \notin Int

\* Most changes are of half a day at most.  Those of the date line are of up to a
\* day, and were made when clocks read 00:00.
ASSUME ChangesAssumption ==
  \A z \in Locations :
    \/ z.after - z.before \in -(12 * H) .. 12 * H
    \/ /\ z.after - z.before \in -Day .. Day
       /\ \A m \in Midnights : (z.at + z.before - m) % Day = 0

VARIABLES
  loc, midnight, clockTime,  \* the arguments: zone, (year, month, day), (hour, min, sec)
  pc,                        \* the function the call is in
  offsets,                   \* nearbyOffsets: the distinct offsets sampled
  candidates,                \* wallUTCCandidates: the distinct instants found
  step,                      \* hours walked by firstInstantAfterGap
  prevOffset,                \* offset after those hours
  lo, hi, target,            \* the bracket of firstInstantWithOffset
  resolved                   \* the result

args == <<loc, midnight, clockTime>>
vars == <<args, pc, offsets, candidates, step, prevOffset, lo, hi, target, resolved>>

wall == midnight + clockTime
noon == GoDate(midnight + 12 * H, loc)

\* The walk over the gap starts 24 hours before noon and lasts 36 hours.
\* Variant: the walk starts at noon of the day itself.
anchor_NoonOfDay == noon

anchor == noon - 24 * H
CoarseSteps == 36
At(n) == anchor + n * H

Init ==
  /\ loc \in Locations /\ midnight \in Midnights /\ clockTime \in ClockTimes
  /\ pc = "nearbyOffsets"
  /\ offsets = {} /\ candidates = {}
  /\ step = 0 /\ prevOffset = 0
  /\ lo = 0 /\ hi = 0 /\ target = 0
  /\ resolved = None

\* Samples at 00:00, 12:00, 23:00 and a day before and after 12:00.
SamplePoints ==
  { GoDate(midnight, loc), noon, GoDate(midnight + 23 * H, loc),
    noon - 24 * H, noon + 24 * H }

NearbyOffsets ==
  /\ pc = "nearbyOffsets"
  /\ offsets' = { OffsetAt(t, loc) : t \in SamplePoints }
  /\ pc' = "wallUTCCandidates"
  /\ UNCHANGED <<args, candidates, step, prevOffset, lo, hi, target, resolved>>

\* The reading taken in each sampled offset, kept when loc displays it so.
WallUTCCandidates ==
  /\ pc = "wallUTCCandidates"
  /\ candidates' = { t \in { wall - off : off \in offsets } : WallAt(t, loc) = wall }
  /\ pc' = "resolveLocalWall"
  /\ UNCHANGED <<args, offsets, step, prevOffset, lo, hi, target, resolved>>

\* Variant: the later instant of a fold.
ResolveCandidates_Latest ==
  /\ pc = "resolveLocalWall" /\ candidates # {}
  /\ resolved' = CHOOSE t \in candidates : \A u \in candidates : t >= u
  /\ pc' = "done"
  /\ UNCHANGED <<args, offsets, candidates, step, prevOffset, lo, hi, target>>

ResolveCandidates ==
  /\ pc = "resolveLocalWall" /\ candidates # {}
  /\ resolved' = CHOOSE t \in candidates : \A u \in candidates : t <= u
  /\ pc' = "done"
  /\ UNCHANGED <<args, offsets, candidates, step, prevOffset, lo, hi, target>>

\* Variant: no case for a gap, the zero time is returned.
EnterGapSearch_NoCase ==
  /\ pc = "resolveLocalWall" /\ candidates = {}
  /\ pc' = "done"
  /\ UNCHANGED <<args, offsets, candidates, step, prevOffset, lo, hi, target, resolved>>

EnterGapSearch ==
  /\ pc = "resolveLocalWall" /\ candidates = {}
  /\ step' = 0 /\ prevOffset' = OffsetAt(anchor, loc)
  /\ pc' = "firstInstantAfterGap"
  /\ UNCHANGED <<args, offsets, candidates, lo, hi, target, resolved>>

\* One iteration of the walk: the offset has grown over the hour, or not.  When
\* no hour is left, the code falls back to noon of the day.
Walk ==
  /\ pc = "firstInstantAfterGap"
  /\ LET curOffset == OffsetAt(At(step + 1), loc) IN
       CASE step = CoarseSteps ->
              /\ resolved' = noon /\ pc' = "fallback"
              /\ UNCHANGED <<step, prevOffset, lo, hi, target>>
         [] step < CoarseSteps /\ curOffset > prevOffset ->
              /\ lo' = At(step) /\ hi' = At(step + 1) /\ target' = curOffset
              /\ pc' = "firstInstantWithOffset"
              /\ UNCHANGED <<step, prevOffset, resolved>>
         [] OTHER ->
              /\ step' = step + 1 /\ prevOffset' = curOffset
              /\ UNCHANGED <<pc, lo, hi, target, resolved>>
  /\ UNCHANGED <<args, offsets, candidates>>

\* Variant: the lower end stays where it is.
Bisect_LoKept ==
  /\ pc = "firstInstantWithOffset" /\ hi - lo > 1
  /\ LET mid == lo + (hi - lo) \div 2 IN
       hi' = IF OffsetAt(mid, loc) >= target THEN mid ELSE hi
  /\ UNCHANGED <<args, pc, offsets, candidates, step, prevOffset, lo, target, resolved>>

Bisect ==
  /\ pc = "firstInstantWithOffset" /\ hi - lo > 1
  /\ LET mid == lo + (hi - lo) \div 2 IN
       IF OffsetAt(mid, loc) >= target
         THEN hi' = mid /\ UNCHANGED lo
         ELSE lo' = mid /\ UNCHANGED hi
  /\ UNCHANGED <<args, pc, offsets, candidates, step, prevOffset, target, resolved>>

Bracketed ==
  /\ pc = "firstInstantWithOffset" /\ hi - lo <= 1
  /\ resolved' = hi
  /\ pc' = "done"
  /\ UNCHANGED <<args, offsets, candidates, step, prevOffset, lo, hi, target>>

Next ==
  \/ NearbyOffsets \/ WallUTCCandidates
  \/ ResolveCandidates \/ EnterGapSearch
  \/ Walk \/ Bisect \/ Bracketed

\* The call is one goroutine that nothing blocks.
Spec == Init /\ [][Next]_vars /\ WF_vars(Next)

Control == {"nearbyOffsets", "wallUTCCandidates", "resolveLocalWall",
            "firstInstantAfterGap", "firstInstantWithOffset", "done", "fallback"}

\* Every variable of the call stays in its type, and there is a result exactly
\* when the call has returned.
TypeOK ==
  /\ loc \in Locations /\ midnight \in Midnights /\ clockTime \in ClockTimes
  /\ pc \in Control
  /\ offsets \subseteq Int /\ candidates \subseteq Int
  /\ step \in 0 .. CoarseSteps /\ prevOffset \in Int
  /\ lo \in Int /\ hi \in Int /\ target \in Int
  /\ resolved \in Int \cup {None}
  /\ resolved # None <=> pc \in {"done", "fallback"}

\* The five samples and the two searches find what the extension prescribes:
\* the instant that displays as the reading, the earlier one in a fold, the
\* first instant after the gap in a gap (displayat.go:109-114).
ResolvesToMeaning ==
  pc \in {"done", "fallback"} => resolved = MeaningOf(wall, loc)

\* The walk over a gap always meets it (displayat.go:199: the fallback "should
\* be unreachable").
FallbackUnreachable == pc # "fallback"

\* The bisection keeps the transition between its two ends, so it can only end
\* on the first instant of the new offset (firstInstantWithOffset).
TransitionBracketed ==
  pc = "firstInstantWithOffset" =>
    /\ lo < hi /\ hi - lo <= H
    /\ OffsetAt(lo, loc) < target /\ OffsetAt(hi, loc) >= target

\* Every call returns a resolved instant, however the zone lies around the day.
EveryCallReturns == <>(pc = "done")

=============================================================================
