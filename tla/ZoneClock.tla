------------------------------ MODULE ZoneClock ------------------------------
(***************************************************************************)
(* Instants, wall clocks and time zones, as displayat/displayat.go uses    *)
(* them.  An instant is a number of ticks of Unix time.  A wall clock      *)
(* reading (year, month, day, hour, minute, second) is the number of ticks *)
(* that lead to it in UTC, so that in a zone                               *)
(*                                                                         *)
(*      wall reading of t  =  t + (offset of the zone at t)                *)
(*                                                                         *)
(* A zone has one transition: IANA zones have more, but the code looks at  *)
(* no more than two days around a reading, and no zone has two transitions *)
(* that close.  A zone with before = after has none.                       *)
(***************************************************************************)
EXTENDS Integers

CONSTANT H          \* ticks in an hour

ASSUME HAssumption == H \in Nat \ {0}

Day == 24 * H

Zone == [before : Int, after : Int, at : Int]

\* The location a nil *time.Location stands for.
UTC == [before |-> 0, after |-> 0, at |-> 0]

OffsetAt(t, loc) == IF t < loc.at THEN loc.before ELSE loc.after

WallAt(t, loc) == t + OffsetAt(t, loc)

(***************************************************************************)
(* time.Date of the Go library: it guesses the offset in force at the      *)
(* reading taken as UTC and, when the instant this gives lies across a     *)
(* transition, takes the offset in force at that instant instead.  A       *)
(* reading in a gap maps to an instant that displays as another reading.   *)
(***************************************************************************)
GoDate(wall, loc) ==
  LET guess == OffsetAt(wall, loc)
      utc   == wall - guess
      fits  == (wall < loc.at) <=> (utc < loc.at)
  IN  wall - (IF fits THEN guess ELSE OffsetAt(utc, loc))

-----------------------------------------------------------------------------
(***************************************************************************)
(* What a wall clock reading means (DP-1 playlists extension, 3.5.2, as    *)
(* the comment of resolveLocalWall states it).                             *)
(***************************************************************************)

\* The instants that display as the reading: none in a gap, two in a fold.
Displaying(wall, loc) ==
  { t \in {wall - loc.before, wall - loc.after} : WallAt(t, loc) = wall }

\* A reading that no instant displays.
InGap(wall, loc) == Displaying(wall, loc) = {}

\* The earlier of the instants that display as the reading; in a gap, the
\* first instant after it.
MeaningOf(wall, loc) ==
  IF InGap(wall, loc)
    THEN loc.at
    ELSE CHOOSE t \in Displaying(wall, loc) :
           \A u \in Displaying(wall, loc) : t <= u

=============================================================================
