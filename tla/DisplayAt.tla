------------------------------ MODULE DisplayAt ------------------------------
(***************************************************************************)
(* The displayAt values of a playlist and what they schedule: Parse of     *)
(* displayat/displayat.go, and the active set and the next change as the   *)
(* comments of ComputeActiveSet and NextDisplayAt (displayat/schedule.go)  *)
(* define them.  A playlist is the sequence of the displayAt values of its *)
(* items; a nil playlist is the empty one.                                 *)
(***************************************************************************)
EXTENDS ZoneClock, Sequences

CONSTANTS
  NilLocation,   \* a nil *time.Location
  None           \* a nil *time.Time: nothing to wait for

ASSUME NoneNotInstant == None \notin Int

\* "absent" is a nil DisplayAt, "malformed" a value that no pattern accepts or
\* that names no day of the calendar.
Value == [form : {"absent", "malformed", "local", "absolute"},
          wall : Int, offset : Int]

Location(l) == IF l = NilLocation THEN UTC ELSE l

Parse(raw, l) ==
  CASE raw.form = "absolute" -> [kind |-> "absolute", resolved |-> raw.wall - raw.offset]
    [] raw.form = "local"    -> [kind |-> "local",
                                 resolved |-> MeaningOf(raw.wall, Location(l))]
    [] OTHER                 -> [kind |-> "invalid", resolved |-> 0]

IsValid(parsed) == parsed.kind # "invalid"

HasDisplayAt(p) == \E i \in DOMAIN p : p[i].form # "absent"

-----------------------------------------------------------------------------
Evergreen(p) == { i \in DOMAIN p : p[i].form = "absent" }

Timed(p, l) == { i \in DOMAIN p : p[i].form # "absent" /\ IsValid(Parse(p[i], l)) }

InstantOf(p, l, i) == Parse(p[i], l).resolved

Past(p, now, l) == { i \in Timed(p, l) : InstantOf(p, l, i) <= now }

\* The timed items whose instant is the latest one reached.
Cohort(p, now, l) ==
  { i \in Past(p, now, l) :
      \A j \in Past(p, now, l) : InstantOf(p, l, j) <= InstantOf(p, l, i) }

ActiveSet(p, now, l) ==
  IF HasDisplayAt(p) THEN Evergreen(p) \cup Cohort(p, now, l) ELSE DOMAIN p

Upcoming(p, now, l) ==
  { InstantOf(p, l, i) : i \in { j \in Timed(p, l) : InstantOf(p, l, j) > now } }

\* w is the next instant at which something is scheduled, or None.
IsNext(w, p, now, l) ==
  IF Upcoming(p, now, l) = {}
    THEN w = None
    ELSE w \in Upcoming(p, now, l) /\ \A t \in Upcoming(p, now, l) : w <= t

=============================================================================
