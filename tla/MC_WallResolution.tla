-------------------------- MODULE MC_WallResolution --------------------------
(***************************************************************************)
(* Ticks of a quarter of an hour.  One civil day, every reading of it, and *)
(* the changes of real zones moved to every half hour from a day before it *)
(* to half a day after it.  Changes of the date line happen at midnight,   *)
(* as the real ones of the last hundred years do.                          *)
(***************************************************************************)
EXTENDS WallResolution

Midnight     == 4 * Day
MCMidnights  == {Midnight}
MCClockTimes == 0 .. Day - 1

\* New York in spring and autumn, Lord Howe (half an hour), a zone without
\* changes.
ClockChanges == { <<-5 * H, -4 * H>>, <<-4 * H, -5 * H>>,
                  <<10 * H + H \div 2, 11 * H>>, <<6 * H - H \div 4, 6 * H - H \div 4>> }

\* Apia 2011 and Kwajalein 1993 (a day skipped), Kwajalein 1969 (23 hours
\* repeated).
DateLineChanges == { <<-10 * H, 14 * H>>, <<-12 * H, 12 * H>>, <<11 * H, -12 * H>> }

\* The zone that makes change c when its clock reads r.
Changing(c, r) == [before |-> c[1], after |-> c[2], at |-> r - c[1]]

MCLocations ==
  { Changing(c, Midnight + x * (H \div 2)) : c \in ClockChanges, x \in -48 .. 72 }
  \cup { Changing(c, Midnight + x * Day) : c \in DateLineChanges, x \in -1 .. 2 }
=============================================================================
