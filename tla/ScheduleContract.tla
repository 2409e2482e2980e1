-------------------------- MODULE ScheduleContract --------------------------
(***************************************************************************)
(* What a player gets from the scheduling helpers: it reads the clock once *)
(* and, some time later, shows the active set of that instant and arms a   *)
(* timer for the next change.  The clock runs on meanwhile.  The player    *)
(* itself is not part of the repository; it is the caller that the         *)
(* comments of ComputeActiveSet and NextDisplayAt have in mind.            *)
(***************************************************************************)
EXTENDS DisplayAt

CONSTANTS
  Playlists,      \* the playlists a player starts with
  Replacements,   \* those it may get later (a refresh, a dynamic query)
  Locations,      \* the display locales: zones, or NilLocation
  MaxClock        \* the clock stops here

VARIABLES
  clock,          \* the present
  p, loc, now,    \* the arguments of the last computation
  busy,           \* the computation is going on
  shown,          \* the items on display, as a set of positions in p
  wake            \* the instant the timer is armed for

vars == <<clock, p, loc, now, busy, shown, wake>>

Init ==
  /\ clock \in 0 .. MaxClock /\ now = clock
  /\ p \in Playlists /\ loc \in Locations
  /\ busy = TRUE
  /\ shown = {} /\ wake = None

Tick == /\ clock < MaxClock
        /\ clock' = clock + 1
        /\ UNCHANGED <<p, loc, now, busy, shown, wake>>

\* The timer is armed and its instant has come.
Due == wake # None /\ clock >= wake

Begin(q, l) ==
  /\ ~ busy
  /\ busy' = TRUE /\ p' = q /\ loc' = l /\ now' = clock
  /\ UNCHANGED <<clock, shown, wake>>

WakeUp == Due /\ Begin(p, loc)

Replace == \E q \in Replacements, l \in Locations : Begin(q, l)

Finish ==
  /\ busy
  /\ busy' = FALSE
  /\ shown' = ActiveSet(p, now, loc)
  /\ wake' \in Upcoming(p, now, loc) \cup {None} /\ IsNext(wake', p, now, loc)
  /\ UNCHANGED <<clock, p, loc, now>>

Next == Tick \/ WakeUp \/ Replace \/ Finish

Spec == Init /\ [][Next]_vars
=============================================================================
