--------------------------- MODULE DisplaySchedule ---------------------------
(***************************************************************************)
(* ComputeActiveSet and NextDisplayAt of displayat/schedule.go, one step   *)
(* per loop iteration, called one after the other by a player that reads   *)
(* the clock once for both and shows their results.                        *)
(***************************************************************************)
EXTENDS DisplayAt

CONSTANTS Playlists, Replacements, Locations, MaxClock

ASSUME PlaylistsAssumption ==
  Playlists \subseteq Seq(Value) /\ Replacements \subseteq Playlists
ASSUME LocationsAssumption == Locations \ {NilLocation} \subseteq Zone
ASSUME MaxClockAssumption == MaxClock \in Nat

VARIABLES
  clock,                 \* the present
  p, loc, now,           \* the arguments of the two calls
  pc,                    \* the loop the calls are in, or "idle"
  k,                     \* the position of that loop
  items,                 \* the values of p, resolved
  hasPast, maxInstant,   \* the latest instant reached, if any
  result,                \* the active set found so far
  next,                  \* the smallest instant after now so far
  shown, wake            \* what the player displays and waits for

args   == <<p, loc, now>>
locals == <<k, items, hasPast, maxInstant, result, next>>
player == <<shown, wake>>
vars   == <<clock, args, pc, locals, player>>

Resolved == [instant : Int, isTimed : BOOLEAN, evergreen : BOOLEAN]

Cleared ==
  /\ k = 1 /\ items = <<>>
  /\ hasPast = FALSE /\ maxInstant = 0
  /\ result = <<>> /\ next = None

Init ==
  /\ clock \in 0 .. MaxClock /\ now = clock
  /\ p \in Playlists /\ loc \in Locations
  /\ pc = "ComputeActiveSet"
  /\ Cleared
  /\ shown = <<>> /\ wake = None

Tick == /\ clock < MaxClock
        /\ clock' = clock + 1
        /\ UNCHANGED <<args, pc, locals, player>>

Due == wake # None /\ clock >= wake

Call(q, l) ==
  /\ pc = "idle" /\ pc' = "ComputeActiveSet"
  /\ p' = q /\ loc' = l /\ now' = clock
  /\ k' = 1 /\ items' = <<>> /\ hasPast' = FALSE /\ maxInstant' = 0
  /\ result' = <<>> /\ next' = None
  /\ UNCHANGED <<clock, player>>

WakeUp == Due /\ Call(p, loc)

Replace == \E q \in Replacements, l \in Locations : Call(q, l)

\* Loops over the items: one step per item, and one to leave.
InLoop(name) == pc = name /\ k <= Len(p)
Leave(name, to) == pc = name /\ k > Len(p) /\ pc' = to /\ k' = 1
Advance == k' = k + 1 /\ UNCHANGED pc

-----------------------------------------------------------------------------
\* ComputeActiveSet: without any displayAt, all items.
CopyAll ==
  /\ pc = "ComputeActiveSet" /\ ~ HasDisplayAt(p)
  /\ result' = [n \in 1 .. Len(p) |-> n]
  /\ pc' = "NextDisplayAt"
  /\ UNCHANGED <<clock, args, k, items, hasPast, maxInstant, next, player>>

Schedule ==
  /\ pc = "ComputeActiveSet" /\ HasDisplayAt(p)
  /\ pc' = "resolve"
  /\ UNCHANGED <<clock, args, locals, player>>

\* Variant: an unresolvable value is skipped, as NextDisplayAt does.
ResolveItem_Skips ==
  /\ InLoop("resolve") /\ Advance
  /\ LET parsed == Parse(p[k], loc)
         timed  == p[k].form # "absent" /\ IsValid(parsed)
     IN  items' = IF ~ timed /\ p[k].form # "absent" THEN items
                  ELSE Append(items, [instant   |-> parsed.resolved,
                                      isTimed   |-> timed,
                                      evergreen |-> ~ timed])
  /\ UNCHANGED <<clock, args, hasPast, maxInstant, result, next, player>>

ResolveItem ==
  /\ InLoop("resolve") /\ Advance
  /\ LET parsed == Parse(p[k], loc)
         timed  == p[k].form # "absent" /\ IsValid(parsed)
     IN  items' = Append(items, [instant   |-> IF timed THEN parsed.resolved ELSE 0,
                                 isTimed   |-> timed,
                                 evergreen |-> p[k].form = "absent"])
  /\ UNCHANGED <<clock, args, hasPast, maxInstant, result, next, player>>

AllResolved ==
  /\ Leave("resolve", "maximum")
  /\ UNCHANGED <<clock, args, items, hasPast, maxInstant, result, next, player>>

\* Variant: an item waits for its instant to be past.
Reached_Strict(r) == r.isTimed /\ r.instant < now

Reached(r) == r.isTimed /\ r.instant <= now

MaximumItem ==
  /\ InLoop("maximum") /\ Advance
  /\ IF Reached(items[k]) /\ (~ hasPast \/ items[k].instant > maxInstant)
       THEN maxInstant' = items[k].instant /\ hasPast' = TRUE
       ELSE UNCHANGED <<maxInstant, hasPast>>
  /\ UNCHANGED <<clock, args, items, result, next, player>>

MaximumFound ==
  /\ Leave("maximum", "select")
  /\ UNCHANGED <<clock, args, items, hasPast, maxInstant, result, next, player>>

Selected(r) ==
  \/ r.isTimed /\ hasPast /\ r.instant = maxInstant
  \/ ~ r.isTimed /\ r.evergreen

\* Variant: the items are collected from the last one.
SelectItem_Reversed ==
  /\ InLoop("select") /\ Advance
  /\ result' = IF Selected(items[k]) THEN <<k>> \o result ELSE result
  /\ UNCHANGED <<clock, args, items, hasPast, maxInstant, next, player>>

SelectItem ==
  /\ InLoop("select") /\ Advance
  /\ result' = IF Selected(items[k]) THEN Append(result, k) ELSE result
  /\ UNCHANGED <<clock, args, items, hasPast, maxInstant, next, player>>

AllSelected ==
  /\ Leave("select", "NextDisplayAt")
  /\ UNCHANGED <<clock, args, items, hasPast, maxInstant, result, next, player>>

-----------------------------------------------------------------------------
\* NextDisplayAt: its loop skips what has no instant.
\* Variant: an instant that is now counts as the next one.
NextItem_NotBefore ==
  /\ InLoop("NextDisplayAt") /\ HasDisplayAt(p) /\ Advance
  /\ LET parsed == Parse(p[k], loc)
     IN  next' = IF /\ p[k].form # "absent" /\ IsValid(parsed)
                    /\ parsed.resolved >= now
                    /\ next = None \/ parsed.resolved < next
                   THEN parsed.resolved
                   ELSE next
  /\ UNCHANGED <<clock, args, items, hasPast, maxInstant, result, player>>

NextItem ==
  /\ InLoop("NextDisplayAt") /\ HasDisplayAt(p) /\ Advance
  /\ LET parsed == Parse(p[k], loc)
     IN  next' = IF /\ p[k].form # "absent" /\ IsValid(parsed)
                    /\ parsed.resolved > now
                    /\ next = None \/ parsed.resolved < next
                   THEN parsed.resolved
                   ELSE next
  /\ UNCHANGED <<clock, args, items, hasPast, maxInstant, result, player>>

\* Both calls have returned; the player takes their results.
Show ==
  /\ pc = "NextDisplayAt" /\ (k > Len(p) \/ ~ HasDisplayAt(p))
  /\ shown' = result /\ wake' = next
  /\ pc' = "idle"
  /\ UNCHANGED <<clock, args, locals>>

Compute ==
  \/ CopyAll \/ Schedule
  \/ ResolveItem \/ AllResolved
  \/ MaximumItem \/ MaximumFound
  \/ SelectItem \/ AllSelected
  \/ NextItem \/ Show

Next == Tick \/ WakeUp \/ Replace \/ Compute

\* The calls block on nothing and the player answers its timer; nothing makes
\* the clock run or a playlist change.
Spec == Init /\ [][Next]_vars /\ WF_vars(Compute) /\ WF_vars(WakeUp)

-----------------------------------------------------------------------------
Loops == {"resolve", "maximum", "select", "NextDisplayAt"}

\* Types; a loop reads only values the loop before it has resolved.
TypeOK ==
  /\ clock \in 0 .. MaxClock /\ now \in 0 .. clock
  /\ p \in Playlists /\ loc \in Locations
  /\ pc \in Loops \cup {"idle", "ComputeActiveSet"}
  /\ k \in 1 .. Len(p) + 1
  /\ items \in Seq(Resolved)
  /\ pc \in {"maximum", "select"} => Len(items) = Len(p)
  /\ hasPast \in BOOLEAN /\ maxInstant \in Int
  /\ result \in Seq(Nat) /\ shown \in Seq(Nat)
  /\ next \in Int \cup {None} /\ wake \in Int \cup {None}

\* The player shows the items in the order of the playlist, each once
\* (schedule.go:19, "Preserve original order").
ShownInOrder ==
  \A m, n \in DOMAIN shown : m < n => shown[m] < shown[n]

OnDisplay == { shown[n] : n \in DOMAIN shown }

\* Until its timer goes off, a player that is not recomputing shows the active
\* set of the present although it computed the set of an earlier instant:
\* NextDisplayAt misses no change of ComputeActiveSet.
ShownUntilWake ==
  pc = "idle" /\ ~ Due => OnDisplay = ActiveSet(p, clock, loc)

\* Once the timer goes off, what is shown is wrong: NextDisplayAt wakes no
\* player for nothing.
WakeMeansChange ==
  pc = "idle" /\ Due => OnDisplay # ActiveSet(p, clock, loc)

\* The two loops over resolved values and the loop of NextDisplayAt compute, in
\* one step of the contract, the active set and the next change of one instant.
Contract == INSTANCE ScheduleContract WITH busy <- pc # "idle", shown <- OnDisplay

ImplementsContract == Contract!Spec

\* A change that is due reaches the display.
DueIsAnswered == pc = "idle" /\ Due ~> pc = "idle" /\ ~ Due

=============================================================================
