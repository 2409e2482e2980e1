----------------------- MODULE DisplaySchedule_proofs -----------------------
(***************************************************************************)
(* The loops of ComputeActiveSet and NextDisplayAt implement the contract, *)
(* and the timer of the player is exact: what it shows is right until the  *)
(* timer goes off, and wrong from then on, for every set of playlists and  *)
(* locales.                                                                *)
(***************************************************************************)
EXTENDS DisplaySchedule, WellFoundedInduction, TLAPS

LEMMA LocationType ==
  ASSUME NEW l \in Locations
  PROVE  Location(l) \in Zone
BY LocationsAssumption DEF Location, UTC, Zone

LEMMA MeaningType ==
  ASSUME NEW z \in Zone, NEW w \in Int
  PROVE  MeaningOf(w, z) \in Int
<1>1. /\ z.before \in Int /\ z.after \in Int /\ z.at \in Int
      /\ w - z.before \in Int /\ w - z.after \in Int
  BY DEF Zone
<1>2. Displaying(w, z) \subseteq {w - z.before, w - z.after}
  BY DEF Displaying
<1>3. CASE InGap(w, z)
  BY <1>1, <1>3 DEF MeaningOf
<1>4. CASE ~ InGap(w, z)
  <2>1. \E t \in Displaying(w, z) : \A u \in Displaying(w, z) : t <= u
    BY <1>1, <1>2, <1>4 DEF InGap
  <2> QED BY <1>1, <1>2, <1>4, <2>1 DEF MeaningOf
<1> QED BY <1>3, <1>4

LEMMA InstantType ==
  ASSUME NEW q \in Seq(Value), NEW l \in Locations, NEW i \in DOMAIN q
  PROVE  InstantOf(q, l, i) \in Int
<1>1. q[i] \in Value
  OBVIOUS
<1>2. q[i].wall \in Int /\ q[i].offset \in Int
  BY <1>1 DEF Value
<1>3. MeaningOf(q[i].wall, Location(l)) \in Int
  BY <1>2, LocationType, MeaningType
<1> QED BY <1>2, <1>3 DEF InstantOf, Parse

\* The sets of the contract are sets of positions.
LEMMA PositionSets ==
  ASSUME NEW q \in Seq(Value), NEW l \in Locations, NEW t \in Int
  PROVE  /\ Len(q) \in Nat /\ DOMAIN q = 1 .. Len(q)
         /\ Timed(q, l) \subseteq DOMAIN q
         /\ Past(q, t, l) \subseteq Timed(q, l)
         /\ ActiveSet(q, t, l) \subseteq DOMAIN q
         /\ \A i \in DOMAIN q : InstantOf(q, l, i) \in Int
<1>1. Len(q) \in Nat /\ DOMAIN q = 1 .. Len(q)
  OBVIOUS
<1>2. Timed(q, l) \subseteq DOMAIN q /\ Past(q, t, l) \subseteq Timed(q, l)
  BY DEF Timed, Past
<1>3. ActiveSet(q, t, l) \subseteq DOMAIN q
  BY <1>2 DEF ActiveSet, Evergreen, Cohort
<1> QED BY <1>1, <1>2, <1>3, InstantType

-----------------------------------------------------------------------------
\* Every set of upcoming instants is a set of instants after now.
LEMMA UpcomingType ==
  ASSUME NEW q \in Seq(Value), NEW l \in Locations, NEW t \in Int
  PROVE  Upcoming(q, t, l) \subseteq { u \in Int : u > t }
BY InstantType DEF Upcoming, Timed

\* As long as nothing upcoming is reached, the active set stays what it is.
LEMMA SteadyUntilNext ==
  ASSUME NEW q \in Seq(Value), NEW l \in Locations,
         NEW t0 \in Int, NEW t1 \in Int, t0 <= t1,
         \A u \in Upcoming(q, t0, l) : t1 < u
  PROVE  ActiveSet(q, t1, l) = ActiveSet(q, t0, l)
<1>1. \A i \in Timed(q, l) : InstantOf(q, l, i) \in Int
  BY InstantType DEF Timed
<1>2. ASSUME NEW i \in Timed(q, l)
      PROVE  InstantOf(q, l, i) <= t1 <=> InstantOf(q, l, i) <= t0
  <2>1. InstantOf(q, l, i) > t0 => InstantOf(q, l, i) \in Upcoming(q, t0, l)
    BY DEF Upcoming
  <2> QED BY <1>1, <2>1
<1>3. Past(q, t1, l) = Past(q, t0, l)
  BY <1>2 DEF Past
<1> QED BY <1>3 DEF ActiveSet, Cohort

LessThan == { r \in Nat \X Nat : r[1] < r[2] }

\* A non-empty set of naturals has a least member.
LEMMA LeastExists ==
  ASSUME NEW S \in SUBSET Nat, S # {}
  PROVE  \E n \in S : \A m \in S : n <= m
<1>1. IsWellFoundedOn(LessThan, Nat)
  BY NatLessThanWellFounded DEF OpToRel, LessThan
<1>2. \E n \in S : \A m \in S : ~ (<<m, n>> \in LessThan)
  BY <1>1, WFMin
<1>3. \A m, n \in S : <<m, n>> \in LessThan \/ n <= m
  BY DEF LessThan
<1> QED BY <1>2, <1>3

\* Of finitely many positions with integer values, one has the greatest.
LEMMA GreatestExists ==
  ASSUME NEW n \in Nat, NEW f \in [1 .. n -> Int],
         NEW S \in SUBSET (1 .. n), S # {}
  PROVE  \E i \in S : \A j \in S : f[j] <= f[i]
<1> DEFINE Good == { m \in 0 .. n : \A T \in SUBSET (1 .. m) :
                       T # {} => \E i \in T : \A j \in T : f[j] <= f[i] }
           Bad == (0 .. n) \ Good
<1>1. Bad = {}
  <2>1. SUFFICES ASSUME Bad # {} PROVE FALSE
    OBVIOUS
  <2>2. PICK m \in Bad : \A x \in Bad : m <= x
    <3>1. Bad \in SUBSET Nat
      OBVIOUS
    <3> HIDE DEF Bad
    <3> QED BY <2>1, <3>1, LeastExists
  <2>3. 0 \in Good
    <3>1. 1 .. 0 = {}
      OBVIOUS
    <3>2. \A T \in SUBSET (1 .. 0) : T = {}
      BY <3>1
    <3>3. 0 \in 0 .. n
      OBVIOUS
    <3> QED BY <3>2, <3>3, Zenon
  <2>4. m \in 1 .. n /\ m - 1 \in Good
    <3>1. m \in 0 .. n /\ m \notin Good
      BY <2>2
    <3>2. m \in 1 .. n
      BY <2>3, <3>1
    <3>3. m - 1 \in 0 .. n /\ m - 1 \notin Bad
      <4> HIDE DEF Good
      <4> QED BY <2>2, <3>2
    <3> QED BY <3>2, <3>3
  <2>5. m \in Good
    <3>1. SUFFICES ASSUME NEW T \in SUBSET (1 .. m), T # {}
                   PROVE  \E i \in T : \A j \in T : f[j] <= f[i]
      BY <2>2
    <3>2. m \in 1 .. n /\ T \ {m} \subseteq 1 .. (m - 1) /\ \A j \in T : f[j] \in Int
      BY <2>4, <3>1
    <3>3. CASE T \ {m} = {}
      <4>1. T = {m}
        BY <3>1, <3>3
      <4> QED BY <3>2, <4>1
    <3>4. CASE T \ {m} # {}
      <4>1. PICK i \in T \ {m} : \A j \in T \ {m} : f[j] <= f[i]
        BY <2>4, <3>2, <3>4
      <4>2. CASE m \in T /\ f[m] > f[i]
        <5>1. \A j \in T : f[j] <= f[m]
          BY <3>2, <4>1, <4>2
        <5> QED BY <4>2, <5>1
      <4>3. CASE ~ (m \in T /\ f[m] > f[i])
        BY <3>2, <4>1, <4>3
      <4> QED BY <4>2, <4>3
    <3> QED BY <3>3, <3>4
  <2> QED BY <2>2, <2>5
<1>2. n \in Good
  <2> HIDE DEF Good
  <2> QED BY <1>1
<1> QED BY <1>2

\* Once an upcoming instant is reached, the active set is another one.
LEMMA ChangeAtNext ==
  ASSUME NEW q \in Seq(Value), NEW l \in Locations,
         NEW t0 \in Int, NEW t1 \in Int,
         NEW w \in Upcoming(q, t0, l), w <= t1
  PROVE  ActiveSet(q, t1, l) # ActiveSet(q, t0, l)
<1>1. PICK i \in Timed(q, l) : w = InstantOf(q, l, i) /\ InstantOf(q, l, i) > t0
  BY DEF Upcoming
<1>2. \A j \in Timed(q, l) : InstantOf(q, l, j) \in Int
  BY InstantType DEF Timed
<1>3. i \in Past(q, t1, l) /\ Past(q, t1, l) \subseteq Timed(q, l)
  BY <1>1 DEF Past
<1>4. PICK g \in Past(q, t1, l) :
        \A j \in Past(q, t1, l) : InstantOf(q, l, j) <= InstantOf(q, l, g)
  <2> DEFINE f == [j \in 1 .. Len(q) |-> InstantOf(q, l, j)]
  <2>1. Len(q) \in Nat /\ DOMAIN q = 1 .. Len(q)
    OBVIOUS
  <2>2. f \in [1 .. Len(q) -> Int]
    BY <2>1, InstantType
  <2>3. Past(q, t1, l) \in SUBSET (1 .. Len(q))
    BY <2>1 DEF Past, Timed
  <2>4. PICK g \in Past(q, t1, l) : \A j \in Past(q, t1, l) : f[j] <= f[g]
    BY <1>3, <2>1, <2>2, <2>3, GreatestExists
  <2>5. \A j \in Past(q, t1, l) : f[j] = InstantOf(q, l, j)
    BY <2>3
  <2> QED BY <2>4, <2>5
<1>5. InstantOf(q, l, g) > t0
  BY <1>1, <1>2, <1>3, <1>4
<1>6. g \in Cohort(q, t1, l) /\ g \notin Cohort(q, t0, l)
  BY <1>2, <1>3, <1>4, <1>5 DEF Cohort, Past
<1>7. HasDisplayAt(q) /\ g \notin Evergreen(q)
  BY <1>3 DEF Timed, HasDisplayAt, Evergreen
<1> QED BY <1>6, <1>7 DEF ActiveSet

-----------------------------------------------------------------------------
(***************************************************************************)
(* The inductive invariant: what each loop has established for the items   *)
(* before its position.                                                    *)
(***************************************************************************)
IsResolved(r, i) ==
  /\ r.isTimed <=> i \in Timed(p, loc)
  /\ r.isTimed => r.instant = InstantOf(p, loc, i)
  /\ r.evergreen <=> p[i].form = "absent"

ItemsResolved ==
  pc \in {"resolve", "maximum", "select"} =>
    /\ HasDisplayAt(p)
    /\ pc = "resolve" => Len(items) = k - 1
    /\ \A i \in DOMAIN items : IsResolved(items[i], i)

PastBefore(m) == { i \in Past(p, now, loc) : i < m }

IsMaximum(m) ==
  /\ hasPast <=> PastBefore(m) # {}
  /\ hasPast => /\ \E i \in PastBefore(m) : maxInstant = InstantOf(p, loc, i)
                /\ \A i \in PastBefore(m) : InstantOf(p, loc, i) <= maxInstant

MaximumSoFar ==
  /\ pc = "resolve" => ~ hasPast
  /\ pc = "maximum" => IsMaximum(k)
  /\ pc = "select"  => IsMaximum(Len(p) + 1)

InOrder(s) == \A m, n \in DOMAIN s : m < n => s[m] < s[n]

Members(s) == { s[n] : n \in DOMAIN s }

SelectedSoFar ==
  /\ pc \in {"resolve", "maximum"} => result = <<>>
  /\ pc = "select" => Members(result) = { i \in ActiveSet(p, now, loc) : i < k }
  /\ pc = "NextDisplayAt" => Members(result) = ActiveSet(p, now, loc)
  /\ InOrder(result)

UpcomingBefore(m) ==
  { InstantOf(p, loc, i) :
      i \in { j \in Timed(p, loc) : InstantOf(p, loc, j) > now /\ j < m } }

IsNextBefore(m) ==
  IF UpcomingBefore(m) = {}
    THEN next = None
    ELSE next \in UpcomingBefore(m) /\ \A t \in UpcomingBefore(m) : next <= t

NextSoFar ==
  /\ pc \in {"ComputeActiveSet", "resolve", "maximum", "select"} => next = None
  /\ pc = "NextDisplayAt" => IsNextBefore(k)

Begun == pc = "ComputeActiveSet" => Cleared

Inv == /\ TypeOK
       /\ Begun
       /\ ItemsResolved
       /\ MaximumSoFar
       /\ SelectedSoFar
       /\ NextSoFar
       /\ ShownInOrder

LEMMA ArgsTyped ==
  ASSUME TypeOK
  PROVE  /\ p \in Seq(Value) /\ loc \in Locations
         /\ clock \in Int /\ now \in Int
         /\ Len(p) \in Nat /\ DOMAIN p = 1 .. Len(p)
BY PlaylistsAssumption, MaxClockAssumption DEF TypeOK

LEMMA InitInv == Init => Inv
<1> SUFFICES ASSUME Init PROVE Inv
  OBVIOUS
<1>1. p \in Seq(Value) /\ Len(p) \in Nat
  BY PlaylistsAssumption DEF Init
<1>2. /\ k \in 1 .. Len(p) + 1 /\ now \in 0 .. clock
      /\ maxInstant \in Int /\ hasPast \in BOOLEAN
      /\ items \in Seq(Resolved) /\ result \in Seq(Nat) /\ shown \in Seq(Nat)
  <2>1. k \in 1 .. Len(p) + 1 /\ now \in 0 .. clock /\ maxInstant \in Int
    BY <1>1, MaxClockAssumption DEF Init, Cleared
  <2>2. items \in Seq(Resolved) /\ result \in Seq(Nat) /\ shown \in Seq(Nat)
    BY DEF Init, Cleared
  <2>3. hasPast \in BOOLEAN
    BY DEF Init, Cleared
  <2> QED BY <2>1, <2>2, <2>3
<1>3. TypeOK
  BY <1>2 DEF Init, Cleared, TypeOK
<1>4. SelectedSoFar /\ ShownInOrder
  BY DEF Init, Cleared, SelectedSoFar, InOrder, ShownInOrder
<1> QED
  BY <1>3, <1>4 DEF Init, Inv, Begun, Cleared, ItemsResolved, MaximumSoFar, NextSoFar

\* What the invariant says of a computation depends on its variables only.
LEMMA ClockInv ==
  ASSUME Inv, UNCHANGED <<args, pc, locals, player>>,
         clock' \in 0 .. MaxClock, clock <= clock'
  PROVE  Inv'
<1>1. TypeOK'
  BY MaxClockAssumption DEF Inv, TypeOK, args, locals, player
<1>2. /\ Begun' /\ ItemsResolved' /\ ShownInOrder'
  BY DEF Inv, Begun, Cleared, ItemsResolved, IsResolved, ShownInOrder, args, locals, player
<1>3. MaximumSoFar'
  BY DEF Inv, MaximumSoFar, IsMaximum, PastBefore, args, locals
<1>4. SelectedSoFar' /\ NextSoFar'
  BY DEF Inv, SelectedSoFar, InOrder, Members, NextSoFar, IsNextBefore, UpcomingBefore,
     args, locals
<1> QED BY <1>1, <1>2, <1>3, <1>4 DEF Inv

LEMMA CallInv ==
  ASSUME Inv, NEW q \in Playlists, NEW l \in Locations, Call(q, l)
  PROVE  Inv'
<1>1. q \in Seq(Value) /\ Len(q) \in Nat
  BY PlaylistsAssumption
<1>2. /\ k' \in 1 .. Len(p') + 1 /\ now' \in 0 .. clock'
      /\ maxInstant' \in Int /\ hasPast' \in BOOLEAN
      /\ items' \in Seq(Resolved) /\ result' \in Seq(Nat)
  <2>1. k' \in 1 .. Len(p') + 1 /\ now' \in 0 .. clock' /\ maxInstant' \in Int
    BY <1>1, MaxClockAssumption DEF Inv, TypeOK, Call
  <2>2. items' \in Seq(Resolved) /\ result' \in Seq(Nat)
    BY DEF Call
  <2>3. hasPast' \in BOOLEAN
    BY DEF Call
  <2> QED BY <2>1, <2>2, <2>3
<1>3. TypeOK'
  BY <1>2 DEF Inv, TypeOK, Call, player
<1>4. SelectedSoFar' /\ ShownInOrder'
  BY DEF Inv, Call, player, SelectedSoFar, InOrder, ShownInOrder
<1> QED
  BY <1>3, <1>4 DEF Inv, Call, Begun, Cleared, ItemsResolved, MaximumSoFar, NextSoFar

LEMMA CopyAllInv ==
  ASSUME Inv, CopyAll
  PROVE  Inv'
<1>1. /\ p \in Seq(Value) /\ loc \in Locations /\ now \in Int
      /\ Len(p) \in Nat /\ DOMAIN p = 1 .. Len(p)
  BY ArgsTyped DEF Inv
<1>2. /\ pc = "ComputeActiveSet" /\ pc' = "NextDisplayAt" /\ ~ HasDisplayAt(p)
      /\ result' = [n \in 1 .. Len(p) |-> n]
      /\ UNCHANGED <<clock, args, k, items, hasPast, maxInstant, next, player>>
      /\ k = 1 /\ next = None
  BY DEF CopyAll, Inv, Begun, Cleared
<1>3. result' \in Seq(Nat) /\ DOMAIN result' = 1 .. Len(p)
  BY <1>1, <1>2
<1>4. TypeOK'
  BY <1>2, <1>3 DEF Inv, TypeOK, args, player, Loops
<1>5. SelectedSoFar'
  <2>1. Members(result') = DOMAIN p
    BY <1>1, <1>2, <1>3 DEF Members
  <2>2. InOrder(result')
    BY <1>1, <1>2, <1>3 DEF InOrder
  <2> QED BY <1>2, <2>1, <2>2 DEF SelectedSoFar, ActiveSet, args, Members, InOrder
<1>6. NextSoFar'
  <2>1. Timed(p, loc) = {}
    BY <1>2 DEF Timed, HasDisplayAt
  <2> QED BY <1>2, <2>1 DEF NextSoFar, IsNextBefore, UpcomingBefore, args
<1> QED
  BY <1>2, <1>4, <1>5, <1>6 DEF Inv, Begun, ItemsResolved, MaximumSoFar, ShownInOrder, player

LEMMA ScheduleInv ==
  ASSUME Inv, Schedule
  PROVE  Inv'
BY DEF Inv, Schedule, args, locals, player, TypeOK, Loops, Begun, Cleared, ItemsResolved,
   MaximumSoFar, SelectedSoFar, InOrder, NextSoFar, ShownInOrder

LEMMA ResolveItemInv ==
  ASSUME Inv, ResolveItem
  PROVE  Inv'
<1> DEFINE timed == p[k].form # "absent" /\ IsValid(Parse(p[k], loc))
           r == [instant   |-> IF timed THEN Parse(p[k], loc).resolved ELSE 0,
                 isTimed   |-> timed,
                 evergreen |-> p[k].form = "absent"]
<1>1. /\ p \in Seq(Value) /\ loc \in Locations /\ now \in Int
      /\ Len(p) \in Nat /\ DOMAIN p = 1 .. Len(p)
  BY ArgsTyped DEF Inv
<1>2. /\ pc = "resolve" /\ pc' = pc /\ k \in 1 .. Len(p) /\ k' = k + 1
      /\ items' = Append(items, r)
      /\ UNCHANGED <<clock, args, hasPast, maxInstant, result, next, player>>
      /\ items \in Seq(Resolved) /\ Len(items) = k - 1
  BY <1>1 DEF ResolveItem, InLoop, Advance, Inv, ItemsResolved, TypeOK
<1>3. Parse(p[k], loc).resolved = InstantOf(p, loc, k) /\ InstantOf(p, loc, k) \in Int
  BY <1>1, <1>2, InstantType DEF InstantOf
<1>4. timed <=> k \in Timed(p, loc)
  BY <1>1, <1>2 DEF Timed
<1>5. r \in Resolved /\ IsResolved(r, k)
  <2> HIDE DEF timed
  <2>1. timed \in BOOLEAN
    BY DEF timed
  <2>2. /\ r.isTimed = timed /\ r.evergreen = (p[k].form = "absent")
        /\ timed => r.instant = InstantOf(p, loc, k)
        /\ r.instant \in Int
    BY <1>3
  <2>3. r \in Resolved
    BY <1>3, <2>1 DEF Resolved
  <2> HIDE DEF r
  <2> QED BY <1>4, <2>2, <2>3 DEF IsResolved
<1> HIDE DEF r, timed
<1>6. items' \in Seq(Resolved) /\ Len(items') = k
  BY <1>2, <1>5
<1>7. TypeOK'
  BY <1>1, <1>2, <1>6 DEF Inv, TypeOK, args, player
<1>8. ItemsResolved'
  <2>1. HasDisplayAt(p) /\ \A i \in DOMAIN items : IsResolved(items[i], i)
    BY <1>2 DEF Inv, ItemsResolved
  <2>2. \A i \in DOMAIN items' : IsResolved(items'[i], i)
    BY <1>2, <1>5, <2>1
  <2> QED BY <1>2, <1>6, <2>1, <2>2 DEF ItemsResolved, IsResolved, args
<1> QED
  BY <1>2, <1>7, <1>8 DEF Inv, Begun, MaximumSoFar, SelectedSoFar, InOrder, NextSoFar,
     ShownInOrder, player

LEMMA AllResolvedInv ==
  ASSUME Inv, AllResolved
  PROVE  Inv'
<1>1. /\ p \in Seq(Value) /\ loc \in Locations /\ now \in Int
      /\ Len(p) \in Nat /\ DOMAIN p = 1 .. Len(p)
  BY ArgsTyped DEF Inv
<1>2. /\ pc = "resolve" /\ pc' = "maximum" /\ k' = 1 /\ k = Len(p) + 1
      /\ UNCHANGED <<clock, args, items, hasPast, maxInstant, result, next, player>>
      /\ items \in Seq(Resolved) /\ Len(items) = k - 1
  BY <1>1 DEF AllResolved, Leave, Inv, ItemsResolved, TypeOK
<1>3. TypeOK'
  BY <1>1, <1>2 DEF Inv, TypeOK, args, player, Loops
<1>4. ItemsResolved'
  BY <1>2 DEF Inv, ItemsResolved, IsResolved, args
<1>5. MaximumSoFar'
  <2>1. PastBefore(1) = {}
    BY <1>1, PositionSets DEF PastBefore
  <2>2. ~ hasPast
    BY <1>2 DEF Inv, MaximumSoFar
  <2> QED BY <1>2, <2>1, <2>2 DEF MaximumSoFar, IsMaximum, PastBefore, args
<1> QED
  BY <1>2, <1>3, <1>4, <1>5 DEF Inv, Begun, SelectedSoFar, InOrder, NextSoFar,
     ShownInOrder, player

LEMMA MaximumItemInv ==
  ASSUME Inv, MaximumItem
  PROVE  Inv'
<1>1. /\ p \in Seq(Value) /\ loc \in Locations /\ now \in Int
      /\ Len(p) \in Nat /\ DOMAIN p = 1 .. Len(p)
  BY ArgsTyped DEF Inv
<1>2. /\ pc = "maximum" /\ pc' = pc /\ k \in 1 .. Len(p) /\ k' = k + 1
      /\ UNCHANGED <<clock, args, items, result, next, player>>
      /\ Len(items) = Len(p) /\ items \in Seq(Resolved)
      /\ IsResolved(items[k], k) /\ IsMaximum(k)
      /\ hasPast \in BOOLEAN /\ maxInstant \in Int
  BY <1>1 DEF MaximumItem, InLoop, Advance, Inv, ItemsResolved, MaximumSoFar, TypeOK
<1>3. /\ Reached(items[k]) <=> k \in Past(p, now, loc)
      /\ Reached(items[k]) => items[k].instant = InstantOf(p, loc, k)
  BY <1>2 DEF Reached, IsResolved, Past
<1>4. \/ /\ Reached(items[k]) /\ (~ hasPast \/ items[k].instant > maxInstant)
         /\ maxInstant' = items[k].instant /\ hasPast' = TRUE
      \/ /\ ~ (Reached(items[k]) /\ (~ hasPast \/ items[k].instant > maxInstant))
         /\ maxInstant' = maxInstant /\ hasPast' = hasPast
  BY DEF MaximumItem
<1>5. PastBefore(k + 1) = PastBefore(k) \cup (IF k \in Past(p, now, loc) THEN {k} ELSE {})
  BY <1>1, <1>2, PositionSets DEF PastBefore
<1>6. \A i \in PastBefore(k) \cup {k} : InstantOf(p, loc, i) \in Int
  BY <1>1, <1>2, PositionSets DEF PastBefore
<1>7. IsMaximum(k)
  BY <1>2
<1>8. /\ hasPast' <=> PastBefore(k + 1) # {}
      /\ hasPast' => /\ \E i \in PastBefore(k + 1) : maxInstant' = InstantOf(p, loc, i)
                     /\ \A i \in PastBefore(k + 1) : InstantOf(p, loc, i) <= maxInstant'
  <2>1. CASE /\ Reached(items[k]) /\ (~ hasPast \/ items[k].instant > maxInstant)
             /\ maxInstant' = items[k].instant /\ hasPast' = TRUE
    <3>1. PastBefore(k + 1) = PastBefore(k) \cup {k} /\ maxInstant' = InstantOf(p, loc, k)
      BY <1>3, <1>5, <2>1
    <3>2. \A i \in PastBefore(k) : InstantOf(p, loc, i) <= maxInstant'
      BY <1>2, <1>6, <1>7, <2>1, <3>1 DEF IsMaximum
    <3>3. InstantOf(p, loc, k) <= maxInstant'
      BY <1>6, <3>1
    <3> QED BY <2>1, <3>1, <3>2, <3>3
  <2>2. CASE /\ ~ Reached(items[k])
             /\ maxInstant' = maxInstant /\ hasPast' = hasPast
    BY <1>3, <1>5, <1>7, <2>2 DEF IsMaximum
  <2>3. CASE /\ Reached(items[k]) /\ hasPast /\ ~ (items[k].instant > maxInstant)
             /\ maxInstant' = maxInstant /\ hasPast' = hasPast
    <3>1. PastBefore(k + 1) = PastBefore(k) \cup {k}
      BY <1>3, <1>5, <2>3
    <3>2. InstantOf(p, loc, k) <= maxInstant
      BY <1>2, <1>3, <1>6, <2>3
    <3> QED BY <1>7, <2>3, <3>1, <3>2 DEF IsMaximum
  <2> QED BY <1>4, <2>1, <2>2, <2>3
<1>9. TypeOK'
  <2>1. maxInstant' \in Int /\ hasPast' \in BOOLEAN
    BY <1>2, <1>3, <1>4, <1>6
  <2> QED BY <1>1, <1>2, <2>1 DEF Inv, TypeOK, args, player
<1>10. MaximumSoFar'
  BY <1>2, <1>8 DEF MaximumSoFar, IsMaximum, PastBefore, args
<1> QED
  BY <1>2, <1>9, <1>10 DEF Inv, Begun, ItemsResolved, IsResolved, SelectedSoFar, InOrder,
     NextSoFar, ShownInOrder, args, player

LEMMA MaximumFoundInv ==
  ASSUME Inv, MaximumFound
  PROVE  Inv'
<1>1. /\ p \in Seq(Value) /\ loc \in Locations /\ now \in Int
      /\ Len(p) \in Nat /\ DOMAIN p = 1 .. Len(p)
  BY ArgsTyped DEF Inv
<1>2. /\ pc = "maximum" /\ pc' = "select" /\ k' = 1 /\ k = Len(p) + 1
      /\ UNCHANGED <<clock, args, items, hasPast, maxInstant, result, next, player>>
  BY <1>1 DEF MaximumFound, Leave, Inv, TypeOK
<1>3. TypeOK'
  BY <1>1, <1>2 DEF Inv, TypeOK, args, player, Loops
<1>4. MaximumSoFar'
  BY <1>2 DEF Inv, MaximumSoFar, IsMaximum, PastBefore, args
<1>5. SelectedSoFar'
  <2>1. result = <<>> /\ InOrder(result)
    BY <1>2 DEF Inv, SelectedSoFar
  <2>2. { i \in ActiveSet(p, now, loc) : i < 1 } = {}
    BY <1>1, PositionSets
  <2>3. Members(result) = {}
    BY <2>1 DEF Members
  <2> QED BY <1>2, <2>1, <2>2, <2>3 DEF SelectedSoFar, InOrder, Members, args
<1> QED
  BY <1>2, <1>3, <1>4, <1>5 DEF Inv, Begun, ItemsResolved, IsResolved, NextSoFar,
     ShownInOrder, args, player

\* Appending a position after all others keeps the order.
LEMMA AppendPosition ==
  ASSUME NEW s \in Seq(Nat), NEW x \in Nat, InOrder(s), \A m \in Members(s) : m < x
  PROVE  /\ Append(s, x) \in Seq(Nat)
         /\ Members(Append(s, x)) = Members(s) \cup {x}
         /\ InOrder(Append(s, x))
<1>1. /\ DOMAIN s = 1 .. Len(s) /\ Len(s) \in Nat
      /\ Append(s, x) \in Seq(Nat) /\ DOMAIN Append(s, x) = 1 .. Len(s) + 1
      /\ Append(s, x)[Len(s) + 1] = x
      /\ \A n \in 1 .. Len(s) : Append(s, x)[n] = s[n]
  OBVIOUS
<1>2. 1 .. Len(s) + 1 = (1 .. Len(s)) \cup {Len(s) + 1}
  BY <1>1
<1>3. Members(Append(s, x)) = Members(s) \cup {x}
  <2>1. ASSUME NEW y \in Members(Append(s, x)) PROVE y \in Members(s) \cup {x}
    BY <1>1, <1>2, <2>1 DEF Members
  <2>2. ASSUME NEW y \in Members(s) \cup {x} PROVE y \in Members(Append(s, x))
    BY <1>1, <1>2, <2>2 DEF Members
  <2> QED BY <2>1, <2>2
<1>4. InOrder(Append(s, x))
  BY <1>1, <1>2 DEF InOrder, Members
<1> QED BY <1>1, <1>3, <1>4

\* The test of the last loop picks the active set, once the maximum is known.
LEMMA SelectedIsActive ==
  ASSUME p \in Seq(Value), loc \in Locations, now \in Int, HasDisplayAt(p),
         IsMaximum(Len(p) + 1),
         NEW i \in DOMAIN p, NEW r, IsResolved(r, i)
  PROVE  Selected(r) <=> i \in ActiveSet(p, now, loc)
<1>1. /\ Len(p) \in Nat /\ DOMAIN p = 1 .. Len(p)
      /\ Past(p, now, loc) \subseteq Timed(p, loc) /\ Timed(p, loc) \subseteq DOMAIN p
      /\ \A j \in DOMAIN p : InstantOf(p, loc, j) \in Int
  BY PositionSets
<1>2. PastBefore(Len(p) + 1) = Past(p, now, loc)
  BY <1>1 DEF PastBefore
<1>3. i \in Timed(p, loc) => i \notin Evergreen(p)
  BY DEF Timed, Evergreen
<1>4. CASE i \in Timed(p, loc)
  <2>1. Selected(r) <=> hasPast /\ InstantOf(p, loc, i) = maxInstant
    BY <1>4 DEF Selected, IsResolved
  <2>2. i \in ActiveSet(p, now, loc) <=> i \in Cohort(p, now, loc)
    BY <1>3, <1>4 DEF ActiveSet
  <2>3. CASE hasPast
    <3>1. PICK g \in Past(p, now, loc) : maxInstant = InstantOf(p, loc, g)
      BY <1>2, <2>3 DEF IsMaximum
    <3>2. \A j \in Past(p, now, loc) : InstantOf(p, loc, j) <= maxInstant
      BY <1>2, <2>3 DEF IsMaximum
    <3>3. maxInstant \in Int /\ maxInstant <= now
      BY <1>1, <3>1 DEF Past
    <3>4. i \in Cohort(p, now, loc) <=> InstantOf(p, loc, i) = maxInstant
      <4>1. ASSUME i \in Cohort(p, now, loc)
            PROVE  InstantOf(p, loc, i) = maxInstant
        BY <1>1, <3>1, <3>2, <3>3, <4>1 DEF Cohort
      <4>2. ASSUME InstantOf(p, loc, i) = maxInstant
            PROVE  i \in Cohort(p, now, loc)
        BY <1>1, <1>4, <3>2, <3>3, <4>2 DEF Cohort, Past
      <4> QED BY <4>1, <4>2
    <3> QED BY <2>1, <2>2, <2>3, <3>4
  <2>4. CASE ~ hasPast
    BY <1>2, <2>1, <2>2, <2>4 DEF IsMaximum, Cohort
  <2> QED BY <2>3, <2>4
<1>5. CASE i \notin Timed(p, loc)
  <2>1. i \notin Cohort(p, now, loc)
    BY <1>1, <1>5 DEF Cohort
  <2>2. Selected(r) <=> p[i].form = "absent"
    BY <1>5 DEF Selected, IsResolved
  <2> QED BY <2>1, <2>2 DEF ActiveSet, Evergreen
<1> QED BY <1>4, <1>5

LEMMA SelectItemInv ==
  ASSUME Inv, SelectItem
  PROVE  Inv'
<1>1. /\ p \in Seq(Value) /\ loc \in Locations /\ now \in Int
      /\ Len(p) \in Nat /\ DOMAIN p = 1 .. Len(p)
  BY ArgsTyped DEF Inv
<1>2. /\ pc = "select" /\ pc' = pc /\ k \in 1 .. Len(p) /\ k' = k + 1
      /\ result' = IF Selected(items[k]) THEN Append(result, k) ELSE result
      /\ UNCHANGED <<clock, args, items, hasPast, maxInstant, next, player>>
      /\ Len(items) = Len(p) /\ items \in Seq(Resolved)
      /\ HasDisplayAt(p) /\ IsResolved(items[k], k) /\ IsMaximum(Len(p) + 1)
      /\ Members(result) = { i \in ActiveSet(p, now, loc) : i < k }
      /\ InOrder(result) /\ result \in Seq(Nat)
  BY <1>1 DEF SelectItem, InLoop, Advance, Inv, ItemsResolved, MaximumSoFar, SelectedSoFar, TypeOK
<1>3. Selected(items[k]) <=> k \in ActiveSet(p, now, loc)
  BY <1>1, <1>2, SelectedIsActive
<1>4. \A i \in ActiveSet(p, now, loc) : i \in 1 .. Len(p)
  BY <1>1, PositionSets
<1>5. /\ result' \in Seq(Nat) /\ InOrder(result')
      /\ Members(result') = { i \in ActiveSet(p, now, loc) : i < k + 1 }
  <2>1. CASE Selected(items[k])
    <3>1. /\ result' \in Seq(Nat) /\ InOrder(result')
          /\ Members(result') = Members(result) \cup {k}
      BY <1>2, <2>1, AppendPosition
    <3> QED BY <1>2, <1>3, <1>4, <2>1, <3>1
  <2>2. CASE ~ Selected(items[k])
    BY <1>2, <1>3, <1>4, <2>2
  <2> QED BY <2>1, <2>2
<1>6. TypeOK'
  BY <1>1, <1>2, <1>5 DEF Inv, TypeOK, args, player
<1>7. SelectedSoFar'
  BY <1>2, <1>5 DEF SelectedSoFar, Members, InOrder, args
<1>8. MaximumSoFar'
  BY <1>2 DEF Inv, MaximumSoFar, IsMaximum, PastBefore, args
<1> QED
  BY <1>2, <1>6, <1>7, <1>8 DEF Inv, Begun, ItemsResolved, IsResolved, NextSoFar,
     ShownInOrder, args, player

LEMMA AllSelectedInv ==
  ASSUME Inv, AllSelected
  PROVE  Inv'
<1>1. /\ p \in Seq(Value) /\ loc \in Locations /\ now \in Int
      /\ Len(p) \in Nat /\ DOMAIN p = 1 .. Len(p)
  BY ArgsTyped DEF Inv
<1>2. /\ pc = "select" /\ pc' = "NextDisplayAt" /\ k' = 1 /\ k = Len(p) + 1
      /\ UNCHANGED <<clock, args, items, hasPast, maxInstant, result, next, player>>
      /\ Members(result) = { i \in ActiveSet(p, now, loc) : i < k }
      /\ InOrder(result) /\ next = None
  <2>1. /\ pc = "select" /\ pc' = "NextDisplayAt" /\ k' = 1 /\ k = Len(p) + 1
        /\ UNCHANGED <<clock, args, items, hasPast, maxInstant, result, next, player>>
    BY <1>1 DEF AllSelected, Leave, Inv, TypeOK
  <2> QED BY <2>1 DEF Inv, SelectedSoFar, NextSoFar
<1>3. TypeOK'
  BY <1>1, <1>2 DEF Inv, TypeOK, args, player, Loops
<1>4. SelectedSoFar'
  <2>1. Members(result) = ActiveSet(p, now, loc)
    BY <1>1, <1>2, PositionSets
  <2> QED BY <1>2, <2>1 DEF SelectedSoFar, Members, InOrder, args
<1>5. NextSoFar'
  <2>1. UpcomingBefore(1) = {}
    BY <1>1, PositionSets DEF UpcomingBefore
  <2> QED BY <1>2, <2>1 DEF NextSoFar, IsNextBefore, UpcomingBefore, args
<1> QED
  BY <1>2, <1>3, <1>4, <1>5 DEF Inv, Begun, ItemsResolved, MaximumSoFar,
     ShownInOrder, args, player

LEMMA NextItemInv ==
  ASSUME Inv, NextItem
  PROVE  Inv'
<1> DEFINE candidate == k \in Timed(p, loc) /\ InstantOf(p, loc, k) > now
<1>1. /\ p \in Seq(Value) /\ loc \in Locations /\ now \in Int
      /\ Len(p) \in Nat /\ DOMAIN p = 1 .. Len(p)
  BY ArgsTyped DEF Inv
<1>2. /\ pc = "NextDisplayAt" /\ pc' = pc /\ k \in 1 .. Len(p) /\ k' = k + 1
      /\ UNCHANGED <<clock, args, items, hasPast, maxInstant, result, player>>
      /\ IsNextBefore(k) /\ next \in Int \cup {None}
  BY <1>1 DEF NextItem, InLoop, Advance, Inv, NextSoFar, TypeOK
<1>3. next' = IF candidate /\ (next = None \/ InstantOf(p, loc, k) < next)
                THEN InstantOf(p, loc, k) ELSE next
  BY <1>1, <1>2 DEF NextItem, Timed, InstantOf
<1>4. \A i \in Timed(p, loc) : i \in Nat /\ InstantOf(p, loc, i) \in Int
  BY <1>1, PositionSets
<1>5. UpcomingBefore(k) \subseteq Int
  BY <1>4 DEF UpcomingBefore
<1>6. UpcomingBefore(k + 1) =
        UpcomingBefore(k) \cup (IF candidate THEN {InstantOf(p, loc, k)} ELSE {})
  <2>1. \A i \in Timed(p, loc) : i < k + 1 <=> i < k \/ i = k
    BY <1>2, <1>4
  <2> QED BY <1>2, <2>1 DEF UpcomingBefore
<1>7. /\ IF UpcomingBefore(k + 1) = {}
           THEN next' = None
           ELSE /\ next' \in UpcomingBefore(k + 1)
                /\ \A t \in UpcomingBefore(k + 1) : next' <= t
      /\ next' \in Int \cup {None}
  <2>1. CASE ~ candidate
    BY <1>2, <1>3, <1>6, <2>1 DEF IsNextBefore
  <2>2. CASE candidate
    <3>1. /\ InstantOf(p, loc, k) \in Int
          /\ UpcomingBefore(k + 1) = UpcomingBefore(k) \cup {InstantOf(p, loc, k)}
      BY <1>4, <1>6, <2>2
    <3> HIDE DEF candidate
    <3>2. CASE UpcomingBefore(k) = {}
      BY <1>2, <1>3, <2>2, <3>1, <3>2 DEF IsNextBefore
    <3>3. CASE UpcomingBefore(k) # {}
      <4>1. next \in Int /\ next # None /\ next \in UpcomingBefore(k)
            /\ \A t \in UpcomingBefore(k) : next <= t
        BY <1>2, <1>5, <3>3, NoneNotInstant DEF IsNextBefore
      <4>2. CASE InstantOf(p, loc, k) < next
        BY <1>3, <1>5, <2>2, <3>1, <4>1, <4>2
      <4>3. CASE ~ (InstantOf(p, loc, k) < next)
        BY <1>3, <1>5, <2>2, <3>1, <4>1, <4>3
      <4> QED BY <4>2, <4>3
    <3> QED BY <3>2, <3>3
  <2> QED BY <2>1, <2>2
<1>8. TypeOK'
  BY <1>1, <1>2, <1>7 DEF Inv, TypeOK, args, player
<1>9. NextSoFar'
  BY <1>2, <1>7 DEF NextSoFar, IsNextBefore, UpcomingBefore, args
<1> QED
  BY <1>2, <1>8, <1>9 DEF Inv, Begun, ItemsResolved, MaximumSoFar, SelectedSoFar, InOrder,
     Members, ShownInOrder, args, player

\* What the two calls return is what the contract asks for.
LEMMA ShowComputed ==
  ASSUME Inv, Show
  PROVE  /\ Members(result) = ActiveSet(p, now, loc)
         /\ next \in Upcoming(p, now, loc) \cup {None}
         /\ IsNext(next, p, now, loc)
<1>1. /\ p \in Seq(Value) /\ loc \in Locations /\ now \in Int
      /\ Len(p) \in Nat /\ DOMAIN p = 1 .. Len(p)
  BY ArgsTyped DEF Inv
<1>2. /\ pc = "NextDisplayAt" /\ (k > Len(p) \/ ~ HasDisplayAt(p))
      /\ Members(result) = ActiveSet(p, now, loc)
      /\ IsNextBefore(k) /\ k \in 1 .. Len(p) + 1
  BY DEF Show, Inv, SelectedSoFar, NextSoFar, TypeOK
<1>3. UpcomingBefore(k) = Upcoming(p, now, loc)
  <2>1. CASE k > Len(p)
    <3>1. \A i \in Timed(p, loc) : i < k
      BY <1>1, <1>2, <2>1, PositionSets
    <3> QED BY <3>1 DEF UpcomingBefore, Upcoming
  <2>2. CASE ~ HasDisplayAt(p)
    <3>1. Timed(p, loc) = {}
      BY <2>2 DEF Timed, HasDisplayAt
    <3> QED BY <3>1 DEF UpcomingBefore, Upcoming
  <2> QED BY <1>2, <2>1, <2>2
<1> QED BY <1>2, <1>3 DEF IsNextBefore, IsNext

LEMMA ShowInv ==
  ASSUME Inv, Show
  PROVE  Inv'
<1>1. TypeOK'
  BY DEF Inv, Show, TypeOK, args, locals, Loops
<1>2. ShownInOrder'
  BY DEF Inv, Show, SelectedSoFar, InOrder, ShownInOrder
<1> QED
  BY <1>1, <1>2 DEF Inv, Show, Begun, ItemsResolved, MaximumSoFar, SelectedSoFar, InOrder,
     NextSoFar, args, locals

LEMMA StepInv == Inv /\ [Next]_vars => Inv'
<1> SUFFICES ASSUME Inv, [Next]_vars
             PROVE  Inv'
  OBVIOUS
<1>1. clock \in 0 .. MaxClock /\ p \in Playlists /\ loc \in Locations
  BY DEF Inv, TypeOK
<1>2. CASE Tick
  BY <1>1, <1>2, ClockInv, MaxClockAssumption DEF Tick
<1>3. CASE WakeUp
  BY <1>1, <1>3, CallInv DEF WakeUp
<1>4. CASE Replace
  BY <1>4, CallInv, PlaylistsAssumption DEF Replace
<1>5. CASE Compute
  BY <1>5, CopyAllInv, ScheduleInv, ResolveItemInv, AllResolvedInv, MaximumItemInv,
     MaximumFoundInv, SelectItemInv, AllSelectedInv, NextItemInv, ShowInv DEF Compute
<1>6. CASE UNCHANGED vars
  BY <1>1, <1>6, ClockInv, MaxClockAssumption DEF vars
<1> QED BY <1>2, <1>3, <1>4, <1>5, <1>6 DEF Next

LEMMA Invariance == Spec => []Inv
BY InitInv, StepInv, PTL DEF Spec

(***************************************************************************)
(* Types of every variable; no loop reads a value that the loop before it  *)
(* did not resolve.                                                        *)
(***************************************************************************)
THEOREM TypeCorrect == Spec => []TypeOK
<1>1. Inv => TypeOK
  BY DEF Inv
<1> QED BY <1>1, Invariance, PTL

(***************************************************************************)
(* The active set is shown in the order of the playlist, each item once.   *)
(***************************************************************************)
THEOREM OrderPreserved == Spec => []ShownInOrder
<1>1. Inv => ShownInOrder
  BY DEF Inv
<1> QED BY <1>1, Invariance, PTL

\* What the player shows and waits for belongs to the instant it read.
Computed ==
  pc = "idle" => /\ Members(shown) = ActiveSet(p, now, loc)
                 /\ wake \in Upcoming(p, now, loc) \cup {None}
                 /\ IsNext(wake, p, now, loc)

LEMMA StepComputed == Inv /\ Computed /\ [Next]_vars => Computed'
<1> SUFFICES ASSUME Inv, Computed, [Next]_vars
             PROVE  Computed'
  OBVIOUS
<1>1. CASE Show
  BY <1>1, ShowComputed DEF Show, args, Computed, Members
<1>2. CASE Tick \/ UNCHANGED vars
  BY <1>2 DEF Tick, vars, args, player, Computed, Members
<1>3. CASE WakeUp \/ Replace
  BY <1>3 DEF WakeUp, Replace, Call, Computed
<1>4. CASE CopyAll \/ Schedule \/ ResolveItem \/ AllResolved \/ MaximumItem
           \/ MaximumFound \/ SelectItem \/ AllSelected \/ NextItem
  <2>1. pc' # "idle"
    BY <1>4 DEF CopyAll, Schedule, ResolveItem, AllResolved, MaximumItem, MaximumFound,
       SelectItem, AllSelected, NextItem, InLoop, Leave, Advance
  <2> QED BY <2>1 DEF Computed
<1> QED BY <1>1, <1>2, <1>3, <1>4 DEF Next, Compute

LEMMA ComputedInvariance == Spec => [](Inv /\ Computed)
<1>1. Init => Computed
  BY DEF Init, Computed
<1> QED BY <1>1, InitInv, StepInv, StepComputed, PTL DEF Spec

(***************************************************************************)
(* NextDisplayAt misses no change of ComputeActiveSet: until the timer     *)
(* goes off, the set computed for an earlier instant is still the right    *)
(* one.                                                                    *)
(***************************************************************************)
THEOREM ShownIsCurrent == Spec => []ShownUntilWake
<1>1. Inv /\ Computed => ShownUntilWake
  <2> SUFFICES ASSUME Inv, Computed, pc = "idle", ~ Due
               PROVE  OnDisplay = ActiveSet(p, clock, loc)
    BY DEF ShownUntilWake
  <2>1. /\ p \in Seq(Value) /\ loc \in Locations
        /\ clock \in Int /\ now \in Int /\ now <= clock
    BY ArgsTyped, MaxClockAssumption DEF Inv, TypeOK
  <2>2. OnDisplay = ActiveSet(p, now, loc) /\ IsNext(wake, p, now, loc)
    BY DEF Computed, Members, OnDisplay
  <2>3. \A u \in Upcoming(p, now, loc) : clock < u
    <3>1. Upcoming(p, now, loc) \subseteq Int
      BY <2>1, UpcomingType
    <3>2. ASSUME NEW u \in Upcoming(p, now, loc)
          PROVE  clock < u
      <4>1. wake \in Upcoming(p, now, loc) /\ wake <= u
        BY <2>2 DEF IsNext
      <4>2. wake \in Int /\ u \in Int /\ wake # None
        BY <3>1, <4>1, NoneNotInstant
      <4> QED BY <2>1, <4>1, <4>2 DEF Due
    <3> QED BY <3>2
  <2> QED BY <2>1, <2>2, <2>3, SteadyUntilNext
<1> QED BY <1>1, ComputedInvariance, PTL

(***************************************************************************)
(* NextDisplayAt wakes no player for nothing: from the instant of the      *)
(* timer on, the set on display is not the active set any more.            *)
(***************************************************************************)
THEOREM WakeIsNeeded == Spec => []WakeMeansChange
<1>1. Inv /\ Computed => WakeMeansChange
  <2> SUFFICES ASSUME Inv, Computed, pc = "idle", Due
               PROVE  OnDisplay # ActiveSet(p, clock, loc)
    BY DEF WakeMeansChange
  <2>1. /\ p \in Seq(Value) /\ loc \in Locations
        /\ clock \in Int /\ now \in Int
    BY ArgsTyped DEF Inv
  <2>2. wake \in Upcoming(p, now, loc) /\ OnDisplay = ActiveSet(p, now, loc)
    BY DEF Computed, Due, Members, OnDisplay
  <2>3. wake <= clock
    BY <2>1, <2>2, UpcomingType DEF Due
  <2> QED BY <2>1, <2>2, <2>3, ChangeAtNext
<1> QED BY <1>1, ComputedInvariance, PTL

\* The contract is stated with the same operators.
LEMMA SameContract ==
  ASSUME NEW q, NEW t, NEW l, NEW w
  PROVE  /\ Contract!ActiveSet(q, t, l) = ActiveSet(q, t, l)
         /\ Contract!Upcoming(q, t, l) = Upcoming(q, t, l)
         /\ Contract!IsNext(w, q, t, l) <=> IsNext(w, q, t, l)
<1>1. \A v : Contract!Parse(v, l) = Parse(v, l)
  BY DEF Contract!Parse, Parse, Contract!Location, Location, Contract!UTC, UTC,
     Contract!MeaningOf, MeaningOf, Contract!InGap, InGap, Contract!Displaying, Displaying,
     Contract!WallAt, WallAt, Contract!OffsetAt, OffsetAt
<1>2. /\ Contract!Timed(q, l) = Timed(q, l)
      /\ \A i : Contract!InstantOf(q, l, i) = InstantOf(q, l, i)
  BY <1>1 DEF Contract!Timed, Timed, Contract!InstantOf, InstantOf, Contract!IsValid, IsValid
<1>3. Contract!Past(q, t, l) = Past(q, t, l)
  BY <1>2 DEF Contract!Past, Past
<1>4. Contract!Cohort(q, t, l) = Cohort(q, t, l)
  BY <1>2, <1>3 DEF Contract!Cohort, Cohort
<1>5. Contract!ActiveSet(q, t, l) = ActiveSet(q, t, l)
  BY <1>4 DEF Contract!ActiveSet, ActiveSet, Contract!HasDisplayAt, HasDisplayAt,
     Contract!Evergreen, Evergreen
<1>6. Contract!Upcoming(q, t, l) = Upcoming(q, t, l)
  BY <1>2 DEF Contract!Upcoming, Upcoming
<1> QED BY <1>5, <1>6 DEF Contract!IsNext, IsNext

(***************************************************************************)
(* The three loops of ComputeActiveSet and the loop of NextDisplayAt       *)
(* implement the one-step contract: each step of a loop is a stutter of it *)
(* and taking their results is the step that computes.                     *)
(***************************************************************************)
THEOREM Refinement == Spec => ImplementsContract
<1>1. Init => Contract!Init
  BY DEF Init, Cleared, OnDisplay, Contract!Init
<1>2. Inv /\ [Next]_vars => [Contract!Next]_(Contract!vars)
  <2> SUFFICES ASSUME Inv, [Next]_vars
               PROVE  Contract!Next \/ UNCHANGED Contract!vars
    OBVIOUS
  <2>1. CASE Tick
    BY <2>1 DEF Tick, args, player, OnDisplay, Contract!Next, Contract!Tick
  <2>2. ASSUME NEW q, NEW l, Call(q, l)
        PROVE  Contract!Begin(q, l)
    BY <2>2 DEF Call, player, OnDisplay, Contract!Begin
  <2>3. CASE WakeUp
    BY <2>2, <2>3 DEF WakeUp, Due, Contract!Next, Contract!WakeUp, Contract!Due
  <2>4. CASE Replace
    BY <2>2, <2>4 DEF Replace, Contract!Next, Contract!Replace
  <2>5. CASE Show
    <3>1. /\ Members(shown') = ActiveSet(p, now, loc)
          /\ wake' \in Upcoming(p, now, loc) \cup {None} /\ IsNext(wake', p, now, loc)
      BY <2>5, ShowComputed DEF Show
    <3>2. /\ Contract!ActiveSet(p, now, loc) = ActiveSet(p, now, loc)
          /\ Contract!Upcoming(p, now, loc) = Upcoming(p, now, loc)
          /\ Contract!IsNext(wake', p, now, loc) <=> IsNext(wake', p, now, loc)
      BY SameContract
    <3> QED
      BY <2>5, <3>1, <3>2 DEF Show, args, Members, OnDisplay, Contract!Next, Contract!Finish
  <2>6. CASE CopyAll \/ Schedule \/ ResolveItem \/ AllResolved \/ MaximumItem
             \/ MaximumFound \/ SelectItem \/ AllSelected \/ NextItem
    <3>1. UNCHANGED <<clock, args, player>> /\ pc # "idle" /\ pc' # "idle"
      BY <2>6 DEF CopyAll, Schedule, ResolveItem, AllResolved, MaximumItem, MaximumFound,
         SelectItem, AllSelected, NextItem, InLoop, Leave, Advance
    <3> QED BY <3>1 DEF args, player, OnDisplay, Contract!vars
  <2>7. CASE UNCHANGED vars
    BY <2>7 DEF vars, args, player, OnDisplay, Contract!vars
  <2> QED BY <2>1, <2>3, <2>4, <2>5, <2>6, <2>7 DEF Next, Compute
<1> QED
  BY <1>1, <1>2, Invariance, PTL DEF Spec, ImplementsContract, Contract!Spec
=============================================================================
