------------------------- MODULE MC_DisplaySchedule -------------------------
(***************************************************************************)
(* Ticks of one hour.  A player starts with any playlist of at most three  *)
(* items and receives a few others one after the other.                    *)
(***************************************************************************)
EXTENDS DisplaySchedule

V(form, wall, offset) == [form |-> form, wall |-> wall, offset |-> offset]

Absent    == V("absent", 0, 0)
Malformed == V("malformed", 0, 0)
Local2    == V("local", 2, 0)      \* in the gap of Spring
Local3    == V("local", 3, 0)
Utc4      == V("absolute", 4, 0)
Offset4   == V("absolute", 5, 1)   \* the same instant as Utc4

Values == {Absent, Malformed, Local2, Local3, Utc4, Offset4}

\* The reading 2 does not exist in Spring and occurs twice in Autumn.
Spring == [before |-> 0, after |-> 1, at |-> 2]
Autumn == [before |-> 0, after |-> -1, at |-> 3]
MCLocations == {NilLocation, Spring, Autumn}

MCPlaylists == UNION { [1 .. n -> Values] : n \in 0 .. 3 }

FewPlaylists ==
  { <<Absent, Absent>>, <<Local2, Absent, Local3>>, <<Malformed, Utc4>>,
    <<Local3, Offset4, Utc4>> }
=============================================================================
