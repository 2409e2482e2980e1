------------------------------ MODULE Displays ------------------------------
(***************************************************************************)
(* Display preferences and the ways in which one set of them is laid over  *)
(* another: by a decoder that reuses the struct, by an overlay of item     *)
(* settings and by a manifest.                                             *)
(*                                                                         *)
(* A button of the mouse block is FALSE or Unset as the document has it.   *)
(* The code keeps a bool, so its operators may only ask whether it is TRUE.*)
(***************************************************************************)
EXTENDS Integers

CONSTANTS
  Setting, Value,     \* scaling, margin, background, autoplay, loop, imageRendering
  Button,             \* of MousePrefs
  Keys,               \* lists of keys, of InteractionPrefs
  NoKeys,             \* the empty list
  OverrideKey,        \* keys of userOverrides
  Unset,              \* the document does not have the member
  Malformed           \* JSON that does not decode to the Go type

Optional(S)  == S \cup {Unset}
MousePrefs   == [Button -> Optional(BOOLEAN)]
InteractionPrefs == [keyboard : Optional(Keys), mouse : Optional(MousePrefs)]
DisplayPrefs ==
  [plain : [Setting -> Optional(Value)], interaction : Optional(InteractionPrefs),
   userOverrides : [OverrideKey -> Optional(BOOLEAN)]]

ASSUME DisplayAssumption ==
  /\ Unset \notin Value /\ Unset \notin BOOLEAN /\ Unset \notin Keys /\ NoKeys \in Keys
  /\ Unset \notin MousePrefs \cup InteractionPrefs
  /\ Malformed # Unset /\ Malformed \notin InteractionPrefs

NoOverrides   == [k \in OverrideKey |-> Unset]
NoButtons     == [b \in Button |-> Unset]
NoInteraction == [keyboard |-> Unset, mouse |-> Unset]
EmptyDisplay  == [plain |-> [s \in Setting |-> Unset], interaction |-> Unset, userOverrides |-> NoOverrides]

\* A manifest's controls have no userOverrides and keep interaction as raw JSON.
DisplayControls ==
  [plain : [Setting -> Optional(Value)], interaction : Optional(InteractionPrefs) \cup {Malformed},
   userOverrides : {NoOverrides}]

IsOn(mouse, b) == mouse # Unset /\ mouse[b] = TRUE
Else(x, default) == IF x = Unset THEN default ELSE x
Later(low, high) == IF high = Unset THEN low ELSE high
LaterOf(S, low, high) == [x \in S |-> Later(low[x], high[x])]

(***************************************************************************)
(* encoding/json, decoding into a struct that holds values already: the    *)
(* members of the document are written, pointers and maps are reused.      *)
(***************************************************************************)
DecodeInto(cur, doc) ==
  [plain |-> LaterOf(Setting, cur.plain, doc.plain),
   interaction |->
     IF doc.interaction = Unset THEN cur.interaction
     ELSE LET held == Else(cur.interaction, NoInteraction) IN
          [keyboard |-> Later(held.keyboard, doc.interaction.keyboard),
           mouse |-> IF doc.interaction.mouse = Unset THEN held.mouse
                     ELSE LaterOf(Button, Else(held.mouse, NoButtons), doc.interaction.mouse)],
   userOverrides |-> LaterOf(OverrideKey, cur.userOverrides, doc.userOverrides)]

(***************************************************************************)
(* merge.go.                                                               *)
(***************************************************************************)
Typed(low, high) == IF high \in {Unset, NoKeys} THEN low ELSE high

SwitchOn(low, high) == [b \in Button |-> IF high[b] = TRUE THEN TRUE ELSE low[b]]

OverlayDisplay(dst, src) ==
  [plain |-> LaterOf(Setting, dst.plain, src.plain),
   interaction |->
     IF src.interaction = Unset THEN dst.interaction
     ELSE LET held == Else(dst.interaction, NoInteraction) IN
          [keyboard |-> Typed(held.keyboard, src.interaction.keyboard),
           mouse |-> IF src.interaction.mouse = Unset THEN held.mouse
                     ELSE SwitchOn(Else(held.mouse, NoButtons), src.interaction.mouse)],
   userOverrides |-> LaterOf(OverrideKey, dst.userOverrides, src.userOverrides)]

\* A manifest's mouse block replaces the one below; an interaction that does not decode
\* leaves an empty one behind.
ApplyDisplayJSON(dst, src) ==
  [plain |-> LaterOf(Setting, dst.plain, src.plain),
   interaction |->
     IF src.interaction = Unset THEN dst.interaction
     ELSE LET held == Else(dst.interaction, NoInteraction)
              ip   == IF src.interaction = Malformed THEN NoInteraction ELSE src.interaction IN
          [keyboard |-> Typed(held.keyboard, ip.keyboard), mouse |-> Else(ip.mouse, held.mouse)],
   userOverrides |-> dst.userOverrides]

IsEmptyDisplay(d) ==
  (\A s \in Setting : d.plain[s] = Unset) /\ d.interaction = Unset /\ d.userOverrides = NoOverrides
=============================================================================
