--------------------------- MODULE MC_ItemDisplay ---------------------------
(***************************************************************************)
(* Binary numerals of up to four digits under a bound of three, with int   *)
(* five bits wide; documents that meet each other in every field.          *)
(***************************************************************************)
EXTENDS ItemDisplay

MCBase == 2
MCExponent == {-17, -16, -4, -3, -2, -1, 0, 1, 2, 3, 4, 15, 16, NoExponent}
MCInt  == {<<0>>, <<1>>, <<1, 0>>, <<1, 1>>, <<1, 0, 0>>, <<1, 0, 0, 0>>}
MCFrac == {<<>>, <<0>>, <<1>>, <<0, 0>>}

Numbers == [form : {"number"}, neg : BOOLEAN, int : MCInt, frac : MCFrac, exp : MCExponent]
Strings == [form : {"string"}, text : {<<0, 1>>, NotDigits}]

D(plain, interaction, overrides) ==
  [plain |-> [s \in Setting |-> plain], interaction |-> interaction,
   userOverrides |-> [k \in OverrideKey |-> overrides]]
Mouse(click, drag) ==
  [keyboard |-> Unset, mouse |-> [b \in Button |-> IF b = "click" THEN click ELSE drag]]
Keyboard(keys) == [keyboard |-> keys, mouse |-> Unset]

MCDefaults == {Nil, D("fit", Mouse(TRUE, FALSE), FALSE), D(Unset, Keyboard("arrows"), Unset)}
MCFetched  ==
  {Nil, EmptyDisplay, D("fill", Mouse(Unset, TRUE), Unset), D(Unset, Malformed, Unset),
   D(Unset, Keyboard("space"), Unset)}

M(f, v) == [field |-> f, exact |-> TRUE, value |-> v]
Variant(f, v) == [field |-> f, exact |-> FALSE, value |-> v]

MCDocument ==
  {NotObject, Null,
   <<>>,
   <<M("title", "a"), M("displayAt", "a"), M("contentRating", "mature")>>,
   <<M("title", Null), M("displayAt", Null), M("contentRating", Mismatch), M("contentReasons", "mature")>>,
   <<M("contentRating", "general"), Variant("contentRating", "mature")>>,
   <<M("displayAt", "b"), M("title", Mismatch), M("inlineManifest", D("fill", Unset, Unset))>>,
   <<M("override", D("fill", Mouse(FALSE, TRUE), TRUE)), M("display", D("fit", Unset, FALSE))>>,
   <<M("override", Malformed), M("displayAt", Mismatch)>>,
   <<M("override", Null), M("inlineManifest", Malformed), M("contentReasons", Null)>>,
   <<M("inlineManifest", D("fit", Mouse(TRUE, Unset), Unset)), M("display", D(Unset, Mouse(FALSE, TRUE), Unset))>>,
   <<M("inlineManifest", Null), M("display", Null), M("display", D("fill", Keyboard("none"), TRUE))>>,
   <<Variant("title", "b"), M("provenance", [form |-> "string", text |-> NotDigits])>>,
   <<M("provenance", [form |-> "string", text |-> <<0, 1>>]), M("override", D(Unset, Unset, FALSE))>>}

MCFirstDocument ==
  {<<M("provenance", id)>> : id \in Numbers \cup Strings \cup {Null, Mismatch}}
=============================================================================
