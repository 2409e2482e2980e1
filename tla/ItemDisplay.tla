---------------------------- MODULE ItemDisplay ----------------------------
(***************************************************************************)
(* The way of an item from its document to the player: decoded, then given *)
(* to DisplayForItem with the defaults of a playlist, which all its items  *)
(* share, and the manifest that was fetched for it, if any.                *)
(***************************************************************************)
EXTENDS ItemDecoding

CONSTANTS
  Defaults,           \* Defaults.Display of the playlists
  Fetched,            \* manifests
  Failure             \* what a call returns with an error

ASSUME LayerAssumption ==
  /\ Defaults \subseteq DisplayPrefs \cup {Nil} /\ Fetched \subseteq DisplayControls \cup {Nil}
  /\ Nil \notin DisplayPrefs \cup DisplayControls /\ Null \notin DisplayControls
  /\ Malformed \notin DisplayPrefs \cup DisplayControls
  /\ Failure \notin DisplayPrefs \cup DisplayControls \cup {Nil}

VARIABLES
  defaults, ref,      \* the arguments of the call
  base,               \* the preferences that are built
  alias,              \* the blocks of base that are memory of the defaults
  result

display == <<defaults, ref, base, alias, result>>
vars    == <<decoding, display>>

Block == {"interaction", "mouse", "userOverrides"}

\* Variant: the mouse block is reached through the copied interaction.
ClonedBlocks_NotMouse == {"interaction", "userOverrides"}

\* The blocks that cloneDisplay copies.
ClonedBlocks == {"interaction", "mouse", "userOverrides"}

Blocks(d) ==
  {b \in Block :
     CASE b = "interaction"   -> d.interaction # Unset
       [] b = "mouse"         -> d.interaction # Unset /\ d.interaction.mouse # Unset
       [] b = "userOverrides" -> d.userOverrides # NoOverrides}

Init ==
  /\ DecodingInit
  /\ defaults = Nil /\ ref = Nil /\ base = EmptyDisplay /\ alias = {} /\ result = Nil

\* A call of DisplayForItem that has returned leaves nothing.
Forget == defaults' = Nil /\ ref' = Nil /\ base' = EmptyDisplay /\ alias' = {} /\ result' = Nil

ParseInlineManifest(item) ==
  CASE item["inlineManifest"] \in {Nil, Null} -> Nil
    [] item["inlineManifest"] = Malformed     -> Failure
    [] OTHER                                  -> item["inlineManifest"]

ManifestForItem(manifest, item) == IF manifest # Nil THEN manifest ELSE ParseInlineManifest(item)

\* What the blocks of base hold that are the defaults' memory, the defaults hold.
WrittenThrough(blocks, new) ==
  IF blocks = {} THEN defaults
  ELSE [defaults EXCEPT
          !.interaction =
             IF "interaction" \in blocks THEN new.interaction
             ELSE IF "mouse" \in blocks THEN [@ EXCEPT !.mouse = new.interaction.mouse]
             ELSE @,
          !.userOverrides = IF "userOverrides" \in blocks THEN new.userOverrides ELSE @]

\* An overlay writes into the blocks of base; a manifest's mouse block takes the place of
\* the one in base.
Overlay(src) ==
  LET new == OverlayDisplay(base, src) IN
  base' = new /\ defaults' = WrittenThrough(alias, new) /\ UNCHANGED alias

ApplyManifestDisplay(m) ==
  IF m = Nil THEN UNCHANGED <<base, alias, defaults>>
  ELSE LET new    == ApplyDisplayJSON(base, m)
           blocks == IF m.interaction \notin {Unset, Malformed} /\ m.interaction.mouse # Unset
                     THEN alias \ {"mouse"} ELSE alias
       IN  base' = new /\ alias' = blocks /\ defaults' = WrittenThrough(blocks, new)

(***************************************************************************)
(* DisplayForItem, layer by layer.                                         *)
(***************************************************************************)
DisplayForItem(def, manifest) ==
  /\ pc \in Idle
  /\ pc' = "inline" /\ defaults' = def /\ ref' = manifest /\ result' = Nil
  /\ base'  = IF def = Nil THEN EmptyDisplay ELSE def
  /\ alias' = IF def = Nil THEN {} ELSE Blocks(def) \ ClonedBlocks
  /\ doc' = <<>> /\ at' = 1 /\ failed' = FALSE /\ before' = Zero
  /\ UNCHANGED <<it, kept, shared, shadow, fresh, decodes>>

ItemUnchanged == UNCHANGED <<it, kept, shared, doc, at, shadow, fresh, failed, before, decodes>>

Fail == pc' = "shown" /\ result' = Failure /\ UNCHANGED <<base, alias, defaults>>

InlineManifest ==
  /\ pc = "inline"
  /\ LET inline == ParseInlineManifest(it) IN
     IF inline = Failure /\ ref = Nil
     THEN Fail
     ELSE /\ pc' = "ref" /\ UNCHANGED result
          /\ ApplyManifestDisplay(IF inline = Failure THEN Nil ELSE inline)
  /\ ItemUnchanged /\ UNCHANGED ref

\* Variant: the manifest that was fetched is applied only if there is no inline one.
RefManifest_Fallback ==
  /\ pc = "ref"
  /\ pc' = "override"
  /\ ApplyManifestDisplay(IF it["inlineManifest"] = Nil THEN ref ELSE Nil)
  /\ ItemUnchanged /\ UNCHANGED <<ref, result>>

RefManifest ==
  /\ pc = "ref"
  /\ pc' = "override"
  /\ ApplyManifestDisplay(ref)
  /\ ItemUnchanged /\ UNCHANGED <<ref, result>>

ItemOverride ==
  /\ pc = "override"
  /\ IF it["override"] = Malformed
     THEN Fail
     ELSE /\ pc' = "item" /\ UNCHANGED result
          /\ IF it["override"] \in {Nil, Null} THEN UNCHANGED <<base, alias, defaults>>
             ELSE Overlay(it["override"])
  /\ ItemUnchanged /\ UNCHANGED ref

ItemSettings ==
  /\ pc = "item"
  /\ pc' = "result"
  /\ IF it["display"] = Nil THEN UNCHANGED <<base, alias, defaults>> ELSE Overlay(it["display"])
  /\ ItemUnchanged /\ UNCHANGED <<ref, result>>

ReturnDisplay ==
  /\ pc = "result"
  /\ pc' = "shown" /\ result' = IF IsEmptyDisplay(base) THEN Nil ELSE base
  /\ ItemUnchanged /\ UNCHANGED <<ref, base, alias, defaults>>

Next ==
  \/ DecodingNext /\ Forget
  \/ \E def \in Defaults, manifest \in Fetched : DisplayForItem(def, manifest)
  \/ InlineManifest \/ RefManifest \/ ItemOverride \/ ItemSettings \/ ReturnDisplay

Spec == Init /\ [][Next]_vars
-----------------------------------------------------------------------------
TypeOK ==
  /\ \A i \in {it, kept, shadow, before} : DOMAIN i = Field /\ \A f \in Field : i[f] \in Held[f]
  /\ \A f \in shared : kept[f] # Nil /\ (f \notin fresh => it[f] # Nil)
  /\ shared \subseteq InMemory /\ fresh \subseteq InMemory /\ failed \in BOOLEAN
  /\ pc \in Idle \cup {"members", "inline", "ref", "override", "item", "result"}
  /\ at \in Nat /\ decodes \in 0 .. MaxDecodes
  /\ defaults \in DisplayPrefs \cup {Nil} /\ ref \in DisplayControls \cup {Nil}
  /\ base \in DisplayPrefs /\ result \in DisplayPrefs \cup {Nil, Failure}
  /\ alias \subseteq Block

(***************************************************************************)
(* A decoded item has the rating and the reasons that a validator of the   *)
(* document sees: those of the last member with exactly that key, or none  *)
(* if it has the wrong type; a document without the member, one that is    *)
(* refused and a member in another spelling leave what the variable held.  *)
(***************************************************************************)
RatingIsTheValidatedOne ==
  \A f \in Exact :
    /\ pc = "refused" => it[f] = before[f]
    /\ pc = "decoded" =>
         \/ /\ it[f] = before[f]
            /\ \A i \in DOMAIN doc : ~(doc[i].field = f /\ doc[i].exact)
         \/ \E i \in DOMAIN doc :
              /\ doc[i].field = f /\ doc[i].exact
              /\ \A j \in i + 1 .. Len(doc) : ~(doc[j].field = f /\ doc[j].exact)
              /\ it[f] = IF doc[i].value \in Label THEN doc[i].value ELSE Nil

Members(f) == {i \in DOMAIN doc : doc[i].field = f}
Last(f)    == doc[LastOf(Members(f))].value

\* What the display holds of a setting: its last mention since the last null.
DisplayMerged ==
  LET nulls == {i \in Members("display") : doc[i].value = Null} IN
  IF it["display"] = Nil
  THEN IF Members("display") = {} THEN before["display"] = Nil ELSE Last("display") = Null
  ELSE \A s \in Setting :
         LET told == {i \in Members("display") \ nulls :
                        doc[i].value.plain[s] # Unset /\ \A n \in nulls : n < i}
         IN  it["display"].plain[s] =
               IF told # {} THEN doc[LastOf(told)].value.plain[s]
               ELSE IF nulls # {} \/ before["display"] = Nil THEN Unset
               ELSE before["display"].plain[s]

(***************************************************************************)
(* A document that decodes changes the members it has and no other; one    *)
(* that does not leaves what the variable holds by value as it was, sets   *)
(* and clears no pointer, and leaves nothing in raw JSON but what was      *)
(* there, the new text or a mixture that does not decode.                  *)
(***************************************************************************)
DecodeMergesOrKeeps ==
  /\ pc = "decoded" =>
       /\ \A f \in {"title", "displayAt"} \cup Raw :
            LET S == IF f = "title" THEN {i \in Members(f) : doc[i].value # Null} ELSE Members(f) IN
            it[f] = IF S = {} THEN before[f]
                    ELSE IF f = "displayAt" /\ doc[LastOf(S)].value = Null THEN Nil
                    ELSE doc[LastOf(S)].value
       /\ DisplayMerged
  /\ pc = "refused" =>
       /\ \A f \in Field \ InMemory : it[f] = before[f]
       /\ \A f \in InMemory : it[f] = Nil <=> before[f] = Nil
       /\ \A f \in Raw : it[f] \in {before[f], Malformed} \/ \E i \in Members(f) : it[f] = doc[i].value

(***************************************************************************)
(* A copy of an item keeps what it has by value, and its rating, whatever  *)
(* is decoded into the variable later: a rating always gets new memory.    *)
(* Behind its other pointers, which stay, it changes only while a document *)
(* is decoded into a variable that has the field already; a variable that  *)
(* is new has nothing in common with the copy.                             *)
(***************************************************************************)
CopyKeepsItsValues ==
  [][Keep \/ \A f \in Field :
       \/ kept'[f] = kept[f]
       \/ /\ f \in InMemory /\ pc = "members" /\ before[f] # Nil
          /\ kept[f] # Nil /\ kept'[f] # Nil]_vars

\* Why an id is refused: its exponent is not an int, or it is not zero and is longer than the
\* bound, negative or fractional.
RefusedForCause(lit) ==
  LET e == Exponent(lit) IN
  \/ e \notin MinInt .. MaxInt
  \/ /\ Number(Digits(lit)) # 0
     /\ \/ MantissaLen(lit) + (IF e > 0 THEN e ELSE 0) > MaxSeriesIDDigits
        \/ lit.neg
        \/ e < 0 /\ Number(Digits(lit)) % Power(Len(lit.frac) - e) # 0
        \/ e >= 0 /\ (Number(Digits(lit)) * Power(e)) % Power(Len(lit.frac)) # 0

(***************************************************************************)
(* A series id is exactly the number that the document has, in digits      *)
(* without leading zeros; a number is refused only for a reason, and zero  *)
(* with any sign and point is an id.  What big.Rat writes for a literal is *)
(* bounded whatever its exponent is: at most MaxSeriesIDDigits digits over *)
(* at most twice as many, for the digits after the point and the exponent  *)
(* both count in the denominator.                                          *)
(***************************************************************************)
SeriesIDIsTheNumber ==
  /\ pc = "decoded" /\ Members("provenance") # {} /\ Last("provenance") # Null =>
       CASE Last("provenance").form = "string" -> it["provenance"] = Last("provenance").text
         [] Last("provenance").form = "number" ->
              /\ Denotes(it["provenance"], Last("provenance"))
              /\ it["provenance"][1] = 0 => Len(it["provenance"]) = 1
  /\ pc = "refused" =>
       \A i \in DOMAIN doc :
         (/\ doc[i].field = "provenance" /\ doc[i].value \in NumberLiteral
          /\ \A j \in DOMAIN doc \ {i} : doc[j].field # "provenance" /\ doc[j].value # Mismatch) =>
           RefusedForCause(doc[i].value)
  /\ (/\ More /\ Current.field = "provenance" /\ Current.value \in NumberLiteral
      /\ Expanded(Current.value) /\ SeriesIDWithinDigitBound(Current.value)) =>
       /\ NumeratorDigits(Current.value) <= MaxSeriesIDDigits
       /\ DenominatorDigits(Current.value) <= 2 * MaxSeriesIDDigits

(***************************************************************************)
(* The layers of an item's display, the lowest first.                      *)
(***************************************************************************)
Layers ==
  LET OrEmpty(x) == IF x \in {Nil, Null, Failure} THEN EmptyDisplay ELSE x IN
  <<OrEmpty(defaults), OrEmpty(ParseInlineManifest(it)), OrEmpty(ref), OrEmpty(it["override"]),
    OrEmpty(it["display"])>>

MouseOf(l)    == IF l.interaction \in {Unset, Malformed} THEN Unset ELSE l.interaction.mouse
KeyboardOf(l) == IF l.interaction \in {Unset, Malformed} THEN Unset ELSE l.interaction.keyboard
Says(l, b)    == IF MouseOf(l) = Unset THEN Unset ELSE MouseOf(l)[b]

\* v is what the highest layer says that says something.
LastWins(v, told) ==
  IF v = Unset THEN \A i \in 1 .. 5 : told[i] = Unset
  ELSE \E i \in 1 .. 5 : told[i] = v /\ \A j \in i + 1 .. 5 : told[j] = Unset

\* The known gap of merge.go: a layer above the manifests switches a button off, or the
\* mouse block of a manifest does not mention it.
OutsideGap(b) ==
  /\ \A i \in 4 .. 5 : Says(Layers[i], b) # FALSE
  /\ \A i \in 2 .. 3 : MouseOf(Layers[i]) # Unset => Says(Layers[i], b) # Unset

(***************************************************************************)
(* The display of an item has for each setting what the highest layer says *)
(* that has it: defaults, inline manifest, fetched manifest, override,     *)
(* item.  For interactions that holds outside the known gap; a button that *)
(* the item or its override switches on is on in any case.  A call fails   *)
(* if ManifestForItem does or if the override does not decode.             *)
(***************************************************************************)
LastWinsButForTheGap ==
  pc = "shown" =>
    IF result = Failure
    THEN ManifestForItem(ref, it) = Failure \/ it["override"] = Malformed
    ELSE LET shown == IF result = Nil THEN EmptyDisplay ELSE result IN
         /\ ManifestForItem(ref, it) # Failure /\ it["override"] # Malformed
         /\ \A s \in Setting : LastWins(shown.plain[s], [i \in 1 .. 5 |-> Layers[i].plain[s]])
         /\ \A k \in OverrideKey : LastWins(shown.userOverrides[k], [i \in 1 .. 5 |-> Layers[i].userOverrides[k]])
         /\ \A b \in Button :
              /\ OutsideGap(b) =>
                   (IsOn(MouseOf(shown), b) <=> LastWins(TRUE, [i \in 1 .. 5 |-> Says(Layers[i], b)]))
              /\ (\E i \in 4 .. 5 : Says(Layers[i], b) = TRUE) => IsOn(MouseOf(shown), b)
         /\ (\A i \in 2 .. 5 : KeyboardOf(Layers[i]) # NoKeys) =>
              LastWins(KeyboardOf(shown), [i \in 1 .. 5 |-> KeyboardOf(Layers[i])])
         /\ result = Nil <=> \A i \in 1 .. 5 : IsEmptyDisplay(Layers[i])

(***************************************************************************)
(* The defaults are memory that all items of the playlist share: making    *)
(* the display of one item never writes to them.                           *)
(***************************************************************************)
DefaultsUntouched == [][pc \notin Idle => UNCHANGED defaults]_vars
=============================================================================
