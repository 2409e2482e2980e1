---------------------------- MODULE ItemDecoding ----------------------------
(***************************************************************************)
(* A consumer decodes item documents, one after the other, into a variable *)
(* that may hold an earlier item, and keeps a copy of an item it likes.    *)
(* PlaylistItem.UnmarshalJSON seeds a shadow from the variable, so the two *)
(* share what the variable points to: a member that is decoded into        *)
(* existing memory is seen through the variable at once, and through the   *)
(* copy too, even if the decoder then returns an error.                    *)
(***************************************************************************)
EXTENDS Displays, SeriesIDs, FiniteSets

CONSTANTS
  Text,               \* of strings
  Blank,              \* the empty string
  Label,              \* of ratings, and lists of reasons
  Nil, Null, Mismatch,\* a nil pointer or slice; JSON null; JSON of another type
  NotObject,          \* a document that is JSON and no object
  Document,           \* documents decoded into the variable
  FirstDocument,      \* documents decoded into a fresh variable only
  MaxDecodes          \* bounds the calls

(***************************************************************************)
(* title stands for the fields kept by value, displayAt for those behind a *)
(* pointer to a scalar, and provenance for the series id of its contract.  *)
(***************************************************************************)
Exact   == {"contentRating", "contentReasons"}
Raw     == {"override", "inlineManifest"}
Pointer == {"displayAt", "display", "provenance"}
Field   == {"title"} \cup Exact \cup Raw \cup Pointer
InMemory == Raw \cup Pointer

Held == [f \in Field |->
  CASE f = "title"          -> Text
    [] f = "displayAt"      -> Text \cup {Nil}
    [] f = "display"        -> DisplayPrefs \cup {Nil}
    [] f = "provenance"       -> Numeral \cup {Nil}
    [] f = "override"       -> DisplayPrefs \cup {Nil, Null, Malformed}
    [] f = "inlineManifest" -> DisplayControls \cup {Nil, Null, Malformed}
    [] f \in Exact          -> Label \cup {Nil}]

\* The JSON of a member that fits the field.
Typeable == [f \in Field |->
  CASE f \in {"title", "displayAt"} -> Text
    [] f = "display"        -> DisplayPrefs
    [] f = "provenance"       -> Literal
    [] f = "override"       -> DisplayPrefs \cup {Null, Malformed}
    [] f = "inlineManifest" -> DisplayControls \cup {Null, Malformed}
    [] f \in Exact          -> Label]

\* exact: the key is spelt as the field's tag; encoding/json matches other cases, too.
IsMember(m) ==
  /\ DOMAIN m = {"field", "exact", "value"} /\ m.field \in Field /\ m.exact \in BOOLEAN
  /\ m.value \in Typeable[m.field] \/ (m.field \notin Raw /\ m.value \in {Null, Mismatch})
IsDocument(d) ==
  d \in {NotObject, Null} \/ (Len(d) \in Nat /\ DOMAIN d = 1 .. Len(d) /\ \A i \in DOMAIN d : IsMember(d[i]))

ASSUME DocumentAssumption ==
  /\ \A d \in Document \cup FirstDocument : IsDocument(d)
  /\ Blank \in Text /\ MaxDecodes \in Nat
  /\ \A f \in Field : Nil \notin Typeable[f] /\ Mismatch \notin Typeable[f]
  /\ \A f \in Field \ Raw : Null \notin Typeable[f]
  /\ Nil \notin Numeral /\ Null # Mismatch /\ Null # NotObject

Zero == [f \in Field |-> IF f = "title" THEN Blank ELSE Nil]

VARIABLES
  it, kept,           \* the variable and the copy
  shared,             \* where the copy points to the variable's memory
  pc, doc, at,        \* the call, and the member that is next
  shadow, fresh,      \* the shadow item, and where it points to memory of its own
  failed,             \* an error is saved
  before,             \* the variable when the call began
  decodes

decoding == <<it, kept, shared, pc, doc, at, shadow, fresh, failed, before, decodes>>

Idle == {"start", "decoded", "refused", "shown"}

DecodingInit ==
  /\ it = Zero /\ kept = Zero /\ before = Zero /\ shadow = Zero
  /\ shared = {} /\ fresh = {} /\ failed = FALSE
  /\ pc = "start" /\ doc = <<>> /\ at = 1 /\ decodes = 0

(***************************************************************************)
(* The consumer.                                                           *)
(***************************************************************************)
NewVariable ==
  /\ pc \in Idle /\ it # Zero
  /\ it' = Zero /\ shared' = {} /\ pc' = "start"
  /\ UNCHANGED <<kept, doc, at, shadow, fresh, failed, before, decodes>>

Keep ==
  /\ pc = "decoded"
  /\ kept' = it /\ shared' = {f \in InMemory : it[f] # Nil}
  /\ UNCHANGED <<it, pc, doc, at, shadow, fresh, failed, before, decodes>>

\* A document that is null has no member and is no error: the item stays as it is.
Unmarshal(d) ==
  /\ pc \in Idle /\ decodes < MaxDecodes
  /\ decodes' = decodes + 1
  /\ pc' = "members"
  /\ doc' = IF d \in {NotObject, Null} THEN <<>> ELSE d
  /\ failed' = (d = NotObject)
  /\ at' = 1 /\ shadow' = it /\ fresh' = {} /\ before' = it
  /\ UNCHANGED <<it, kept, shared>>

(***************************************************************************)
(* encoding/json: one member after the other.  A value of another type is  *)
(* an error that is saved; decoding goes on.                               *)
(***************************************************************************)
More    == pc = "members" /\ at <= Len(doc)
Current == doc[at]

\* Memory that the shadow does not own is the variable's, and perhaps the copy's.  The
\* copy and the variable keep the lengths they have, so of raw JSON they may see a part.
Store(f, v, seen, seenByCopy) ==
  /\ shadow' = [shadow EXCEPT ![f] = v]
  /\ it'   = IF f \in fresh THEN it ELSE [it EXCEPT ![f] = seen]
  /\ kept' = IF f \in fresh \/ f \notin shared THEN kept ELSE [kept EXCEPT ![f] = seenByCopy]

StoreFresh(f, v) ==
  /\ shadow' = [shadow EXCEPT ![f] = v] /\ fresh' = fresh \cup {f}
  /\ UNCHANGED <<it, kept>>

DecodePlain ==
  /\ More /\ Current.field = "title"
  /\ at' = at + 1
  /\ shadow' = IF Current.value \in Text THEN [shadow EXCEPT !["title"] = Current.value] ELSE shadow
  /\ failed' = (failed \/ Current.value = Mismatch)
  /\ UNCHANGED <<it, kept, shared, pc, doc, fresh, before, decodes>>

\* The raw fields of the shadow take both members, in any spelling; they are not used.
DecodeSink ==
  /\ More /\ Current.field \in Exact
  /\ at' = at + 1
  /\ UNCHANGED <<it, kept, shared, pc, doc, shadow, fresh, failed, before, decodes>>

DecodeNull ==
  /\ More /\ Current.field \in Pointer /\ Current.value = Null
  /\ at' = at + 1
  /\ StoreFresh(Current.field, Nil)
  /\ UNCHANGED <<shared, pc, doc, failed, before, decodes>>

DecodeMismatch ==
  /\ More /\ Current.field \in Pointer /\ Current.value = Mismatch
  /\ at' = IF Current.field = "provenance" THEN Len(doc) + 1 ELSE at + 1
  /\ failed' = TRUE
  /\ UNCHANGED <<it, kept, shared, pc, doc, shadow, fresh, before, decodes>>

\* A pointer that is nil is given new memory, another one is written through.
StorePointer(f, v) ==
  IF shadow[f] = Nil THEN StoreFresh(f, v) ELSE Store(f, v, v, v) /\ UNCHANGED fresh

DecodePointer ==
  /\ More /\ Current.field \in {"displayAt", "display"} /\ Current.value \in Typeable[Current.field]
  /\ at' = at + 1
  /\ StorePointer(Current.field,
       IF Current.field = "displayAt" THEN Current.value
       ELSE DecodeInto(IF shadow["display"] = Nil THEN EmptyDisplay ELSE shadow["display"], Current.value))
  /\ UNCHANGED <<shared, pc, doc, failed, before, decodes>>

\* The error of SeriesID.UnmarshalJSON ends the call.
DecodeProvenance ==
  /\ More /\ Current.field = "provenance" /\ Current.value \in Literal
  /\ LET id == UnmarshalSeriesID(Current.value) IN
     IF id = Refused
     THEN at' = Len(doc) + 1 /\ failed' = TRUE /\ UNCHANGED <<it, kept, shadow, fresh>>
     ELSE at' = at + 1 /\ StorePointer("provenance", id) /\ UNCHANGED failed
  /\ UNCHANGED <<shared, pc, doc, before, decodes>>

\* json.RawMessage appends to its own array, cut to length zero: in place if it fits.
DecodeRaw ==
  /\ More /\ Current.field \in Raw
  /\ at' = at + 1
  /\ \/ StoreFresh(Current.field, Current.value)
     \/ /\ shadow[Current.field] # Nil
        /\ \E seen, seenByCopy \in {Current.value, Malformed} :
             Store(Current.field, Current.value, seen, seenByCopy)
        /\ UNCHANGED fresh
  /\ UNCHANGED <<shared, pc, doc, failed, before, decodes>>

(***************************************************************************)
(* The end of UnmarshalJSON.  The members of Exact are read from the       *)
(* document a second time, by their keys as they are spelt.                *)
(***************************************************************************)
LastOf(S) == CHOOSE i \in S : \A j \in S : j <= i

\* Variant: the shadow field decides, which matches keys in any case.
Taken_AnyCase(f) ==
  LET found == {i \in DOMAIN doc : doc[i].field = f} IN
  IF found = {} THEN shadow[f]
  ELSE IF doc[LastOf(found)].value \in Label THEN doc[LastOf(found)].value ELSE Nil

\* Variant: what a failed decoding leaves in the new rating is taken.
Taken_ErrorIgnored(f) ==
  LET found == {i \in DOMAIN doc : doc[i].field = f /\ doc[i].exact} IN
  IF found = {} THEN shadow[f]
  ELSE IF doc[LastOf(found)].value = Null THEN Nil
  ELSE IF doc[LastOf(found)].value \in Label THEN doc[LastOf(found)].value ELSE Blank

Taken(f) ==
  LET found == {i \in DOMAIN doc : doc[i].field = f /\ doc[i].exact} IN
  IF found = {} THEN shadow[f]
  ELSE IF doc[LastOf(found)].value \in Label THEN doc[LastOf(found)].value ELSE Nil

\* Variant: a rating is decoded into the memory that the variable has for one.
Commit_RatingInPlace ==
  /\ pc = "members" /\ at > Len(doc) /\ ~failed
  /\ pc' = "decoded"
  /\ it' = [f \in Field |-> IF f \in Exact THEN Taken(f) ELSE shadow[f]]
  /\ kept' = [f \in Field |->
       IF /\ f \in Exact /\ shared # {} /\ kept[f] = it[f]
          /\ it[f] # Nil /\ Taken(f) # Nil
       THEN Taken(f) ELSE kept[f]]
  /\ shared' = shared \ fresh
  /\ shadow' = Zero /\ fresh' = {}
  /\ UNCHANGED <<doc, at, failed, before, decodes>>

Commit ==
  /\ pc = "members" /\ at > Len(doc) /\ ~failed
  /\ pc' = "decoded"
  /\ it' = [f \in Field |-> IF f \in Exact THEN Taken(f) ELSE shadow[f]]
  /\ shared' = shared \ fresh
  /\ shadow' = Zero /\ fresh' = {}
  /\ UNCHANGED <<kept, doc, at, failed, before, decodes>>

\* Variant: the variable is assigned before the error is looked at.
ReturnError_Assigns ==
  /\ pc = "members" /\ at > Len(doc) /\ failed
  /\ pc' = "refused"
  /\ it' = shadow /\ shared' = shared \ fresh
  /\ shadow' = Zero /\ fresh' = {}
  /\ UNCHANGED <<kept, doc, at, failed, before, decodes>>

ReturnError ==
  /\ pc = "members" /\ at > Len(doc) /\ failed
  /\ pc' = "refused"
  /\ shadow' = Zero /\ fresh' = {}
  /\ UNCHANGED <<it, kept, shared, doc, at, failed, before, decodes>>

DecodingNext ==
  \/ NewVariable \/ Keep
  \/ \E d \in Document : Unmarshal(d)
  \/ \E d \in FirstDocument : it = Zero /\ Unmarshal(d)
  \/ DecodePlain \/ DecodeSink \/ DecodeNull \/ DecodeMismatch \/ DecodePointer \/ DecodeProvenance
  \/ DecodeRaw \/ Commit \/ ReturnError
=============================================================================
