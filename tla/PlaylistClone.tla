--------------------------- MODULE PlaylistClone ---------------------------
(***************************************************************************)
(* Goroutines resolve one playlist, which a cache holds, and write to what *)
(* ResolveDynamicQuery returns; the owner of the playlist writes to it     *)
(* while nobody is cloning it.                                             *)
(*                                                                         *)
(* A part of a playlist is a piece of memory of its own: the array of a    *)
(* slice, a map, or what a pointer points to.  It is named by the fields   *)
(* that lead to it; the elements of a slice are alike, so that one stands  *)
(* for all.  Everybody may have memory of his own for a part, and points   *)
(* from there, field by field, to somebody's memory of the parts below.    *)
(***************************************************************************)
EXTENDS Naturals, Sequences

CONSTANTS
  Goroutine,
  Receiver,           \* the owner of the playlist that is resolved
  Playlist,           \* playlists: [has: their parts, empty: those without elements]
  Original, None

Owner == Goroutine \cup {Receiver}

(***************************************************************************)
(* The types: what a field leads to, and the fields of each type that are  *)
(* slices, maps or pointers.                                               *)
(***************************************************************************)
TypeOf(field) ==
  CASE field = "items"                             -> "PlaylistItem"
    [] field \in {"curators", "authors", "author"} -> "Entity"
    [] field = "links"                             -> "Link"
    [] field \in {"avatar", "thumbnail"}           -> "Thumbnail"
    [] field = "defaults"                          -> "Defaults"
    [] field = "display"                           -> "DisplayPrefs"
    [] field = "interaction"                       -> "InteractionPrefs"
    [] field = "dynamicQuery"                      -> "DynamicQuery"
    [] field = "note"                              -> "Note"
    [] field = "repro"                             -> "ReproBlock"
    [] field = "provenance"                        -> "ProvenanceBlock"
    [] field = "contract"                          -> "ProvenanceContract"
    [] OTHER                                       -> "scalar"

DocumentTypes == [
  Playlist     |-> {"defaults", "items", "signatures", "note", "curators", "dynamicQuery", "links", "visibility"},
  Defaults     |-> {"display", "duration"},
  PlaylistItem |-> {"duration", "override", "display", "repro", "provenance", "note", "displayAt",
                    "inlineManifest", "contentRating", "contentReasons"}]

ItemTypes == [
  DisplayPrefs       |-> {"margin", "autoplay", "loop", "interaction", "userOverrides"},
  InteractionPrefs   |-> {"keyboard", "mouse"},
  ReproBlock         |-> {"engineVersion", "assetsSHA256", "frameHash"},
  ProvenanceBlock    |-> {"contract", "dependencies"},
  ProvenanceContract |-> {"seriesId"}]

IdentityTypes == [
  Entity    |-> {"addresses", "avatar", "biographies", "links"},
  Thumbnail |-> {"w", "h"},
  Link      |-> {"thumbnail", "authors"}]

PlaylistsTypes == [
  Note         |-> {"duration", "author"},
  DynamicQuery |-> {"headers", "itemMap"}]

References(type) ==
  IF type \in DOMAIN DocumentTypes THEN DocumentTypes[type]
  ELSE IF type \in DOMAIN ItemTypes THEN ItemTypes[type]
  ELSE IF type \in DOMAIN IdentityTypes THEN IdentityTypes[type]
  ELSE IF type \in DOMAIN PlaylistsTypes THEN PlaylistsTypes[type]
  ELSE {}

Types == DOMAIN DocumentTypes \cup DOMAIN ItemTypes \cup DOMAIN IdentityTypes \cup DOMAIN PlaylistsTypes
Field == UNION { References(type) : type \in Types }

Above(p)      == SubSeq(p, 1, Len(p) - 1)
LastField(p)  == p[Len(p)]
TypeAt(p)     == IF p = <<>> THEN "Playlist" ELSE TypeOf(LastField(p))

IsPlaylist(pl) ==
  /\ pl.has \subseteq Seq(Field) /\ <<>> \in pl.has /\ pl.empty \subseteq pl.has
  /\ \A p \in pl.has \ {<<>>} :
       Above(p) \in pl.has \ pl.empty /\ LastField(p) \in References(TypeAt(Above(p)))

ASSUME CloneAssumption ==
  /\ \A pl \in Playlist : IsPlaylist(pl) /\ None \notin pl.has
  /\ Receiver \notin Goroutine /\ Original \notin Owner

(***************************************************************************)
(* The clone functions: the fields each of them copies, in its order.      *)
(***************************************************************************)
CloneEntity    == <<"addresses", "avatar", "biographies", "links">>

\* Variant: a list of plain structs is taken as it is.
CloneLink_ThumbnailOnly == <<"thumbnail">>

CloneLink      == <<"thumbnail", "authors">>
CloneThumbnail == <<"w", "h">>

\* clonePlaylist copies the array of the items at once, their fields at the end.
ItemFields == <<"override", "inlineManifest", "displayAt", "contentRating", "contentReasons">>

CloneFields(type) ==
  CASE type = "Entity"       -> CloneEntity
    [] type = "Link"         -> CloneLink
    [] type = "Thumbnail"    -> CloneThumbnail
    [] type = "Defaults"     -> <<"display">>
    [] type = "DynamicQuery" -> <<"headers", "itemMap">>
    [] OTHER                 -> <<>>

\* Variant: the items' fields are replaced in the receiver's array.
PlaylistFields_ItemsShared == <<"signatures", "curators", "links", "defaults", "dynamicQuery">>

PlaylistFields == <<"items", "signatures", "curators", "links", "defaults", "dynamicQuery">>

Below(p, fields) == [i \in DOMAIN fields |-> Append(p, fields[i])]

ClonePlaylist == Below(<<>>, PlaylistFields) \o Below(<<"items">>, ItemFields)

\* These are copied if they have elements, the others if they are not nil.
LenGuarded == {"items", "signatures", "headers", "itemMap", "override", "inlineManifest"}

VARIABLES
  playlist,           \* the receiver's
  points,             \* whose memory a field in somebody's memory leads to
  content,            \* who wrote last to a part of somebody's memory
  pc, todo,           \* of each goroutine: its call, and the parts it has still to copy
  wrote,              \* the part to which somebody has written
  seen                \* what the receiver held when a goroutine called

vars == <<playlist, points, content, pc, todo, wrote, seen>>

Has(p)  == p \in playlist.has
Parts   == playlist.has \ {<<>>}

\* Whose memory g reaches for p, starting from his own playlist.
OwnerOf(g, p) ==
  LET reached[n \in 0 .. Len(p)] == IF n = 0 THEN g ELSE points[reached[n - 1]][SubSeq(p, 1, n)]
  IN  reached[Len(p)]

Sees(g, p) == content[OwnerOf(g, p)][p]

Init ==
  /\ playlist \in Playlist
  /\ points  = [o \in Owner |-> [p \in Parts |-> Receiver]]
  /\ content = [o \in Owner |-> [p \in Parts |-> Original]]
  /\ pc   = [g \in Goroutine |-> "start"]
  /\ todo = [g \in Goroutine |-> <<>>]
  /\ wrote = [o \in Owner |-> None]
  /\ seen  = [g \in Goroutine |-> [p \in Parts |-> Original]]

(***************************************************************************)
(* ResolveDynamicQuery.  c := *p copies the pointers of the playlist.      *)
(***************************************************************************)
Resolve(g) ==
  /\ pc[g] = "start"
  /\ pc'   = [pc EXCEPT ![g] = "clone"]
  /\ todo' = [todo EXCEPT ![g] = ClonePlaylist]
  /\ points' = [points EXCEPT ![g] =
                  [p \in Parts |-> IF Len(p) = 1 THEN points[Receiver][p] ELSE @[p]]]
  /\ seen' = [seen EXCEPT ![g] = [p \in Parts |-> Sees(Receiver, p)]]
  /\ UNCHANGED <<playlist, content, wrote>>

Skipped(p) == ~Has(p) \/ (LastField(p) \in LenGuarded /\ p \in playlist.empty)

Skip(g) ==
  /\ pc[g] = "clone" /\ todo[g] # <<>> /\ Skipped(Head(todo[g]))
  /\ todo' = [todo EXCEPT ![g] = Tail(@)]
  /\ UNCHANGED <<playlist, points, content, pc, wrote, seen>>

\* New memory for a part: its fields lead where those of the source lead.
CopyPart(g, p) ==
  LET source == OwnerOf(g, p)
      parent == OwnerOf(g, Above(p)) IN
  /\ points' = [o \in Owner |-> [q \in Parts |->
                  IF o = parent /\ q = p THEN g
                  ELSE IF o = g /\ Above(q) = p THEN points[source][q]
                  ELSE points[o][q]]]
  /\ content' = [content EXCEPT ![g][p] = content[source][p]]

Clone(g) ==
  /\ pc[g] = "clone" /\ todo[g] # <<>> /\ ~Skipped(Head(todo[g]))
  /\ LET p == Head(todo[g]) IN
     /\ CopyPart(g, p)
     /\ todo' = [todo EXCEPT ![g] = Below(p, CloneFields(TypeAt(p))) \o Tail(@)]
  /\ UNCHANGED <<playlist, pc, wrote, seen>>

Cloned(g) == pc[g] = "clone" /\ todo[g] = <<>>

\* Without a query the clone is the answer.
ReturnClone(g) ==
  /\ Cloned(g) /\ ~Has(<<"dynamicQuery">>)
  /\ pc' = [pc EXCEPT ![g] = "returned"]
  /\ UNCHANGED <<playlist, points, content, todo, wrote, seen>>

\* The dynamic items are appended to the static ones in a new array.
AppendItems(g) ==
  /\ Cloned(g) /\ Has(<<"dynamicQuery">>)
  /\ pc' = [pc EXCEPT ![g] = "returned"]
  /\ points' = [points EXCEPT ![g] = [p \in Parts |-> IF p = <<"items">> THEN g ELSE @[p]]]
  /\ UNCHANGED <<playlist, content, todo, wrote, seen>>

QueryFails(g) ==
  /\ Cloned(g) /\ Has(<<"dynamicQuery">>)
  /\ pc' = [pc EXCEPT ![g] = "failed"]
  /\ UNCHANGED <<playlist, points, content, todo, wrote, seen>>

(***************************************************************************)
(* The callers.  Each writes once, to an element, an entry or a pointee;   *)
(* an append into spare capacity is a write to the array as well.  An      *)
(* array without elements has no capacity, a map without entries takes one.*)
(***************************************************************************)
Map == {"headers", "itemMap", "userOverrides", "engineVersion"}

Writable == {p \in Parts : p \notin playlist.empty \/ LastField(p) \in Map}

Write(o) ==
  /\ wrote[o] = None
  /\ IF o = Receiver THEN \A g \in Goroutine : pc[g] # "clone" ELSE pc[o] = "returned"
  /\ \E p \in Writable :
       /\ content' = [content EXCEPT ![OwnerOf(o, p)][p] = o]
       /\ wrote' = [wrote EXCEPT ![o] = p]
  /\ UNCHANGED <<playlist, points, pc, todo, seen>>

Next ==
  \/ \E g \in Goroutine :
       Resolve(g) \/ Skip(g) \/ Clone(g) \/ ReturnClone(g) \/ AppendItems(g) \/ QueryFails(g)
  \/ \E o \in Owner : Write(o)

Spec == Init /\ [][Next]_vars
-----------------------------------------------------------------------------
TypeOK ==
  /\ playlist \in Playlist
  /\ points \in [Owner -> [Parts -> Owner]] /\ content \in [Owner -> [Parts -> Owner \cup {Original}]]
  /\ pc \in [Goroutine -> {"start", "clone", "returned", "failed"}]
  /\ \A o \in Owner : \A p \in Parts : OwnerOf(o, p) \in {o, Receiver}
  /\ \A g \in Goroutine : \A i \in DOMAIN todo[g] : Len(todo[g][i]) > 0
  /\ wrote \in [Owner -> Parts \cup {None}]
  /\ seen \in [Goroutine -> [Parts -> Owner \cup {Original}]]

\* The part and all above it are among those whose copies the comments and tests describe.
\* A map without entries is not: it is only copied if it has some.
Promised(p) ==
  /\ p \notin playlist.empty \/ LastField(p) \notin Map
  /\ \/ p[1] \in {"curators", "links", "signatures"}
     \/ p[1] = "items" /\ (Len(p) = 1 \/ (Len(p) = 2 /\ p[2] \in {"override", "inlineManifest",
                              "displayAt", "contentRating", "contentReasons"}))
     \/ p[1] = "defaults" /\ p \in {<<"defaults">>, <<"defaults", "display">>}
     \/ p[1] = "dynamicQuery"

(***************************************************************************)
(* Whatever is written through one resolved playlist, or to the receiver   *)
(* after the call, is seen there and nowhere else: each caller finds in    *)
(* every part what the receiver held when he called, or what he wrote.     *)
(***************************************************************************)
EachSeesItsOwn ==
  \A p \in Parts : Promised(p) =>
    /\ Sees(Receiver, p) = IF wrote[Receiver] = p THEN Receiver ELSE Original
    /\ \A g \in Goroutine : pc[g] = "returned" =>
         Sees(g, p) = IF wrote[g] = p THEN g ELSE seen[g][p]

Array == {"items", "signatures", "curators", "links", "authors", "addresses", "biographies", "override",
          "inlineManifest", "contentReasons", "margin", "keyboard", "assetsSHA256", "dependencies"}

(***************************************************************************)
(* "cloneEntity deep-copies an Entity's reference-typed fields so a cloned *)
(* playlist shares no backing array with its receiver."                    *)
(***************************************************************************)
NoBackingArrayShared ==
  \A g \in Goroutine, p \in Parts :
    pc[g] = "returned" /\ LastField(p) \in Array /\ p \notin playlist.empty => OwnerOf(g, p) # Receiver
=============================================================================
