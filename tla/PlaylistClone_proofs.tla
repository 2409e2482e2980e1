------------------------ MODULE PlaylistClone_proofs ------------------------
(***************************************************************************)
(* Every part that the clone functions promise to copy is copied before a  *)
(* call returns, and what is written through one playlist is seen there    *)
(* and nowhere else, for every playlist and every number of goroutines.    *)
(***************************************************************************)
EXTENDS PlaylistClone, SequenceTheorems, WellFoundedInduction, TLAPS

Path == Seq(Field)

\* p and all above it are memory of o, as a place or a whole playlist points to it.
Own(pts, o, p) == \A n \in 1 .. Len(p) : pts[o][SubSeq(p, 1, n)] = o

Fields(type) == { CloneFields(type)[i] : i \in DOMAIN CloneFields(type) }

\* Cloning t clones p too: the fields from t to p are those that are copied.
LeadsTo(t, p) ==
  /\ Len(t) <= Len(p) /\ SubSeq(p, 1, Len(t)) = t
  /\ \A n \in Len(t) + 1 .. Len(p) : p[n] \in Fields(TypeAt(SubSeq(p, 1, n - 1)))

\* The parts that clonePlaylist copies in a playlist that has them.
Covered(p)   == ~ Skipped(p) /\ \E i \in DOMAIN ClonePlaylist : LeadsTo(ClonePlaylist[i], p)
CoveredParts == { p \in Parts : Covered(p) }

PromisedParts == { p \in Parts : Promised(p) }

\* The receiver keeps its memory, and nobody has a part of another goroutine.
PointsApart ==
  \A p \in Parts :
    /\ points[Receiver][p] = Receiver
    /\ \A g \in Goroutine : points[g][p] \in {g, Receiver}

\* A part on the stack lies in memory that is copied by the time it is its turn.
InOrder(parts, pts, g, s) ==
  \A i \in DOMAIN s :
    s[i] \in parts => \/ Own(pts, g, Above(s[i]))
                      \/ \E j \in 1 .. i - 1 : s[j] = Above(s[i])

\* A part is copied or will be.
CopiedOrDue(covered, pts, g, s) ==
  \A p \in covered : Own(pts, g, p) \/ \E i \in DOMAIN s : LeadsTo(s[i], p)

Progress(parts, covered, pts, state, g, s) ==
  /\ state = "start" => \A p \in parts : pts[g][p] = Receiver
  /\ state = "clone" => InOrder(parts, pts, g, s) /\ CopiedOrDue(covered, pts, g, s)
  /\ state = "returned" => \A p \in covered : Own(pts, g, p)

CloneProgress ==
  \A g \in Goroutine : Progress(Parts, CoveredParts, points, pc[g], g, todo[g])

\* What nobody can write to is the original, in every playlist.
ReadOnlyKept ==
  \A p \in Parts \ Writable :
    /\ \A o \in Owner : content[o][p] = Original
    /\ \A g \in Goroutine : seen[g][p] = Original

\* A playlist that nobody has yet is not written to.
WritersHave ==
  /\ \A o \in Owner : wrote[o] \in Writable \cup {None}
  /\ \A g \in Goroutine : pc[g] # "returned" => wrote[g] = None

\* The receiver's memory of a promised part is written by the receiver only, and not
\* while somebody clones.
ReceiverKept ==
  \A p \in PromisedParts :
    /\ content[Receiver][p] = IF wrote[Receiver] = p THEN Receiver ELSE Original
    /\ \A g \in Goroutine : pc[g] = "clone" => seen[g][p] = content[Receiver][p]

\* Own memory has what was copied or what its owner wrote.
OwnKept ==
  \A g \in Goroutine : \A p \in PromisedParts :
    pc[g] \in {"clone", "returned"} /\ Own(points, g, p) =>
      content[g][p] = IF wrote[g] = p THEN g ELSE seen[g][p]

Typed ==
  /\ playlist \in Playlist
  /\ points \in [Owner -> [Parts -> Owner]]
  /\ content \in [Owner -> [Parts -> Owner \cup {Original}]]
  /\ pc \in [Goroutine -> {"start", "clone", "returned", "failed"}]
  /\ todo \in [Goroutine -> Seq(Path \ {<<>>})]
  /\ wrote \in [Owner -> Parts \cup {None}]
  /\ seen \in [Goroutine -> [Parts -> Owner \cup {Original}]]

IInv == /\ Typed
        /\ PointsApart /\ CloneProgress
        /\ ReadOnlyKept /\ WritersHave /\ ReceiverKept /\ OwnKept

-----------------------------------------------------------------------------
(***************************************************************************)
(* Paths as sequences.                                                     *)
(***************************************************************************)
LessThan == { r \in Nat \X Nat : r[1] < r[2] }

\* Induction over a set of naturals.
LEMMA SetInduction ==
  ASSUME NEW S, 0 \in S, \A n \in Nat : n \in S => n + 1 \in S
  PROVE  Nat \subseteq S
<1> DEFINE Bad == Nat \ S
<1> SUFFICES ASSUME Bad # {} PROVE FALSE
  OBVIOUS
<1>1. IsWellFoundedOn(LessThan, Nat)
  BY NatLessThanWellFounded DEF OpToRel, LessThan
<1>2. PICK n \in Bad : \A m \in Bad : ~ (<<m, n>> \in LessThan)
  BY <1>1, WFMin
<1>3. n \in Nat /\ n # 0
  OBVIOUS
<1>4. n - 1 \in Nat /\ <<n - 1, n>> \in LessThan
  BY <1>3 DEF LessThan
<1>5. n - 1 \in S
  BY <1>2, <1>4
<1>6. (n - 1) + 1 \in S
  BY <1>4, <1>5
<1> QED BY <1>3, <1>6

LEMMA Prefix ==
  ASSUME NEW p \in Path, NEW n \in 0 .. Len(p)
  PROVE  /\ SubSeq(p, 1, n) \in Path /\ Len(SubSeq(p, 1, n)) = n
         /\ \A i \in 1 .. n : SubSeq(p, 1, n)[i] = p[i]
BY SubSeqProperties DEF Path

LEMMA SamePath ==
  ASSUME NEW p \in Path, NEW q \in Path, Len(p) = Len(q),
         \A i \in 1 .. Len(p) : p[i] = q[i]
  PROVE  p = q
BY SeqEqual DEF Path

LEMMA PrefixOfPrefix ==
  ASSUME NEW p \in Path, NEW n \in 0 .. Len(p), NEW m \in 0 .. n
  PROVE  SubSeq(SubSeq(p, 1, n), 1, m) = SubSeq(p, 1, m)
<1>1. SubSeq(p, 1, n) \in Path /\ Len(SubSeq(p, 1, n)) = n
      /\ \A i \in 1 .. n : SubSeq(p, 1, n)[i] = p[i]
  BY Prefix
<1>2. m \in 0 .. Len(p) /\ m \in 0 .. Len(SubSeq(p, 1, n)) /\ Len(p) \in Nat
  BY <1>1 DEF Path
<1>3. /\ SubSeq(p, 1, m) \in Path /\ Len(SubSeq(p, 1, m)) = m
      /\ \A i \in 1 .. m : SubSeq(p, 1, m)[i] = p[i]
  BY <1>2, Prefix
<1>4. /\ SubSeq(SubSeq(p, 1, n), 1, m) \in Path /\ Len(SubSeq(SubSeq(p, 1, n), 1, m)) = m
      /\ \A i \in 1 .. m : SubSeq(SubSeq(p, 1, n), 1, m)[i] = SubSeq(p, 1, n)[i]
  BY <1>1, <1>2, Prefix
<1> QED BY <1>1, <1>2, <1>3, <1>4, SamePath

LEMMA WholePath ==
  ASSUME NEW p \in Path
  PROVE  SubSeq(p, 1, Len(p)) = p
<1>1. Len(p) \in Nat /\ Len(p) \in 0 .. Len(p)
  BY DEF Path
<1>2. /\ SubSeq(p, 1, Len(p)) \in Path /\ Len(SubSeq(p, 1, Len(p))) = Len(p)
      /\ \A i \in 1 .. Len(p) : SubSeq(p, 1, Len(p))[i] = p[i]
  BY <1>1, Prefix
<1> QED BY <1>2, SamePath

LEMMA AbovePrefix ==
  ASSUME NEW p \in Path, NEW n \in 1 .. Len(p)
  PROVE  Above(SubSeq(p, 1, n)) = SubSeq(p, 1, n - 1) /\ LastField(SubSeq(p, 1, n)) = p[n]
<1>1. Len(p) \in Nat /\ n \in 0 .. Len(p) /\ n - 1 \in 0 .. n
  BY DEF Path
<1>2. Len(SubSeq(p, 1, n)) = n /\ SubSeq(p, 1, n)[n] = p[n]
  BY <1>1, Prefix
<1> QED BY <1>1, <1>2, PrefixOfPrefix DEF Above, LastField

LEMMA AboveAppended ==
  ASSUME NEW p \in Path, NEW f \in Field
  PROVE  /\ Append(p, f) \in Path /\ Len(Append(p, f)) = Len(p) + 1
         /\ Above(Append(p, f)) = p /\ LastField(Append(p, f)) = f
<1>1. /\ Append(p, f) \in Path /\ Len(Append(p, f)) = Len(p) + 1
      /\ \A i \in 1 .. Len(p) : Append(p, f)[i] = p[i]
      /\ Append(p, f)[Len(p) + 1] = f
      /\ Len(p) \in Nat
  BY AppendProperties DEF Path
<1>2. Above(Append(p, f)) = SubSeq(Append(p, f), 1, Len(p))
  BY <1>1 DEF Above
<1>3. /\ Above(Append(p, f)) \in Path /\ Len(Above(Append(p, f))) = Len(p)
      /\ \A i \in 1 .. Len(p) : Above(Append(p, f))[i] = p[i]
  <2>1. Len(p) \in 0 .. Len(Append(p, f))
    BY <1>1
  <2> QED BY <1>1, <1>2, <2>1, Prefix
<1>4. Above(Append(p, f)) = p
  BY <1>3, SamePath
<1> QED BY <1>1, <1>4 DEF LastField

\* A path whose upper part is t goes on from t.
LEMMA Extended ==
  ASSUME NEW p \in Path, Len(p) > 0
  PROVE  Above(p) \in Path /\ Len(Above(p)) = Len(p) - 1 /\ p = Append(Above(p), LastField(p))
<1>1. Len(p) \in Nat /\ Len(p) - 1 \in 0 .. Len(p) /\ LastField(p) \in Field
  BY DEF Path, LastField
<1>2. /\ Above(p) \in Path /\ Len(Above(p)) = Len(p) - 1
      /\ \A i \in 1 .. Len(p) - 1 : Above(p)[i] = p[i]
  BY <1>1, Prefix DEF Above
<1>3. /\ Append(Above(p), LastField(p)) \in Path /\ Len(Append(Above(p), LastField(p))) = Len(p)
      /\ \A i \in 1 .. Len(p) : Append(Above(p), LastField(p))[i] = p[i]
  BY <1>1, <1>2 DEF Path, LastField
<1> QED BY <1>2, <1>3, SamePath

-----------------------------------------------------------------------------
(***************************************************************************)
(* A playlist has what is above its parts.                                 *)
(***************************************************************************)
LEMMA PlaylistType ==
  ASSUME playlist \in Playlist
  PROVE  /\ playlist.has \subseteq Path /\ <<>> \in playlist.has
         /\ playlist.empty \subseteq playlist.has /\ None \notin Parts
         /\ \A p \in Parts : /\ Len(p) \in Nat /\ Len(p) > 0
                             /\ Above(p) \in playlist.has \ playlist.empty
                             /\ LastField(p) \in References(TypeAt(Above(p)))
<1>1. IsPlaylist(playlist) /\ None \notin playlist.has
  BY CloneAssumption
<1>2. \A p \in Path : p # <<>> => Len(p) \in Nat /\ Len(p) > 0
  BY DEF Path
<1> QED BY <1>1, <1>2 DEF IsPlaylist, Parts, Path

LEMMA PrefixClosed ==
  ASSUME playlist \in Playlist, NEW p \in playlist.has, NEW n \in 0 .. Len(p)
  PROVE  /\ SubSeq(p, 1, n) \in playlist.has
         /\ n > 0 => SubSeq(p, 1, n) \in Parts
         /\ n < Len(p) => SubSeq(p, 1, n) \notin playlist.empty
<1>1. p \in Path /\ Len(p) \in Nat
  BY PlaylistType DEF Path
<1> DEFINE q(k) == SubSeq(p, 1, Len(p) - k)
           S == { k \in Nat : k <= Len(p) => q(k) \in playlist.has
                                              /\ (k > 0 => q(k) \notin playlist.empty) }
<1>2. 0 \in S
  <2>1. q(0) = p
    <3>1. Len(p) - 0 = Len(p)
      BY <1>1
    <3> QED BY <1>1, <3>1, WholePath
  <2> HIDE DEF q
  <2> QED BY <2>1
<1>3. ASSUME NEW k \in Nat, k \in S
      PROVE  k + 1 \in S
  <2>1. SUFFICES ASSUME k + 1 <= Len(p)
                 PROVE  q(k + 1) \in playlist.has \ playlist.empty
    BY <1>1
  <2>2. Len(p) - k \in 1 .. Len(p) /\ Len(p) - k \in 0 .. Len(p)
        /\ (Len(p) - k) - 1 = Len(p) - (k + 1)
    BY <1>1, <2>1
  <2>3. q(k) \in playlist.has /\ Len(q(k)) > 0
    BY <1>1, <1>3, <2>1, <2>2, Prefix
  <2>4. q(k) \in Parts
    <3>1. Len(<<>>) = 0
      OBVIOUS
    <3>2. q(k) # <<>>
      <4> HIDE DEF q
      <4> QED BY <2>3, <3>1
    <3> QED BY <2>3, <3>2 DEF Parts
  <2>5. Above(q(k)) = q(k + 1)
    BY <1>1, <2>2, AbovePrefix
  <2> QED BY <2>4, <2>5, PlaylistType
<1>4. Nat \subseteq S
  <2> HIDE DEF S
  <2> QED BY <1>2, <1>3, SetInduction
<1>5. Len(p) - n \in S /\ Len(p) - (Len(p) - n) = n /\ Len(p) - n \in Nat /\ n \in Nat
  <2> HIDE DEF S
  <2> QED BY <1>1, <1>4
<1>6. SubSeq(p, 1, n) \in playlist.has /\ (n < Len(p) => SubSeq(p, 1, n) \notin playlist.empty)
  BY <1>1, <1>5
<1>7. n > 0 => SubSeq(p, 1, n) # <<>>
  BY <1>1, Prefix
<1> QED BY <1>6, <1>7 DEF Parts

-----------------------------------------------------------------------------
(***************************************************************************)
(* Whose memory a path leads to.                                           *)
(***************************************************************************)
LEMMA OwnPrefix ==
  ASSUME NEW pts, NEW o, NEW p \in Path, NEW n \in 0 .. Len(p)
  PROVE  Own(pts, o, SubSeq(p, 1, n)) <=> \A m \in 1 .. n : pts[o][SubSeq(p, 1, m)] = o
<1>1. Len(SubSeq(p, 1, n)) = n
  BY Prefix
<1>2. \A m \in 1 .. n : SubSeq(SubSeq(p, 1, n), 1, m) = SubSeq(p, 1, m)
  <2>1. ASSUME NEW m \in 1 .. n
        PROVE  m \in 0 .. n
    OBVIOUS
  <2> QED BY <2>1, PrefixOfPrefix
<1> QED BY <1>1, <1>2 DEF Own

LEMMA OwnNext ==
  ASSUME NEW pts, NEW o, NEW p \in Path, NEW n \in 1 .. Len(p)
  PROVE  Own(pts, o, SubSeq(p, 1, n))
           <=> Own(pts, o, SubSeq(p, 1, n - 1)) /\ pts[o][SubSeq(p, 1, n)] = o
<1>1. n \in 0 .. Len(p) /\ n - 1 \in 0 .. Len(p) /\ n \in Nat
  BY DEF Path
<1>2. 1 .. n = (1 .. n - 1) \cup {n}
  BY <1>1
<1> QED BY <1>1, <1>2, OwnPrefix

LEMMA OwnAbove ==
  ASSUME NEW pts, NEW o, NEW p \in Path, Len(p) > 0
  PROVE  Own(pts, o, p) <=> Own(pts, o, Above(p)) /\ pts[o][p] = o
<1>1. Len(p) \in 1 .. Len(p)
  BY DEF Path
<1>2. Own(pts, o, SubSeq(p, 1, Len(p)))
        <=> Own(pts, o, SubSeq(p, 1, Len(p) - 1)) /\ pts[o][SubSeq(p, 1, Len(p))] = o
  BY <1>1, OwnNext
<1>3. SubSeq(p, 1, Len(p)) = p
  BY WholePath
<1> QED BY <1>2, <1>3, Zenon DEF Above

LEMMA OwnRoot ==
  ASSUME NEW pts, NEW o, NEW p, Len(p) = 0
  PROVE  Own(pts, o, p)
BY DEF Own

\* A place leads to its own memory as long as everything above does, and to the
\* receiver's from there on.
LEMMA Owners ==
  ASSUME playlist \in Playlist, PointsApart, NEW p \in playlist.has, NEW o \in Owner
  PROVE  OwnerOf(o, p) = IF Own(points, o, p) THEN o ELSE Receiver
<1> DEFINE upTo(n) == SubSeq(p, 1, n)
           w == [n \in 0 .. Len(p) |-> IF Own(points, o, upTo(n)) THEN o ELSE Receiver]
           IsReached(f) == f = [n \in 0 .. Len(p) |->
                                  IF n = 0 THEN o ELSE points[f[n - 1]][upTo(n)]]
<1>1. p \in Path /\ Len(p) \in Nat
  BY PlaylistType DEF Path
<1>2. Own(points, o, upTo(0))
  <2>1. Len(upTo(0)) = 0
    BY <1>1, Prefix
  <2> QED BY <2>1, OwnRoot
<1>3. ASSUME NEW n \in 1 .. Len(p)
      PROVE  (IF Own(points, o, upTo(n)) THEN o ELSE Receiver)
               = points[IF Own(points, o, upTo(n - 1)) THEN o ELSE Receiver][upTo(n)]
  <2>1. upTo(n) \in Parts
    BY <1>1, PrefixClosed
  <2>2. points[Receiver][upTo(n)] = Receiver /\ points[o][upTo(n)] \in {o, Receiver}
    BY <2>1 DEF PointsApart, Owner
  <2>3. Own(points, o, upTo(n)) <=> Own(points, o, upTo(n - 1)) /\ points[o][upTo(n)] = o
    BY <1>1, OwnNext
  <2> HIDE DEF upTo
  <2> QED BY <2>2, <2>3
<1>4. IsReached(w)
  <2>1. \A n \in 0 .. Len(p) : n # 0 => n \in 1 .. Len(p) /\ n - 1 \in 0 .. Len(p)
    BY <1>1
  <2> HIDE DEF upTo
  <2> QED BY <1>2, <1>3, <2>1
<1>5. ASSUME NEW f, IsReached(f)
      PROVE  f[Len(p)] = w[Len(p)]
  <2> DEFINE S == { n \in Nat : n <= Len(p) => f[n] = w[n] }
  <2> HIDE DEF upTo, w
  <2>1. 0 \in S
    <3>1. f[0] = o /\ w[0] = o
      BY <1>1, <1>4, <1>5
    <3> QED BY <3>1
  <2>2. ASSUME NEW n \in Nat, n \in S
        PROVE  n + 1 \in S
    <3>1. SUFFICES ASSUME n + 1 <= Len(p)
                   PROVE  f[n + 1] = w[n + 1]
      OBVIOUS
    <3>2. n + 1 \in 0 .. Len(p) /\ n + 1 # 0 /\ (n + 1) - 1 = n /\ n <= Len(p)
      BY <1>1, <3>1
    <3>3. f[n + 1] = points[f[n]][upTo(n + 1)]
      BY <1>5, <3>2
    <3>4. w[n + 1] = points[w[n]][upTo(n + 1)]
      BY <1>4, <3>2
    <3> QED BY <2>2, <3>2, <3>3, <3>4
  <2>3. Len(p) \in S
    <3> HIDE DEF S
    <3> QED BY <1>1, <2>1, <2>2, SetInduction
  <2> QED BY <1>1, <2>3
<1>6. OwnerOf(o, p) = (CHOOSE f : IsReached(f))[Len(p)]
  BY DEF OwnerOf
<1>7. IsReached(CHOOSE f : IsReached(f))
  <2> HIDE DEF IsReached
  <2> QED BY <1>4
<1>8. OwnerOf(o, p) = w[Len(p)]
  <2> HIDE DEF IsReached, w
  <2> QED BY <1>5, <1>6, <1>7
<1>9. w[Len(p)] = IF Own(points, o, p) THEN o ELSE Receiver
  <2>1. upTo(Len(p)) = p
    BY <1>1, WholePath
  <2>2. Len(p) \in 0 .. Len(p)
    BY <1>1
  <2> HIDE DEF upTo
  <2> QED BY <2>1, <2>2
<1> QED BY <1>8, <1>9

-----------------------------------------------------------------------------
(***************************************************************************)
(* What is promised is covered by the clone functions.                     *)
(***************************************************************************)
\* The types of which every field is copied, with what their fields lead to.
WholeTypes == {"Entity", "Link", "Thumbnail", "DynamicQuery", "scalar"}

LEMMA FieldsOfWholeTypes ==
  ASSUME NEW T \in WholeTypes, NEW f \in References(T)
  PROVE  f \in Fields(T) /\ TypeOf(f) \in WholeTypes
<1> USE DEF References, DocumentTypes, ItemTypes, IdentityTypes, PlaylistsTypes, CloneFields
<1>1. CASE T = "Entity"
  <2>1. f \in {"addresses", "avatar", "biographies", "links"}
    BY <1>1
  <2>2. CloneFields(T) = <<"addresses", "avatar", "biographies", "links">>
    BY <1>1 DEF CloneEntity
  <2>3. \A i \in 1 .. 4 : i \in DOMAIN CloneFields(T)
    <3>1. DOMAIN <<"addresses", "avatar", "biographies", "links">> = 1 .. 4
      OBVIOUS
    <3> HIDE DEF CloneFields
    <3> QED BY <2>2, <3>1
  <2>4. \E i \in 1 .. 4 : f = CloneFields(T)[i]
    BY <2>1, <2>2
  <2> QED BY <2>1, <2>3, <2>4 DEF Fields, WholeTypes, TypeOf
<1>2. CASE T = "Link"
  <2>1. f \in {"thumbnail", "authors"}
    BY <1>2
  <2>2. CloneFields(T) = <<"thumbnail", "authors">>
    BY <1>2 DEF CloneLink
  <2>3. \A i \in 1 .. 2 : i \in DOMAIN CloneFields(T)
    BY <2>2
  <2>4. \E i \in 1 .. 2 : f = CloneFields(T)[i]
    BY <2>1, <2>2
  <2> QED BY <2>1, <2>3, <2>4 DEF Fields, WholeTypes, TypeOf
<1>3. CASE T = "Thumbnail"
  <2>1. f \in {"w", "h"}
    BY <1>3
  <2>2. CloneFields(T) = <<"w", "h">>
    BY <1>3 DEF CloneThumbnail
  <2>3. \A i \in 1 .. 2 : i \in DOMAIN CloneFields(T)
    BY <2>2
  <2>4. \E i \in 1 .. 2 : f = CloneFields(T)[i]
    BY <2>1, <2>2
  <2> QED BY <2>1, <2>3, <2>4 DEF Fields, WholeTypes, TypeOf
<1>4. CASE T = "DynamicQuery"
  <2>1. f \in {"headers", "itemMap"}
    BY <1>4
  <2>2. CloneFields(T) = <<"headers", "itemMap">>
    BY <1>4
  <2>3. \A i \in 1 .. 2 : i \in DOMAIN CloneFields(T)
    BY <2>2
  <2>4. \E i \in 1 .. 2 : f = CloneFields(T)[i]
    BY <2>1, <2>2
  <2> QED BY <2>1, <2>3, <2>4 DEF Fields, WholeTypes, TypeOf
<1>5. CASE T = "scalar"
  BY <1>5
<1> QED BY <1>1, <1>2, <1>3, <1>4, <1>5 DEF WholeTypes

\* A field of a part belongs to the type of what is above it.
LEMMA FieldAt ==
  ASSUME playlist \in Playlist, NEW p \in Parts, NEW n \in 1 .. Len(p)
  PROVE  /\ p[n] \in References(TypeAt(SubSeq(p, 1, n - 1)))
         /\ TypeAt(SubSeq(p, 1, n)) = TypeOf(p[n])
<1>1. p \in Path /\ p \in playlist.has /\ n \in 0 .. Len(p) /\ n > 0
  BY PlaylistType DEF Parts, Path
<1>2. SubSeq(p, 1, n) \in Parts
  BY <1>1, PrefixClosed
<1>3. Above(SubSeq(p, 1, n)) = SubSeq(p, 1, n - 1) /\ LastField(SubSeq(p, 1, n)) = p[n]
  BY <1>1, AbovePrefix
<1>4. LastField(SubSeq(p, 1, n)) \in References(TypeAt(Above(SubSeq(p, 1, n))))
  BY <1>2, PlaylistType
<1>5. SubSeq(p, 1, n) # <<>>
  BY <1>2 DEF Parts
<1> QED BY <1>3, <1>4, <1>5 DEF TypeAt

\* Everything below a part of such a type is copied with it.
LEMMA WholeBelow ==
  ASSUME playlist \in Playlist, NEW p \in Parts, NEW n \in 1 .. Len(p),
         TypeOf(p[n]) \in WholeTypes
  PROVE  LeadsTo(SubSeq(p, 1, n), p)
<1> DEFINE typeAt(m) == TypeAt(SubSeq(p, 1, m))
           S == { d \in Nat : n + d <= Len(p) => typeAt(n + d) \in WholeTypes }
<1>1. p \in Path /\ Len(p) \in Nat /\ n \in Nat
  BY PlaylistType DEF Parts, Path
<1>2. ASSUME NEW m \in n + 1 .. Len(p), typeAt(m - 1) \in WholeTypes
      PROVE  p[m] \in Fields(typeAt(m - 1)) /\ typeAt(m) \in WholeTypes
  <2>1. m \in 1 .. Len(p)
    BY <1>1
  <2>2. p[m] \in References(typeAt(m - 1)) /\ typeAt(m) = TypeOf(p[m])
    BY <2>1, FieldAt
  <2> HIDE DEF typeAt
  <2> QED BY <1>2, <2>2, FieldsOfWholeTypes
<1>3. 0 \in S
  <2>1. n + 0 = n /\ typeAt(n) = TypeOf(p[n])
    BY <1>1, FieldAt
  <2> HIDE DEF typeAt
  <2> QED BY <2>1
<1>4. ASSUME NEW d \in Nat, d \in S
      PROVE  d + 1 \in S
  <2>1. SUFFICES ASSUME n + (d + 1) <= Len(p)
                 PROVE  typeAt(n + (d + 1)) \in WholeTypes
    OBVIOUS
  <2>2. n + (d + 1) \in n + 1 .. Len(p) /\ (n + (d + 1)) - 1 = n + d /\ n + d <= Len(p)
    BY <1>1, <2>1
  <2>3. typeAt(n + d) \in WholeTypes
    BY <1>4, <2>2
  <2> HIDE DEF typeAt
  <2> QED BY <1>2, <2>2, <2>3
<1>5. \A m \in n + 1 .. Len(p) : typeAt(m - 1) \in WholeTypes
  <2>1. TAKE m \in n + 1 .. Len(p)
  <2>2. (m - 1) - n \in Nat /\ n + ((m - 1) - n) = m - 1 /\ m - 1 <= Len(p)
    BY <1>1
  <2>3. (m - 1) - n \in S
    <3> HIDE DEF S
    <3> QED BY <1>3, <1>4, <2>2, SetInduction
  <2> HIDE DEF typeAt
  <2> QED BY <2>2, <2>3
<1>6. \A m \in n + 1 .. Len(p) : p[m] \in Fields(TypeAt(SubSeq(p, 1, m - 1)))
  BY <1>2, <1>5
<1>7. Len(SubSeq(p, 1, n)) = n /\ n <= Len(p)
  BY <1>1, Prefix
<1> QED BY <1>6, <1>7 DEF LeadsTo

LEMMA FieldsCloned ==
  /\ {"items", "signatures", "curators", "links", "defaults", "dynamicQuery", "override",
      "inlineManifest", "displayAt", "contentRating", "contentReasons"} \subseteq Field
  /\ \A T : Fields(T) \subseteq Field
<1>1. \A T \in Types : References(T) \subseteq Field
  BY DEF Field
<1>2. {"Playlist", "PlaylistItem", "Entity", "Link", "Thumbnail", "Defaults", "DynamicQuery"} \subseteq Types
  BY DEF Types, DocumentTypes, IdentityTypes, PlaylistsTypes
<1>3. /\ {"items", "signatures", "curators", "links", "defaults", "dynamicQuery"} \subseteq References("Playlist")
      /\ {"override", "inlineManifest", "displayAt", "contentRating", "contentReasons"}
           \subseteq References("PlaylistItem")
  BY DEF References, DocumentTypes
<1>4. /\ {"addresses", "avatar", "biographies", "links"} \subseteq References("Entity")
      /\ {"thumbnail", "authors"} \subseteq References("Link")
      /\ {"w", "h"} \subseteq References("Thumbnail")
      /\ {"display"} \subseteq References("Defaults")
      /\ {"headers", "itemMap"} \subseteq References("DynamicQuery")
  BY DEF References, DocumentTypes, ItemTypes, IdentityTypes, PlaylistsTypes
<1>5. ASSUME NEW T
      PROVE  Fields(T) \subseteq Field
  <2>1. CASE T = "Entity"
    <3>1. CloneFields(T) = <<"addresses", "avatar", "biographies", "links">>
      BY <2>1 DEF CloneFields, CloneEntity
    <3>2. Fields(T) \subseteq {"addresses", "avatar", "biographies", "links"}
      BY <3>1 DEF Fields
    <3> QED BY <1>1, <1>2, <1>4, <3>2
  <2>2. CASE T = "Link"
    <3>1. CloneFields(T) = <<"thumbnail", "authors">>
      BY <2>2 DEF CloneFields, CloneLink
    <3>2. Fields(T) \subseteq {"thumbnail", "authors"}
      BY <3>1 DEF Fields
    <3> QED BY <1>1, <1>2, <1>4, <3>2
  <2>3. CASE T = "Thumbnail"
    <3>1. CloneFields(T) = <<"w", "h">>
      BY <2>3 DEF CloneFields, CloneThumbnail
    <3>2. Fields(T) \subseteq {"w", "h"}
      BY <3>1 DEF Fields
    <3> QED BY <1>1, <1>2, <1>4, <3>2
  <2>4. CASE T = "Defaults"
    <3>1. CloneFields(T) = <<"display">>
      BY <2>4 DEF CloneFields
    <3>2. Fields(T) \subseteq {"display"}
      BY <3>1 DEF Fields
    <3> QED BY <1>1, <1>2, <1>4, <3>2
  <2>5. CASE T = "DynamicQuery"
    <3>1. CloneFields(T) = <<"headers", "itemMap">>
      BY <2>5 DEF CloneFields
    <3>2. Fields(T) \subseteq {"headers", "itemMap"}
      BY <3>1 DEF Fields
    <3> QED BY <1>1, <1>2, <1>4, <3>2
  <2>6. CASE T \notin {"Entity", "Link", "Thumbnail", "Defaults", "DynamicQuery"}
    <3>1. CloneFields(T) = <<>>
      BY <2>6 DEF CloneFields
    <3> QED BY <3>1 DEF Fields
  <2> QED BY <2>1, <2>2, <2>3, <2>4, <2>5, <2>6
<1> QED BY <1>1, <1>2, <1>3, <1>5

LEMMA SixPaths ==
  ASSUME NEW a \in Path, NEW b \in Path, NEW c \in Path, NEW d \in Path, NEW e \in Path, NEW f \in Path
  PROVE  <<a, b, c, d, e, f>> \in Seq(Path) /\ Len(<<a, b, c, d, e, f>>) = 6
OBVIOUS

LEMMA FivePaths ==
  ASSUME NEW a \in Path, NEW b \in Path, NEW c \in Path, NEW d \in Path, NEW e \in Path
  PROVE  <<a, b, c, d, e>> \in Seq(Path) /\ Len(<<a, b, c, d, e>>) = 5
OBVIOUS

LEMMA ClonePlaylistType ==
  /\ ClonePlaylist \in Seq(Path)
  /\ \A i \in DOMAIN ClonePlaylist :
       \/ \E f \in Field : ClonePlaylist[i] = <<f>>
       \/ \E j \in 1 .. i - 1, f \in Field :
            ClonePlaylist[i] = <<"items", f>> /\ ClonePlaylist[j] = <<"items">>
  /\ \A f \in {"items", "signatures", "curators", "links", "defaults", "dynamicQuery"} :
       \E i \in DOMAIN ClonePlaylist : ClonePlaylist[i] = <<f>>
  /\ \A f \in {"override", "inlineManifest", "displayAt", "contentRating", "contentReasons"} :
       \E i \in DOMAIN ClonePlaylist : ClonePlaylist[i] = <<"items", f>>
<1> DEFINE s == << <<"items">>, <<"signatures">>, <<"curators">>, <<"links">>, <<"defaults">>,
                   <<"dynamicQuery">> >>
           t == << <<"items", "override">>, <<"items", "inlineManifest">>,
                   <<"items", "displayAt">>, <<"items", "contentRating">>,
                   <<"items", "contentReasons">> >>
<1>1. Below(<<>>, PlaylistFields) = s
  BY DEF Below, PlaylistFields
<1>2. Below(<<"items">>, ItemFields) = t
  BY DEF Below, ItemFields
<1>3. {"items", "signatures", "curators", "links", "defaults", "dynamicQuery", "override",
       "inlineManifest", "displayAt", "contentRating", "contentReasons"} \subseteq Field
  BY FieldsCloned
<1>4. \A f, g \in Field : <<f>> \in Path /\ <<f, g>> \in Path
  BY DEF Path
<1>5. s \in Seq(Path) /\ Len(s) = 6
  <2>1. /\ <<"items">> \in Path /\ <<"signatures">> \in Path /\ <<"curators">> \in Path
        /\ <<"links">> \in Path /\ <<"defaults">> \in Path /\ <<"dynamicQuery">> \in Path
    BY <1>3, <1>4
  <2> QED BY <2>1, SixPaths, Zenon
<1>6. t \in Seq(Path) /\ Len(t) = 5
  <2>1. /\ <<"items", "override">> \in Path /\ <<"items", "inlineManifest">> \in Path
        /\ <<"items", "displayAt">> \in Path /\ <<"items", "contentRating">> \in Path
        /\ <<"items", "contentReasons">> \in Path
    BY <1>3, <1>4
  <2> QED BY <2>1, FivePaths, Zenon
<1>7. ClonePlaylist = s \o t
  BY <1>1, <1>2 DEF ClonePlaylist
<1>8. /\ ClonePlaylist \in Seq(Path) /\ DOMAIN ClonePlaylist = 1 .. 11
      /\ \A i \in 1 .. 11 : ClonePlaylist[i] = IF i <= 6 THEN s[i] ELSE t[i - 6]
  <2> HIDE DEF s, t
  <2>1. /\ s \o t \in Seq(Path) /\ Len(s \o t) = Len(s) + Len(t)
        /\ \A i \in 1 .. Len(s) + Len(t) : (s \o t)[i] = IF i <= Len(s) THEN s[i] ELSE t[i - Len(s)]
    BY <1>5, <1>6, ConcatProperties
  <2>2. Len(s) = 6 /\ Len(s) + Len(t) = 11
    BY <1>5, <1>6
  <2>3. DOMAIN (s \o t) = 1 .. Len(s \o t)
    BY <2>1
  <2> QED BY <1>7, <2>1, <2>2, <2>3
<1>9. /\ ClonePlaylist[1] = <<"items">> /\ ClonePlaylist[2] = <<"signatures">>
      /\ ClonePlaylist[3] = <<"curators">> /\ ClonePlaylist[4] = <<"links">>
      /\ ClonePlaylist[5] = <<"defaults">> /\ ClonePlaylist[6] = <<"dynamicQuery">>
  BY <1>8
<1>10. /\ ClonePlaylist[7] = <<"items", "override">> /\ ClonePlaylist[8] = <<"items", "inlineManifest">>
       /\ ClonePlaylist[9] = <<"items", "displayAt">> /\ ClonePlaylist[10] = <<"items", "contentRating">>
       /\ ClonePlaylist[11] = <<"items", "contentReasons">>
  BY <1>8
<1>11. \A i \in 1 .. 11 :
         \/ i \in 1 .. 6 /\ (\E f \in Field : ClonePlaylist[i] = <<f>>)
         \/ i \in 7 .. 11 /\ (\E f \in Field : ClonePlaylist[i] = <<"items", f>>)
  <2>1. \A i \in 1 .. 11 : i \in {1, 2, 3, 4, 5, 6} \/ i \in {7, 8, 9, 10, 11}
    OBVIOUS
  <2>2. \A i \in {1, 2, 3, 4, 5, 6} : i \in 1 .. 6 /\ \E f \in Field : ClonePlaylist[i] = <<f>>
    BY <1>3, <1>9
  <2>3. \A i \in {7, 8, 9, 10, 11} : i \in 7 .. 11 /\ \E f \in Field : ClonePlaylist[i] = <<"items", f>>
    BY <1>3, <1>10
  <2> QED BY <2>1, <2>2, <2>3
<1> HIDE DEF s, t
<1>12. \A f \in {"items", "signatures", "curators", "links", "defaults", "dynamicQuery"} :
         \E i \in 1 .. 11 : ClonePlaylist[i] = <<f>>
  BY <1>9
<1>13. \A f \in {"override", "inlineManifest", "displayAt", "contentRating", "contentReasons"} :
         \E i \in 1 .. 11 : ClonePlaylist[i] = <<"items", f>>
  BY <1>10
<1>14. \A i \in 7 .. 11 : 1 \in 1 .. i - 1
  OBVIOUS
<1>15. \A i \in DOMAIN ClonePlaylist :
         \/ \E f \in Field : ClonePlaylist[i] = <<f>>
         \/ \E j \in 1 .. i - 1, f \in Field :
              ClonePlaylist[i] = <<"items", f>> /\ ClonePlaylist[j] = <<"items">>
  BY <1>8, <1>9, <1>11, <1>14
<1> QED BY <1>8, <1>12, <1>13, <1>15

LEMMA LeadsToSelf ==
  ASSUME NEW p \in Path
  PROVE  LeadsTo(p, p)
<1>1. Len(p) \in Nat /\ SubSeq(p, 1, Len(p)) = p
  BY WholePath DEF Path
<1> QED BY <1>1 DEF LeadsTo

LEMMA FirstField ==
  ASSUME NEW p \in Path, Len(p) > 0
  PROVE  SubSeq(p, 1, 1) = <<p[1]>> /\ (Len(p) = 1 => p = <<p[1]>>) /\ (Len(p) = 2 => p = <<p[1], p[2]>>)
<1>1. Len(p) \in Nat /\ 1 \in 0 .. Len(p) /\ \A i \in 1 .. Len(p) : p[i] \in Field
  BY DEF Path
<1>2. /\ SubSeq(p, 1, 1) \in Path /\ Len(SubSeq(p, 1, 1)) = 1
      /\ \A i \in 1 .. 1 : SubSeq(p, 1, 1)[i] = p[i]
  BY <1>1, Prefix
<1>3. \A f \in Field : <<f>> \in Path /\ Len(<<f>>) = 1 /\ <<f>>[1] = f
  BY DEF Path
<1>4. \A f, g \in Field : <<f, g>> \in Path /\ Len(<<f, g>>) = 2 /\ <<f, g>>[1] = f /\ <<f, g>>[2] = g
  BY DEF Path
<1>5. p[1] \in Field
  BY <1>1
<1>6. SubSeq(p, 1, 1) = <<p[1]>>
  <2>1. \A i \in 1 .. 1 : SubSeq(p, 1, 1)[i] = <<p[1]>>[i]
    BY <1>2, <1>3, <1>5
  <2>2. <<p[1]>> \in Path /\ Len(<<p[1]>>) = 1
    BY <1>3, <1>5
  <2>3. SubSeq(p, 1, 1) \in Path /\ Len(SubSeq(p, 1, 1)) = 1
    BY <1>2
  <2> DEFINE a == SubSeq(p, 1, 1)
             b == <<p[1]>>
  <2>4. a \in Path /\ b \in Path /\ Len(a) = Len(b) /\ \A i \in 1 .. Len(a) : a[i] = b[i]
    BY <2>1, <2>2, <2>3
  <2>5. a = b
    <3> HIDE DEF a, b
    <3> QED BY <2>4, SamePath
  <2> QED BY <2>5
<1>7. Len(p) = 1 => p = <<p[1]>>
  BY <1>6, WholePath
<1>8. ASSUME Len(p) = 2
      PROVE  p = <<p[1], p[2]>>
  <2>1. p[1] \in Field /\ p[2] \in Field
    BY <1>1, <1>8
  <2>2. /\ <<p[1], p[2]>> \in Path /\ Len(<<p[1], p[2]>>) = 2
        /\ <<p[1], p[2]>>[1] = p[1] /\ <<p[1], p[2]>>[2] = p[2]
    BY <1>4, <2>1
  <2>3. \A i \in 1 .. 2 : p[i] = <<p[1], p[2]>>[i]
    BY <2>2
  <2> QED BY <1>8, <2>2, <2>3, SamePath
<1> QED BY <1>6, <1>7, <1>8

LEMMA PromisedCovered ==
  ASSUME playlist \in Playlist, NEW p \in Parts, Promised(p), p \in Writable
  PROVE  Covered(p)
<1>1. p \in Path /\ Len(p) \in Nat /\ Len(p) > 0 /\ 1 \in 1 .. Len(p) /\ p \in playlist.has
  BY PlaylistType DEF Parts
<1>2. ~ Skipped(p)
  <2>1. p \notin playlist.empty
    BY DEF Promised, Writable
  <2> QED BY <1>1, <2>1 DEF Skipped, Has
<1>3. CASE p[1] \in {"curators", "links", "signatures", "dynamicQuery"}
  <2>1. TypeOf(p[1]) \in WholeTypes
    BY <1>3 DEF TypeOf, WholeTypes
  <2>2. LeadsTo(<<p[1]>>, p)
    BY <1>1, <2>1, WholeBelow, FirstField
  <2>3. \E i \in DOMAIN ClonePlaylist : ClonePlaylist[i] = <<p[1]>>
    BY <1>3, ClonePlaylistType
  <2> QED BY <1>2, <2>2, <2>3 DEF Covered
<1>4. CASE p[1] = "items"
  <2>1. \/ p = <<"items">>
        \/ /\ p[2] \in {"override", "inlineManifest", "displayAt", "contentRating", "contentReasons"}
           /\ p = <<"items", p[2]>>
    BY <1>1, <1>4, FirstField DEF Promised
  <2>2. \E i \in DOMAIN ClonePlaylist : ClonePlaylist[i] = p
    BY <2>1, ClonePlaylistType
  <2> QED BY <1>1, <1>2, <2>2, LeadsToSelf DEF Covered
<1>5. CASE p[1] = "defaults"
  <2>1. CASE p = <<"defaults">>
    <3>1. \E i \in DOMAIN ClonePlaylist : ClonePlaylist[i] = p
      BY <2>1, ClonePlaylistType
    <3> QED BY <1>1, <1>2, <3>1, LeadsToSelf DEF Covered
  <2>2. CASE p = <<"defaults", "display">>
    <3>1. Len(p) = 2 /\ p[2] = "display" /\ SubSeq(p, 1, 1) = <<"defaults">> /\ Len(<<"defaults">>) = 1
      BY <1>1, <2>2, FirstField
    <3>2. TypeAt(SubSeq(p, 1, 1)) = "Defaults"
      BY <1>1, <1>5, FieldAt DEF TypeOf
    <3>3. "display" \in Fields("Defaults")
      <4>1. CloneFields("Defaults") = <<"display">>
        BY DEF CloneFields
      <4>2. 1 \in DOMAIN <<"display">> /\ <<"display">>[1] = "display"
        OBVIOUS
      <4> QED BY <4>1, <4>2 DEF Fields
    <3>4. \A n \in 2 .. 2 : p[n] \in Fields(TypeAt(SubSeq(p, 1, n - 1)))
      BY <3>1, <3>2, <3>3
    <3>5. LeadsTo(<<"defaults">>, p)
      BY <3>1, <3>4 DEF LeadsTo
    <3>6. \E i \in DOMAIN ClonePlaylist : ClonePlaylist[i] = <<"defaults">>
      BY ClonePlaylistType
    <3> QED BY <1>2, <3>5, <3>6 DEF Covered
  <2> QED BY <1>5, <2>1, <2>2 DEF Promised
<1> QED BY <1>3, <1>4, <1>5 DEF Promised


-----------------------------------------------------------------------------
(***************************************************************************)
(* What a step leaves alone.                                               *)
(***************************************************************************)
LEMMA SamePlaylist ==
  ASSUME playlist' = playlist
  PROVE  /\ Parts' = Parts /\ CoveredParts' = CoveredParts
         /\ PromisedParts' = PromisedParts /\ Writable' = Writable
BY DEF Parts, CoveredParts, PromisedParts, Writable, Covered, Skipped, Has, Promised

LEMMA OwnFrame ==
  ASSUME playlist \in Playlist, NEW p \in playlist.has, NEW a, NEW b, NEW o,
         \A q \in Parts : a[o][q] = b[o][q]
  PROVE  Own(a, o, p) <=> Own(b, o, p)
<1>1. p \in Path /\ Len(p) \in Nat
  BY PlaylistType DEF Path
<1>2. \A n \in 1 .. Len(p) : SubSeq(p, 1, n) \in Parts
  BY <1>1, PrefixClosed
<1> QED BY <1>2 DEF Own

\* A step that leaves a goroutine's row and its call alone leaves its progress alone.
LEMMA ProgressFrame ==
  ASSUME playlist \in Playlist, NEW a, NEW b, NEW state, NEW g, NEW s,
         \A q \in Parts : a[g][q] = b[g][q],
         Progress(Parts, CoveredParts, a, state, g, s)
  PROVE  Progress(Parts, CoveredParts, b, state, g, s)
<1>1. \A p \in playlist.has : Own(a, g, p) <=> Own(b, g, p)
  BY OwnFrame
<1>2. CoveredParts \subseteq playlist.has /\ CoveredParts \subseteq Parts
      /\ \A p \in Parts : Above(p) \in playlist.has
  BY PlaylistType DEF CoveredParts, Parts
<1>3. InOrder(Parts, a, g, s) => InOrder(Parts, b, g, s)
  BY <1>1, <1>2 DEF InOrder
<1>4. CopiedOrDue(CoveredParts, a, g, s) => CopiedOrDue(CoveredParts, b, g, s)
  BY <1>1, <1>2 DEF CopiedOrDue
<1>5. (\A p \in CoveredParts : Own(a, g, p)) => \A p \in CoveredParts : Own(b, g, p)
  BY <1>1, <1>2
<1>6. (\A p \in Parts : a[g][p] = Receiver) => \A p \in Parts : b[g][p] = Receiver
  OBVIOUS
<1> QED BY <1>3, <1>4, <1>5, <1>6, Zenon DEF Progress

-----------------------------------------------------------------------------
(***************************************************************************)
(* New memory for a part whose place the goroutine has already copied.     *)
(***************************************************************************)
LEMMA CopyPoints ==
  ASSUME Typed, PointsApart, playlist' = playlist,
         NEW g \in Goroutine, NEW t \in Parts, Own(points, g, Above(t)), CopyPart(g, t)
  PROVE  /\ points' \in [Owner -> [Parts -> Owner]]
         /\ PointsApart'
         /\ \A o \in Owner \ {g} : \A q \in Parts : points'[o][q] = points[o][q]
         /\ \A q \in playlist.has : Own(points', g, q) <=> Own(points, g, q) \/ q = t
         /\ content' = [content EXCEPT ![g][t] =
                          IF Own(points, g, t) THEN content[g][t] ELSE content[Receiver][t]]
<1> DEFINE source == OwnerOf(g, t)
<1>1. playlist \in Playlist /\ g \in Owner /\ Receiver \in Owner /\ g # Receiver
      /\ points \in [Owner -> [Parts -> Owner]]
  BY CloneAssumption DEF Typed, Owner
<1>2. t \in Path /\ Len(t) > 0 /\ t \in playlist.has /\ Above(t) \in playlist.has
  BY <1>1, PlaylistType DEF Parts
<1>3. OwnerOf(g, Above(t)) = g
  BY <1>1, <1>2, Owners
<1>4. source = IF Own(points, g, t) THEN g ELSE Receiver
  BY <1>1, <1>2, Owners
<1>5. points' = [o \in Owner |-> [q \in Parts |->
                  IF o = g /\ q = t THEN g
                  ELSE IF o = g /\ Above(q) = t THEN points[source][q]
                  ELSE points[o][q]]]
  BY <1>3 DEF CopyPart
<1>6. content' = [content EXCEPT ![g][t] = content[source][t]]
  BY DEF CopyPart
<1> HIDE DEF source
<1>7. source \in {g, Receiver} /\ source \in Owner
  BY <1>1, <1>4
<1>8. points' \in [Owner -> [Parts -> Owner]]
  BY <1>1, <1>5, <1>7
<1>9. \A o \in Owner \ {g} : \A q \in Parts : points'[o][q] = points[o][q]
  BY <1>5
<1>10. \A q \in Parts : points'[g][q] = IF q = t THEN g
                                        ELSE IF Above(q) = t THEN points[source][q] ELSE points[g][q]
  BY <1>1, <1>5
<1>11. Parts' = Parts
  BY SamePlaylist
<1>12. PointsApart'
  <2>1. SUFFICES ASSUME NEW p \in Parts
                 PROVE  /\ points'[Receiver][p] = Receiver
                        /\ \A h \in Goroutine : points'[h][p] \in {h, Receiver}
    BY <1>11 DEF PointsApart
  <2>2. points[Receiver][p] = Receiver /\ \A h \in Goroutine : points[h][p] \in {h, Receiver}
    BY DEF PointsApart
  <2>3. points'[Receiver][p] = Receiver
    BY <1>1, <1>9, <2>2
  <2>4. points'[g][p] \in {g, Receiver}
    BY <1>7, <1>10, <2>2
  <2>5. \A h \in Goroutine \ {g} : points'[h][p] \in {h, Receiver}
    BY <1>9, <2>2 DEF Owner
  <2> QED BY <2>3, <2>4, <2>5
\* Down to any part of the receiver nothing but t changes hands.
<1>13. ASSUME NEW q \in Parts
       PROVE  Own(points', g, q) <=> Own(points, g, q) \/ q = t
  <2> DEFINE upTo(n) == SubSeq(q, 1, n)
             S == { n \in Nat : n <= Len(q) =>
                      (Own(points', g, upTo(n)) <=> Own(points, g, upTo(n)) \/ upTo(n) = t) }
  <2>1. q \in Path /\ Len(q) \in Nat /\ q \in playlist.has
    BY <1>1, PlaylistType DEF Parts
  <2>2. 0 \in S
    <3>1. Len(upTo(0)) = 0
      BY <2>1, Prefix
    <3> HIDE DEF upTo
    <3> QED BY <3>1, OwnRoot
  <2>3. ASSUME NEW n \in Nat, n \in S
        PROVE  n + 1 \in S
    <3>1. SUFFICES ASSUME n + 1 <= Len(q)
                   PROVE  Own(points', g, upTo(n + 1)) <=> Own(points, g, upTo(n + 1)) \/ upTo(n + 1) = t
      OBVIOUS
    <3>2. n + 1 \in 1 .. Len(q) /\ n + 1 \in 0 .. Len(q) /\ (n + 1) - 1 = n /\ n <= Len(q) /\ n + 1 > 0
      BY <2>1, <3>1
    <3>3. upTo(n + 1) \in Parts /\ Above(upTo(n + 1)) = upTo(n)
      BY <1>1, <2>1, <3>2, PrefixClosed, AbovePrefix
    <3>4. Own(points', g, upTo(n + 1)) <=> Own(points', g, upTo(n)) /\ points'[g][upTo(n + 1)] = g
      BY <2>1, <3>2, OwnNext
    <3>5. Own(points, g, upTo(n + 1)) <=> Own(points, g, upTo(n)) /\ points[g][upTo(n + 1)] = g
      BY <2>1, <3>2, OwnNext
    <3>6. Own(points', g, upTo(n)) <=> Own(points, g, upTo(n)) \/ upTo(n) = t
      BY <2>3, <3>2
    <3>7. CASE upTo(n + 1) = t
      <4>1. Own(points, g, upTo(n))
        BY <3>3, <3>7
      <4>2. points'[g][upTo(n + 1)] = g
        BY <1>10, <3>3, <3>7
      <4> HIDE DEF upTo
      <4> QED BY <3>4, <3>6, <3>7, <4>1, <4>2
    <3>8. CASE upTo(n + 1) # t /\ upTo(n) # t
      <4>1. points'[g][upTo(n + 1)] = points[g][upTo(n + 1)]
        BY <1>10, <3>3, <3>8
      <4> HIDE DEF upTo
      <4> QED BY <3>4, <3>5, <3>6, <3>8, <4>1
    <3>9. CASE upTo(n + 1) # t /\ upTo(n) = t
      <4>1. points'[g][upTo(n + 1)] = points[source][upTo(n + 1)]
        BY <1>10, <3>3, <3>9
      <4>2. points[Receiver][upTo(n + 1)] = Receiver
        BY <3>3 DEF PointsApart
      <4> HIDE DEF upTo
      <4> QED BY <1>1, <1>4, <3>4, <3>5, <3>6, <3>9, <4>1, <4>2
    <3> QED BY <3>7, <3>8, <3>9
  <2>4. Len(q) \in S
    <3> HIDE DEF S
    <3> QED BY <2>1, <2>2, <2>3, SetInduction
  <2>5. upTo(Len(q)) = q
    BY <2>1, WholePath
  <2>6. Own(points', g, upTo(Len(q))) <=> Own(points, g, upTo(Len(q))) \/ upTo(Len(q)) = t
    BY <2>1, <2>4
  <2> HIDE DEF upTo
  <2> QED BY <2>5, <2>6
<1>14. \A q \in playlist.has : Own(points', g, q) <=> Own(points, g, q) \/ q = t
  <2>1. Len(<<>>) = 0
    OBVIOUS
  <2>2. Own(points', g, <<>>) /\ Own(points, g, <<>>)
    BY <2>1, OwnRoot
  <2> QED BY <1>13, <2>2 DEF Parts
<1>15. content' = [content EXCEPT ![g][t] =
                     IF Own(points, g, t) THEN content[g][t] ELSE content[Receiver][t]]
  BY <1>4, <1>6
<1> QED BY <1>8, <1>9, <1>12, <1>14, <1>15

\* What is left to show of a step of one goroutine.
LEMMA OthersProgress ==
  ASSUME Typed, CloneProgress, playlist' = playlist, NEW g \in Goroutine,
         \A h \in Goroutine \ {g} : /\ pc'[h] = pc[h] /\ todo'[h] = todo[h]
                                    /\ \A q \in Parts : points'[h][q] = points[h][q],
         Progress(Parts, CoveredParts, points', pc'[g], g, todo'[g])
  PROVE  CloneProgress'
<1>1. Parts' = Parts /\ CoveredParts' = CoveredParts /\ playlist \in Playlist
  BY SamePlaylist DEF Typed
<1>2. ASSUME NEW h \in Goroutine \ {g}
      PROVE  Progress(Parts, CoveredParts, points', pc'[h], h, todo'[h])
  <2>1. Progress(Parts, CoveredParts, points, pc[h], h, todo[h])
    BY DEF CloneProgress
  <2>2. Progress(Parts, CoveredParts, points', pc[h], h, todo[h])
    BY <1>1, <1>2, <2>1, ProgressFrame
  <2> QED BY <1>2, <2>2
<1>3. \A h \in Goroutine : Progress(Parts, CoveredParts, points', pc'[h], h, todo'[h])
  BY <1>2
<1> QED BY <1>1, <1>3 DEF CloneProgress

LEMMA OthersKept ==
  ASSUME Typed, OwnKept, playlist' = playlist, NEW g \in Goroutine,
         \A h \in Goroutine \ {g} : /\ pc'[h] = pc[h] /\ content'[h] = content[h]
                                    /\ wrote'[h] = wrote[h] /\ seen'[h] = seen[h]
                                    /\ \A q \in Parts : points'[h][q] = points[h][q],
         \A p \in PromisedParts : pc'[g] \in {"clone", "returned"} /\ Own(points', g, p) =>
           content'[g][p] = IF wrote'[g] = p THEN g ELSE seen'[g][p]
  PROVE  OwnKept'
<1>1. PromisedParts' = PromisedParts /\ playlist \in Playlist
  BY SamePlaylist DEF Typed
<1>2. ASSUME NEW h \in Goroutine, NEW p \in PromisedParts,
             pc'[h] \in {"clone", "returned"}, Own(points', h, p)
      PROVE  content'[h][p] = IF wrote'[h] = p THEN h ELSE seen'[h][p]
  <2>1. CASE h = g
    BY <1>2, <2>1
  <2>2. CASE h # g
    <3>1. p \in playlist.has
      BY DEF PromisedParts, Parts
    <3>2. Own(points', h, p) <=> Own(points, h, p)
      BY <1>1, <2>2, <3>1, OwnFrame
    <3>3. pc[h] \in {"clone", "returned"} /\ content'[h] = content[h]
          /\ wrote'[h] = wrote[h] /\ seen'[h] = seen[h]
      BY <1>2, <2>2
    <3>4. content[h][p] = IF wrote[h] = p THEN h ELSE seen[h][p]
      BY <1>2, <3>2, <3>3 DEF OwnKept
    <3> QED BY <3>3, <3>4
  <2> QED BY <2>1, <2>2
<1> QED BY <1>1, <1>2 DEF OwnKept

-----------------------------------------------------------------------------
(***************************************************************************)
(* The invariant holds at first, and each step keeps it.                   *)
(***************************************************************************)
LEMMA InitIInv == Init => IInv
<1> SUFFICES ASSUME Init PROVE IInv
  OBVIOUS
<1>1. None \notin Parts /\ Receiver \in Owner /\ Goroutine \subseteq Owner
  BY PlaylistType DEF Init, Owner
<1>2. Typed
  <2>1. <<>> \in Seq(Path \ {<<>>})
    OBVIOUS
  <2> QED BY <1>1, <2>1 DEF Init, Typed
<1>3. PointsApart
  BY <1>1 DEF Init, PointsApart
<1>4. CloneProgress
  BY <1>1 DEF Init, CloneProgress, Progress
<1>5. ReadOnlyKept
  BY DEF Init, ReadOnlyKept, Writable
<1>6. WritersHave
  BY <1>1 DEF Init, WritersHave
<1>7. ReceiverKept
  <2>1. ASSUME NEW p \in PromisedParts
        PROVE  p \in Parts /\ None # p
    BY <1>1 DEF PromisedParts
  <2> QED BY <1>1, <2>1 DEF Init, ReceiverKept
<1>8. OwnKept
  BY DEF Init, OwnKept
<1> QED BY <1>2, <1>3, <1>4, <1>5, <1>6, <1>7, <1>8 DEF IInv

LEMMA ResolveIInv ==
  ASSUME IInv, NEW g \in Goroutine, Resolve(g)
  PROVE  IInv'
<1> USE DEF IInv
<1>1. playlist \in Playlist /\ playlist' = playlist /\ g \in Owner /\ Receiver \in Owner /\ g # Receiver
  BY CloneAssumption DEF Typed, Owner, Resolve
<1>2. /\ Parts' = Parts /\ PromisedParts' = PromisedParts /\ Writable' = Writable
      /\ PromisedParts \subseteq Parts
  BY <1>1, SamePlaylist DEF PromisedParts
<1>3. /\ pc[g] = "start" /\ content' = content /\ wrote' = wrote
      /\ pc'   = [pc EXCEPT ![g] = "clone"]
      /\ todo' = [todo EXCEPT ![g] = ClonePlaylist]
      /\ points' = [points EXCEPT ![g] =
                      [p \in Parts |-> IF Len(p) = 1 THEN points[Receiver][p] ELSE points[g][p]]]
      /\ seen' = [seen EXCEPT ![g] = [p \in Parts |-> Sees(Receiver, p)]]
  BY DEF Resolve
<1>4. \A p \in Parts : points[Receiver][p] = Receiver /\ points[g][p] = Receiver
  BY <1>3 DEF PointsApart, CloneProgress, Progress
<1>5. \A p \in Parts : Sees(Receiver, p) = content[Receiver][p]
  <2>1. \A p \in Parts : OwnerOf(Receiver, p) = Receiver
    BY <1>1, Owners DEF Parts
  <2> QED BY <2>1 DEF Sees
<1>6. /\ points' \in [Owner -> [Parts -> Owner]] /\ seen' \in [Goroutine -> [Parts -> Owner \cup {Original}]]
      /\ \A o \in Owner : \A p \in Parts : points'[o][p] = points[o][p]
      /\ \A p \in Parts : seen'[g][p] = content[Receiver][p]
      /\ \A h \in Goroutine \ {g} : seen'[h] = seen[h]
  <2>1. points' \in [Owner -> [Parts -> Owner]]
        /\ \A o \in Owner : \A p \in Parts : points'[o][p] = points[o][p]
    BY <1>1, <1>3, <1>4 DEF Typed
  <2>2. \A p \in Parts : Sees(Receiver, p) \in Owner \cup {Original}
    BY <1>1, <1>5 DEF Typed
  <2>3. /\ seen' \in [Goroutine -> [Parts -> Owner \cup {Original}]]
        /\ \A h \in Goroutine \ {g} : seen'[h] = seen[h]
        /\ \A p \in Parts : seen'[g][p] = content[Receiver][p]
    BY <1>3, <1>5, <2>2 DEF Typed
  <2> QED BY <2>1, <2>3
<1>7. ClonePlaylist \in Seq(Path \ {<<>>})
  <2>1. ASSUME NEW i \in DOMAIN ClonePlaylist
        PROVE  ClonePlaylist[i] \in Path \ {<<>>}
    <3>1. ClonePlaylist[i] \in Path
      BY ClonePlaylistType
    <3>2. \A f : <<f>> # <<>> /\ <<"items", f>> # <<>>
      OBVIOUS
    <3>3. ClonePlaylist[i] # <<>>
      BY <3>2, ClonePlaylistType
    <3> QED BY <3>1, <3>3
  <2>2. ClonePlaylist \in Seq(Path)
    BY ClonePlaylistType
  <2> QED BY <2>1, <2>2
<1>8. Typed'
  BY <1>1, <1>2, <1>3, <1>6, <1>7 DEF Typed
<1>9. PointsApart'
  BY <1>1, <1>2, <1>6 DEF PointsApart, Owner
<1>10. CloneProgress'
  <2>1. InOrder(Parts, points', g, ClonePlaylist)
    <3>1. ASSUME NEW f \in Field
          PROVE  Len(Above(<<f>>)) = 0 /\ Above(<<"items", f>>) = <<"items">>
      <4>1. Above(<<f>>) = SubSeq(<<f>>, 1, 0) /\ Above(<<"items", f>>) = SubSeq(<<"items", f>>, 1, 1)
        BY DEF Above
      <4>2. <<f>> \in Path /\ <<"items", f>> \in Path
        BY FieldsCloned DEF Path
      <4>3. <<"items", f>>[1] = "items" /\ Len(<<"items", f>>) = 2 /\ Len(<<f>>) = 1
        OBVIOUS
      <4>4. SubSeq(<<"items", f>>, 1, 1) = <<"items">>
        BY <4>2, <4>3, FirstField
      <4>5. Len(SubSeq(<<f>>, 1, 0)) = 0
        BY <4>2, <4>3, Prefix
      <4> QED BY <4>1, <4>4, <4>5
    <3>2. ASSUME NEW i \in DOMAIN ClonePlaylist, ClonePlaylist[i] \in Parts
          PROVE  \/ Own(points', g, Above(ClonePlaylist[i]))
                 \/ \E j \in 1 .. i - 1 : ClonePlaylist[j] = Above(ClonePlaylist[i])
      <4>1. CASE \E f \in Field : ClonePlaylist[i] = <<f>>
        BY <3>1, <4>1, OwnRoot
      <4>2. CASE \E j \in 1 .. i - 1, f \in Field :
                   ClonePlaylist[i] = <<"items", f>> /\ ClonePlaylist[j] = <<"items">>
        BY <3>1, <4>2
      <4> QED BY <4>1, <4>2, ClonePlaylistType
    <3> QED BY <3>2 DEF InOrder
  <2>2. CopiedOrDue(CoveredParts, points', g, ClonePlaylist)
    BY DEF CopiedOrDue, CoveredParts, Covered
  <2>3. pc'[g] = "clone" /\ todo'[g] = ClonePlaylist
    BY <1>3 DEF Typed
  <2>4. Progress(Parts, CoveredParts, points', pc'[g], g, todo'[g])
    BY <2>1, <2>2, <2>3 DEF Progress
  <2>5. \A h \in Goroutine \ {g} : pc'[h] = pc[h] /\ todo'[h] = todo[h]
    BY <1>3 DEF Typed
  <2> QED BY <1>1, <1>6, <2>4, <2>5, OthersProgress DEF Owner
<1>11. ReadOnlyKept'
  BY <1>1, <1>2, <1>3, <1>6 DEF ReadOnlyKept
<1>12. WritersHave'
  BY <1>2, <1>3 DEF WritersHave, Typed
<1>13. ReceiverKept'
  BY <1>2, <1>3, <1>6 DEF ReceiverKept, Typed
<1>14. OwnKept'
  <2>1. ASSUME NEW p \in PromisedParts
        PROVE  ~ Own(points', g, p)
    <3>1. p \in Path /\ Len(p) > 0
      BY <1>1, <1>2, PlaylistType DEF Parts
    <3>2. points'[g][p] # g
      BY <1>1, <1>2, <1>4, <1>6
    <3> QED BY <3>1, <3>2, OwnAbove
  <2>2. \A h \in Goroutine \ {g} : /\ pc'[h] = pc[h] /\ content'[h] = content[h]
                                   /\ wrote'[h] = wrote[h] /\ seen'[h] = seen[h]
    BY <1>3, <1>6 DEF Typed
  <2> QED BY <1>1, <1>6, <2>1, <2>2, OthersKept DEF Owner
<1> QED BY <1>8, <1>9, <1>10, <1>11, <1>12, <1>13, <1>14

\* Nothing that leads to a part which is copied is skipped.
LEMMA NotSkippedAbove ==
  ASSUME playlist \in Playlist, NEW p \in CoveredParts, NEW t \in Path \ {<<>>}, LeadsTo(t, p)
  PROVE  ~ Skipped(t)
<1>1. p \in playlist.has /\ p \in Path /\ Len(p) \in Nat /\ Len(t) \in Nat /\ ~ Skipped(p)
  BY PlaylistType DEF CoveredParts, Parts, Covered, Path
<1>2. Len(t) \in 0 .. Len(p) /\ SubSeq(p, 1, Len(t)) = t
  BY <1>1 DEF LeadsTo
<1>3. CASE Len(t) = Len(p)
  <2>1. t = p
    BY <1>1, <1>2, <1>3, WholePath
  <2> QED BY <1>1, <2>1
<1>4. CASE Len(t) < Len(p)
  <2>1. SubSeq(p, 1, Len(t)) \in playlist.has /\ SubSeq(p, 1, Len(t)) \notin playlist.empty
    BY <1>1, <1>2, <1>4, PrefixClosed
  <2> QED BY <1>2, <2>1 DEF Skipped, Has
<1> QED BY <1>1, <1>2, <1>3, <1>4

LEMMA TailOf ==
  ASSUME NEW s \in Seq(Path \ {<<>>}), s # <<>>
  PROVE  /\ Head(s) = s[1] /\ 1 \in DOMAIN s /\ s[1] \in Path \ {<<>>} /\ Len(s) \in Nat
         /\ Tail(s) \in Seq(Path \ {<<>>}) /\ DOMAIN s = 1 .. Len(s)
         /\ DOMAIN Tail(s) = 1 .. Len(s) - 1 /\ Len(Tail(s)) = Len(s) - 1
         /\ \A i \in 1 .. Len(s) - 1 : Tail(s)[i] = s[i + 1]
<1>1. Len(s) \in Nat /\ Len(s) # 0 /\ DOMAIN s = 1 .. Len(s)
  BY EmptySeq
<1>2. Head(s) = s[1] /\ 1 \in DOMAIN s /\ s[1] \in Path \ {<<>>}
  BY <1>1
<1>3. /\ Tail(s) \in Seq(Path \ {<<>>}) /\ Len(Tail(s)) = Len(s) - 1
      /\ \A i \in 1 .. Len(s) - 1 : Tail(s)[i] = s[i + 1]
  BY HeadTailProperties
<1>4. DOMAIN Tail(s) = 1 .. Len(s) - 1
  BY <1>1, <1>3
<1> QED BY <1>1, <1>2, <1>3, <1>4

LEMMA SkipIInv ==
  ASSUME IInv, NEW g \in Goroutine, Skip(g)
  PROVE  IInv'
<1> USE DEF IInv
<1> DEFINE s == todo[g]
<1>1. /\ playlist \in Playlist /\ playlist' = playlist /\ points' = points /\ content' = content
      /\ pc' = pc /\ wrote' = wrote /\ seen' = seen /\ pc[g] = "clone"
      /\ s \in Seq(Path \ {<<>>}) /\ s # <<>> /\ Skipped(Head(s))
      /\ todo' = [todo EXCEPT ![g] = Tail(s)]
  BY DEF Skip, Typed
<1>2. /\ Parts' = Parts /\ PromisedParts' = PromisedParts /\ Writable' = Writable
  BY <1>1, SamePlaylist
<1>3. /\ Head(s) = s[1] /\ s[1] \in Path \ {<<>>} /\ Len(s) \in Nat
      /\ Tail(s) \in Seq(Path \ {<<>>}) /\ DOMAIN s = 1 .. Len(s) /\ DOMAIN Tail(s) = 1 .. Len(s) - 1
      /\ \A i \in 1 .. Len(s) - 1 : Tail(s)[i] = s[i + 1]
  <2> HIDE DEF s
  <2> QED BY <1>1, TailOf
<1>4. Typed'
  BY <1>1, <1>2, <1>3 DEF Typed
<1>5. InOrder(Parts, points, g, s) /\ CopiedOrDue(CoveredParts, points, g, s)
  BY <1>1 DEF CloneProgress, Progress
<1> HIDE DEF s
<1>6. InOrder(Parts, points, g, Tail(s))
  <2>1. SUFFICES ASSUME NEW i \in 1 .. Len(s) - 1, s[i + 1] \in Parts, ~ Own(points, g, Above(s[i + 1]))
                 PROVE  \E j \in 1 .. i - 1 : Tail(s)[j] = Above(s[i + 1])
    BY <1>3 DEF InOrder
  <2>2. i + 1 \in DOMAIN s /\ i \in Nat
    BY <1>3
  <2>3. PICK j \in 1 .. (i + 1) - 1 : s[j] = Above(s[i + 1])
    BY <1>5, <2>1, <2>2 DEF InOrder
  <2>4. ~ Skipped(Above(s[i + 1]))
    BY <1>1, <2>1, PlaylistType DEF Skipped, Has
  <2>5. j # 1
    BY <1>1, <1>3, <2>3, <2>4
  <2>6. j - 1 \in 1 .. i - 1 /\ j - 1 \in 1 .. Len(s) - 1 /\ (j - 1) + 1 = j
    BY <1>3, <2>2, <2>5
  <2> QED BY <1>3, <2>3, <2>6
<1>7. CopiedOrDue(CoveredParts, points, g, Tail(s))
  <2>1. SUFFICES ASSUME NEW p \in CoveredParts, ~ Own(points, g, p)
                 PROVE  \E i \in DOMAIN Tail(s) : LeadsTo(Tail(s)[i], p)
    BY DEF CopiedOrDue
  <2>2. PICK i \in DOMAIN s : LeadsTo(s[i], p)
    BY <1>5, <2>1 DEF CopiedOrDue
  <2>3. i # 1
    BY <1>1, <1>3, <2>2, NotSkippedAbove
  <2>4. i - 1 \in 1 .. Len(s) - 1 /\ (i - 1) + 1 = i
    BY <1>3, <2>3
  <2> QED BY <1>3, <2>2, <2>4
<1>8. CloneProgress'
  <2>1. pc'[g] = "clone" /\ todo'[g] = Tail(s)
    BY <1>1 DEF Typed
  <2>2. Progress(Parts, CoveredParts, points', pc'[g], g, todo'[g])
    BY <1>1, <1>6, <1>7, <2>1 DEF Progress
  <2>3. \A h \in Goroutine \ {g} : /\ pc'[h] = pc[h] /\ todo'[h] = todo[h]
                                   /\ \A q \in Parts : points'[h][q] = points[h][q]
    BY <1>1 DEF Typed
  <2> QED BY <1>1, <2>2, <2>3, OthersProgress
<1>9. PointsApart' /\ ReadOnlyKept' /\ WritersHave' /\ ReceiverKept' /\ OwnKept'
  <2>1. PointsApart'
    BY <1>1, <1>2 DEF PointsApart
  <2>2. ReadOnlyKept'
    BY <1>1, <1>2 DEF ReadOnlyKept
  <2>3. WritersHave'
    BY <1>1, <1>2 DEF WritersHave
  <2>4. ReceiverKept'
    BY <1>1, <1>2 DEF ReceiverKept
  <2>5. OwnKept'
    BY <1>1, <1>2 DEF OwnKept
  <2> QED BY <2>1, <2>2, <2>3, <2>4, <2>5
<1> QED BY <1>4, <1>8, <1>9

\* The fields of a part that is copied come next.
LEMMA BelowOf ==
  ASSUME NEW t \in Path, NEW T
  PROVE  /\ DOMAIN Below(t, CloneFields(T)) = DOMAIN CloneFields(T)
         /\ \A i \in DOMAIN CloneFields(T) :
              /\ CloneFields(T)[i] \in Field
              /\ Below(t, CloneFields(T))[i] = Append(t, CloneFields(T)[i])
         /\ Below(t, CloneFields(T)) \in Seq(Path \ {<<>>})
<1>1. \A i \in DOMAIN CloneFields(T) : CloneFields(T)[i] \in Field
  BY FieldsCloned DEF Fields
<1>2. PICK k \in Nat : DOMAIN CloneFields(T) = 1 .. k
  <2>1. \A a, b, c, d : /\ DOMAIN <<a>> = 1 .. 1 /\ DOMAIN <<a, b>> = 1 .. 2
                        /\ DOMAIN <<a, b, c, d>> = 1 .. 4 /\ DOMAIN <<>> = 1 .. 0
    OBVIOUS
  <2> QED BY <2>1 DEF CloneFields, CloneEntity, CloneLink, CloneThumbnail
<1>3. \A i \in 1 .. k : Append(t, CloneFields(T)[i]) \in Path \ {<<>>}
  <2>1. ASSUME NEW f \in Field
        PROVE  Append(t, f) \in Path \ {<<>>}
    <3>1. Append(t, f) \in Path /\ Len(Append(t, f)) = Len(t) + 1 /\ Len(t) \in Nat
      BY AboveAppended DEF Path
    <3> QED BY <3>1
  <2> QED BY <1>1, <1>2, <2>1
<1>4. Below(t, CloneFields(T)) = [i \in 1 .. k |-> Append(t, CloneFields(T)[i])]
  BY <1>2 DEF Below
<1>5. Below(t, CloneFields(T)) \in Seq(Path \ {<<>>})
  BY <1>2, <1>3, <1>4
<1> QED BY <1>1, <1>2, <1>4, <1>5

LEMMA CloneIInv ==
  ASSUME IInv, NEW g \in Goroutine, Clone(g)
  PROVE  IInv'
<1> USE DEF IInv
<1> DEFINE s == todo[g]
           t == Head(s)
           fields == Below(t, CloneFields(TypeAt(t)))
           next == fields \o Tail(s)
<1>1. /\ playlist \in Playlist /\ playlist' = playlist /\ pc' = pc /\ wrote' = wrote /\ seen' = seen
      /\ pc[g] = "clone" /\ wrote[g] = None
      /\ s \in Seq(Path \ {<<>>}) /\ s # <<>> /\ ~ Skipped(t)
      /\ CopyPart(g, t) /\ todo' = [todo EXCEPT ![g] = next]
      /\ g \in Owner /\ Receiver \in Owner /\ g # Receiver
  BY CloneAssumption DEF Clone, Typed, WritersHave, Owner
<1>2. /\ Parts' = Parts /\ PromisedParts' = PromisedParts /\ Writable' = Writable
      /\ PromisedParts \subseteq Parts /\ CoveredParts \subseteq Parts
  BY <1>1, SamePlaylist DEF PromisedParts, CoveredParts
<1> HIDE DEF s
<1>3. /\ t = s[1] /\ 1 \in DOMAIN s /\ t \in Path \ {<<>>} /\ Len(s) \in Nat
      /\ Tail(s) \in Seq(Path \ {<<>>}) /\ DOMAIN s = 1 .. Len(s) /\ DOMAIN Tail(s) = 1 .. Len(s) - 1
      /\ Len(Tail(s)) = Len(s) - 1
      /\ \A i \in 1 .. Len(s) - 1 : Tail(s)[i] = s[i + 1]
  BY <1>1, TailOf
<1> HIDE DEF t
<1>4. t \in Parts
  BY <1>1, <1>3 DEF Skipped, Has, Parts
<1>5. /\ DOMAIN fields = DOMAIN CloneFields(TypeAt(t)) /\ fields \in Seq(Path \ {<<>>})
      /\ \A i \in DOMAIN CloneFields(TypeAt(t)) :
           /\ CloneFields(TypeAt(t))[i] \in Field
           /\ fields[i] = Append(t, CloneFields(TypeAt(t))[i])
  BY <1>3, BelowOf
<1> DEFINE k == Len(fields)
<1> HIDE DEF fields
<1>6. /\ next \in Seq(Path \ {<<>>}) /\ k \in Nat /\ DOMAIN fields = 1 .. k
      /\ DOMAIN next = 1 .. k + (Len(s) - 1)
      /\ \A i \in 1 .. k : next[i] = fields[i]
      /\ \A i \in 1 .. Len(s) - 1 : next[k + i] = s[i + 1]
  <2>1. /\ next \in Seq(Path \ {<<>>}) /\ Len(next) = k + Len(Tail(s))
        /\ \A i \in 1 .. k + Len(Tail(s)) : next[i] = IF i <= k THEN fields[i] ELSE Tail(s)[i - k]
    BY <1>3, <1>5, ConcatProperties
  <2>2. k \in Nat /\ DOMAIN fields = 1 .. k
    BY <1>5
  <2> HIDE DEF next, k
  <2>3. DOMAIN next = 1 .. k + (Len(s) - 1)
    BY <1>3, <2>1
  <2>4. \A i \in 1 .. k : next[i] = fields[i]
    BY <1>3, <2>1, <2>2
  <2>5. ASSUME NEW i \in 1 .. Len(s) - 1
        PROVE  next[k + i] = s[i + 1]
    <3>1. k + i \in 1 .. k + Len(Tail(s)) /\ ~ (k + i <= k) /\ (k + i) - k = i
      BY <1>3, <2>2
    <3> QED BY <1>3, <2>1, <3>1
  <2> QED BY <2>1, <2>2, <2>3, <2>4, <2>5
<1>7. InOrder(Parts, points, g, s) /\ CopiedOrDue(CoveredParts, points, g, s)
  BY <1>1 DEF CloneProgress, Progress, s
<1>8. Own(points, g, Above(t))
  <2>1. \A j \in 1 .. 1 - 1 : FALSE
    OBVIOUS
  <2> QED BY <1>3, <1>4, <1>7, <2>1 DEF InOrder
<1>9. /\ points' \in [Owner -> [Parts -> Owner]] /\ PointsApart'
      /\ \A o \in Owner \ {g} : \A q \in Parts : points'[o][q] = points[o][q]
      /\ \A q \in playlist.has : Own(points', g, q) <=> Own(points, g, q) \/ q = t
      /\ content' = [content EXCEPT ![g][t] =
                       IF Own(points, g, t) THEN content[g][t] ELSE content[Receiver][t]]
  <2>1. Typed /\ PointsApart
    OBVIOUS
  <2> QED BY <1>1, <1>4, <1>8, <2>1, CopyPoints
<1> HIDE DEF next, k
<1>10. /\ content' \in [Owner -> [Parts -> Owner \cup {Original}]]
       /\ \A o \in Owner \ {g} : content'[o] = content[o]
       /\ \A q \in Parts : content'[g][q] =
            IF q = t /\ ~ Own(points, g, t) THEN content[Receiver][t] ELSE content[g][q]
  <2>1. content \in [Owner -> [Parts -> Owner \cup {Original}]]
    BY DEF Typed
  <2> DEFINE c == IF Own(points, g, t) THEN content[g][t] ELSE content[Receiver][t]
  <2>2. c \in Owner \cup {Original}
    BY <1>1, <1>4, <2>1
  <2>3. content' = [content EXCEPT ![g][t] = c]
    BY <1>9
  <2>4. c = IF ~ Own(points, g, t) THEN content[Receiver][t] ELSE content[g][t]
    OBVIOUS
  <2> HIDE DEF c
  <2> QED BY <1>1, <1>4, <2>1, <2>2, <2>3, <2>4
<1>11. Typed'
  BY <1>1, <1>2, <1>6, <1>9, <1>10 DEF Typed
<1>12. InOrder(Parts, points', g, next)
  <2>1. SUFFICES ASSUME NEW i \in 1 .. k + (Len(s) - 1), next[i] \in Parts,
                        ~ Own(points', g, Above(next[i]))
                 PROVE  \E j \in 1 .. i - 1 : next[j] = Above(next[i])
    BY <1>6 DEF InOrder
  <2>2. Above(next[i]) \in playlist.has
    BY <1>1, <2>1, PlaylistType
  <2>3. ~ Own(points, g, Above(next[i])) /\ Above(next[i]) # t
    BY <1>9, <2>1, <2>2
  <2>4. ~ (i \in 1 .. k)
    <3>1. SUFFICES ASSUME i \in 1 .. k PROVE FALSE
      OBVIOUS
    <3>2. /\ CloneFields(TypeAt(t))[i] \in Field
          /\ next[i] = Append(t, CloneFields(TypeAt(t))[i])
      BY <1>5, <1>6, <3>1
    <3>3. Above(Append(t, CloneFields(TypeAt(t))[i])) = t
      BY <1>3, <3>2, AboveAppended
    <3> QED BY <2>3, <3>2, <3>3
  <2>5. /\ i - k \in 1 .. Len(s) - 1 /\ k + (i - k) = i /\ (i - k) + 1 \in 1 .. Len(s)
        /\ ((i - k) + 1) - 1 = i - k
    BY <1>3, <1>6, <2>4
  <2>6. next[i] = s[(i - k) + 1]
    BY <1>6, <2>5
  <2>7. PICK j \in 1 .. i - k : s[j] = Above(next[i])
    BY <1>3, <1>7, <2>1, <2>3, <2>5, <2>6 DEF InOrder
  <2>8. j # 1
    BY <1>3, <2>3, <2>7
  <2>9. j - 1 \in 1 .. Len(s) - 1 /\ k + (j - 1) \in 1 .. i - 1 /\ (j - 1) + 1 = j
    <3>1. Len(s) \in Nat /\ k \in Nat /\ i \in Nat /\ j \in Nat /\ 1 <= j /\ j <= i - k
          /\ i <= k + (Len(s) - 1)
      BY <1>3, <1>6
    <3> QED BY <2>8, <3>1
  <2> QED BY <1>6, <2>7, <2>9
<1>13. CopiedOrDue(CoveredParts, points', g, next)
  <2>1. SUFFICES ASSUME NEW p \in CoveredParts, ~ Own(points', g, p)
                 PROVE  \E i \in DOMAIN next : LeadsTo(next[i], p)
    BY DEF CopiedOrDue
  <2>2. p \in Parts /\ p \in playlist.has /\ p \in Path /\ Len(p) \in Nat /\ Len(t) \in Nat
    BY <1>1, <1>2, <1>3, PlaylistType DEF Parts, Path
  <2>3. ~ Own(points, g, p) /\ p # t
    BY <1>9, <2>1, <2>2
  <2>4. PICK i \in DOMAIN s : LeadsTo(s[i], p)
    BY <1>7, <2>3 DEF CopiedOrDue
  <2>5. CASE i # 1
    <3>1. i - 1 \in 1 .. Len(s) - 1 /\ (i - 1) + 1 = i /\ k + (i - 1) \in 1 .. k + (Len(s) - 1)
      BY <1>3, <1>6, <2>5
    <3>2. next[k + (i - 1)] = s[i]
      BY <1>6, <3>1
    <3> QED BY <1>6, <2>4, <3>1, <3>2
  <2>6. CASE i = 1
    <3> DEFINE m == Len(t) + 1
               below == SubSeq(p, 1, m)
    <3>1. /\ Len(t) <= Len(p) /\ SubSeq(p, 1, Len(t)) = t
          /\ \A n \in Len(t) + 1 .. Len(p) : p[n] \in Fields(TypeAt(SubSeq(p, 1, n - 1)))
      BY <1>3, <2>4, <2>6 DEF LeadsTo
    <3>2. Len(t) # Len(p)
      BY <2>2, <2>3, <3>1, WholePath
    <3>3. m \in Len(t) + 1 .. Len(p) /\ m \in 1 .. Len(p) /\ m \in 0 .. Len(p) /\ m - 1 = Len(t)
      BY <2>2, <3>1, <3>2
    <3>4. p[m] \in Fields(TypeAt(t))
      BY <3>1, <3>3
    <3>5. PICK f \in DOMAIN CloneFields(TypeAt(t)) : CloneFields(TypeAt(t))[f] = p[m]
      BY <3>4 DEF Fields
    <3>6. below = Append(t, p[m])
      <4>1. below \in Path /\ Len(below) = m /\ m > 0
        BY <2>2, <3>3, Prefix
      <4>2. Above(below) = t /\ LastField(below) = p[m]
        BY <2>2, <3>1, <3>3, AbovePrefix
      <4> HIDE DEF below, m
      <4> QED BY <4>1, <4>2, Extended
    <3>7. f \in 1 .. k + (Len(s) - 1) /\ next[f] = below
      <4>1. f \in 1 .. k
        BY <1>5, <1>6, <3>5
      <4>2. next[f] = below
        BY <1>5, <1>6, <3>5, <3>6, <4>1
      <4> HIDE DEF below
      <4> QED BY <1>3, <1>6, <4>1, <4>2
    <3>8. LeadsTo(below, p)
      <4>1. Len(below) = m /\ m <= Len(p) /\ \A n \in m + 1 .. Len(p) : n \in Len(t) + 1 .. Len(p)
        BY <2>2, <3>3, Prefix
      <4>2. SubSeq(p, 1, Len(below)) = below
        BY <4>1
      <4>3. \A n \in Len(below) + 1 .. Len(p) : p[n] \in Fields(TypeAt(SubSeq(p, 1, n - 1)))
        BY <3>1, <4>1
      <4> HIDE DEF below, m
      <4> QED BY <4>1, <4>2, <4>3 DEF LeadsTo
    <3> QED BY <1>6, <3>7, <3>8
  <2> QED BY <2>5, <2>6
<1>14. CloneProgress'
  <2>1. pc'[g] = "clone" /\ todo'[g] = next
    BY <1>1 DEF Typed
  <2>2. Progress(Parts, CoveredParts, points', pc'[g], g, todo'[g])
    BY <1>12, <1>13, <2>1 DEF Progress
  <2>3. \A h \in Goroutine \ {g} : /\ pc'[h] = pc[h] /\ todo'[h] = todo[h]
                                   /\ \A q \in Parts : points'[h][q] = points[h][q]
    BY <1>1, <1>9 DEF Typed, Owner
  <2>4. Typed /\ CloneProgress
    OBVIOUS
  <2> QED BY <1>1, <2>2, <2>3, <2>4, OthersProgress
<1>15. ReadOnlyKept'
  <2>1. ASSUME NEW p \in Parts \ Writable
        PROVE  \A o \in Owner : content'[o][p] = Original
    <3>1. \A o \in Owner : content[o][p] = Original
      BY DEF ReadOnlyKept
    <3> QED BY <1>1, <1>10, <3>1
  <2> QED BY <1>1, <1>2, <2>1 DEF ReadOnlyKept
<1>16. WritersHave'
  BY <1>1, <1>2 DEF WritersHave
<1>17. ReceiverKept'
  <2>1. content'[Receiver] = content[Receiver]
    BY <1>1, <1>10
  <2> QED BY <1>1, <1>2, <2>1 DEF ReceiverKept
<1>18. OwnKept'
  <2>1. ASSUME NEW p \in PromisedParts, Own(points', g, p)
        PROVE  content'[g][p] = IF wrote'[g] = p THEN g ELSE seen'[g][p]
    <3>1. p \in Parts /\ p \in playlist.has /\ wrote[g] # p
      BY <1>1, <1>2, PlaylistType DEF Parts
    <3>2. CASE Own(points, g, p)
      <4>1. content'[g][p] = content[g][p]
        BY <1>10, <3>1, <3>2
      <4>2. content[g][p] = seen[g][p]
        BY <1>1, <3>1, <3>2 DEF OwnKept
      <4> QED BY <1>1, <3>1, <4>1, <4>2
    <3>3. CASE ~ Own(points, g, p)
      <4>1. p = t
        BY <1>9, <2>1, <3>1, <3>3
      <4>2. content'[g][p] = content[Receiver][p]
        BY <1>10, <3>1, <3>3, <4>1
      <4>3. seen[g][p] = content[Receiver][p]
        BY <1>1 DEF ReceiverKept
      <4> QED BY <1>1, <3>1, <4>2, <4>3
    <3> QED BY <3>2, <3>3
  <2>2. \A h \in Goroutine \ {g} : /\ pc'[h] = pc[h] /\ content'[h] = content[h]
                                   /\ wrote'[h] = wrote[h] /\ seen'[h] = seen[h]
                                   /\ \A q \in Parts : points'[h][q] = points[h][q]
    BY <1>1, <1>9, <1>10 DEF Owner
  <2>3. Typed /\ OwnKept
    OBVIOUS
  <2> QED BY <1>1, <2>1, <2>2, <2>3, OthersKept
<1> QED BY <1>9, <1>11, <1>14, <1>15, <1>16, <1>17, <1>18

\* With nothing left on the stack every part is copied.
LEMMA AllCopied ==
  ASSUME IInv, NEW g \in Goroutine, Cloned(g), NEW p \in CoveredParts
  PROVE  Own(points, g, p)
<1>1. CopiedOrDue(CoveredParts, points, g, todo[g])
  BY DEF IInv, CloneProgress, Progress, Cloned
<1>2. \A i \in DOMAIN todo[g] : FALSE
  BY DEF Cloned
<1> QED BY <1>1, <1>2 DEF CopiedOrDue

\* A call ends, and nothing else changes.
LEMMA EndIInv ==
  ASSUME IInv, NEW g \in Goroutine, ReturnClone(g) \/ QueryFails(g)
  PROVE  IInv'
<1> USE DEF IInv
<1>1. /\ playlist \in Playlist /\ playlist' = playlist /\ points' = points /\ content' = content
      /\ todo' = todo /\ wrote' = wrote /\ seen' = seen /\ Cloned(g) /\ pc[g] = "clone"
      /\ pc' \in [Goroutine -> {"start", "clone", "returned", "failed"}]
      /\ pc'[g] \in {"returned", "failed"} /\ \A h \in Goroutine \ {g} : pc'[h] = pc[h]
  BY DEF ReturnClone, QueryFails, Cloned, Typed
<1>2. Parts' = Parts /\ PromisedParts' = PromisedParts /\ Writable' = Writable
  BY <1>1, SamePlaylist
<1>3. Typed'
  BY <1>1, <1>2 DEF Typed
<1>4. PointsApart' /\ ReadOnlyKept'
  BY <1>1, <1>2 DEF PointsApart, ReadOnlyKept
<1>5. CloneProgress'
  <2>1. Progress(Parts, CoveredParts, points', pc'[g], g, todo'[g])
    BY <1>1, AllCopied DEF Progress
  <2>2. \A h \in Goroutine \ {g} : /\ pc'[h] = pc[h] /\ todo'[h] = todo[h]
                                   /\ \A q \in Parts : points'[h][q] = points[h][q]
    BY <1>1
  <2> QED BY <1>1, <2>1, <2>2, OthersProgress
<1>6. WritersHave'
  BY <1>1, <1>2 DEF WritersHave
<1>7. ReceiverKept'
  BY <1>1, <1>2 DEF ReceiverKept
<1>8. OwnKept'
  BY <1>1, <1>2 DEF OwnKept
<1> QED BY <1>3, <1>4, <1>5, <1>6, <1>7, <1>8

LEMMA AppendItemsIInv ==
  ASSUME IInv, NEW g \in Goroutine, AppendItems(g)
  PROVE  IInv'
<1> USE DEF IInv
<1> DEFINE t == <<"items">>
<1>1. /\ playlist \in Playlist /\ playlist' = playlist /\ content' = content
      /\ todo' = todo /\ wrote' = wrote /\ seen' = seen /\ Cloned(g) /\ pc[g] = "clone"
      /\ pc' \in [Goroutine -> {"start", "clone", "returned", "failed"}]
      /\ pc'[g] = "returned" /\ \A h \in Goroutine \ {g} : pc'[h] = pc[h]
      /\ points' = [points EXCEPT ![g] = [p \in Parts |-> IF p = t THEN g ELSE points[g][p]]]
      /\ g \in Owner /\ Receiver \in Owner /\ g # Receiver /\ wrote[g] = None
  BY CloneAssumption DEF AppendItems, Cloned, Typed, Owner, WritersHave
<1>2. /\ Parts' = Parts /\ PromisedParts' = PromisedParts /\ Writable' = Writable
      /\ PromisedParts \subseteq Parts /\ CoveredParts \subseteq Parts
  BY <1>1, SamePlaylist DEF PromisedParts, CoveredParts
<1>3. /\ points' \in [Owner -> [Parts -> Owner]]
      /\ \A o \in Owner \ {g} : \A q \in Parts : points'[o][q] = points[o][q]
      /\ \A q \in Parts : points'[g][q] = IF q = t THEN g ELSE points[g][q]
  BY <1>1 DEF Typed
<1>4. Typed'
  BY <1>1, <1>2, <1>3 DEF Typed
<1>5. PointsApart'
  <2>1. ASSUME NEW p \in Parts
        PROVE  /\ points'[Receiver][p] = Receiver
               /\ \A h \in Goroutine : points'[h][p] \in {h, Receiver}
    <3>1. points[Receiver][p] = Receiver /\ \A h \in Goroutine : points[h][p] \in {h, Receiver}
      BY DEF PointsApart
    <3> QED BY <1>1, <1>3, <3>1 DEF Owner
  <2> QED BY <1>2, <2>1 DEF PointsApart
\* An array that was not copied has no elements, so that nothing is below it.
<1>6. t \in Parts /\ ~ Own(points, g, t) => t \in playlist.empty
  <2>1. SUFFICES ASSUME t \in Parts, ~ Own(points, g, t), t \notin playlist.empty
                 PROVE  FALSE
    OBVIOUS
  <2>2. ~ Skipped(t)
    BY <2>1 DEF Skipped, Has, Parts
  <2>3. \E i \in DOMAIN ClonePlaylist : ClonePlaylist[i] = t
    BY ClonePlaylistType
  <2>4. LeadsTo(t, t)
    BY <1>1, <2>1, PlaylistType, LeadsToSelf DEF Parts
  <2>5. t \in CoveredParts
    BY <2>1, <2>2, <2>3, <2>4 DEF CoveredParts, Covered
  <2> QED BY <1>1, <2>1, <2>5, AllCopied
<1>7. ASSUME NEW q \in Parts
      PROVE  Own(points', g, q) <=> Own(points, g, q) \/ q = t
  <2>1. q \in Path /\ Len(q) \in Nat /\ q \in playlist.has
    BY <1>1, PlaylistType DEF Parts
  <2>2. CASE q = t
    <3>1. Len(q) = 1 /\ \A n \in 1 .. 1 : n = 1
      BY <2>2
    <3>2. SubSeq(q, 1, 1) = q
      BY <2>1, <3>1, WholePath
    <3>3. Own(points', g, q)
      BY <1>3, <2>2, <3>1, <3>2 DEF Own
    <3> QED BY <2>2, <3>3
  <2>3. CASE q # t /\ Own(points, g, t) /\ t \in Parts
    <3>1. points[g][t] = g
      <4>1. t \in Path /\ Len(t) = 1
        BY <1>1, <2>3, PlaylistType DEF Parts
      <4> HIDE DEF t
      <4> QED BY <2>3, <4>1, OwnAbove
    <3>2. \A p \in Parts : points'[g][p] = points[g][p]
      BY <1>3, <3>1
    <3>3. Own(points', g, q) <=> Own(points, g, q)
      BY <1>1, <2>1, <3>2, OwnFrame
    <3> QED BY <2>3, <3>3
  <2>4. CASE q # t /\ ~ (Own(points, g, t) /\ t \in Parts)
    <3>1. ASSUME NEW n \in 1 .. Len(q)
          PROVE  SubSeq(q, 1, n) \in Parts /\ SubSeq(q, 1, n) # t
      <4>1. n \in 0 .. Len(q) /\ n > 0
        BY <2>1
      <4>2. SubSeq(q, 1, n) \in Parts /\ (n < Len(q) => SubSeq(q, 1, n) \notin playlist.empty)
        BY <1>1, <2>1, <4>1, PrefixClosed
      <4>3. n = Len(q) => SubSeq(q, 1, n) = q
        BY <2>1, WholePath
      <4>4. n < Len(q) \/ n = Len(q)
        BY <2>1
      <4> HIDE DEF t
      <4> QED BY <1>6, <2>4, <4>2, <4>3, <4>4
    <3>2. \A n \in 1 .. Len(q) : points'[g][SubSeq(q, 1, n)] = points[g][SubSeq(q, 1, n)]
      BY <1>3, <3>1
    <3>3. Own(points', g, q) <=> Own(points, g, q)
      BY <3>2 DEF Own
    <3> QED BY <2>4, <3>3
  <2> QED BY <2>2, <2>3, <2>4
<1>8. CloneProgress'
  <2>1. Progress(Parts, CoveredParts, points', pc'[g], g, todo'[g])
    BY <1>1, <1>2, <1>7, AllCopied DEF Progress
  <2>2. \A h \in Goroutine \ {g} : /\ pc'[h] = pc[h] /\ todo'[h] = todo[h]
                                   /\ \A q \in Parts : points'[h][q] = points[h][q]
    BY <1>1, <1>3 DEF Owner
  <2>3. Typed /\ CloneProgress
    OBVIOUS
  <2> QED BY <1>1, <2>1, <2>2, <2>3, OthersProgress
<1>9. ReadOnlyKept'
  BY <1>1, <1>2 DEF ReadOnlyKept
<1>10. WritersHave'
  BY <1>1, <1>2 DEF WritersHave
<1>11. ReceiverKept'
  BY <1>1, <1>2 DEF ReceiverKept
<1>12. OwnKept'
  <2>1. ASSUME NEW p \in PromisedParts, Own(points', g, p)
        PROVE  content'[g][p] = IF wrote'[g] = p THEN g ELSE seen'[g][p]
    <3>1. p \in Parts /\ wrote[g] # p
      BY <1>1, <1>2, PlaylistType
    <3>2. CASE Own(points, g, p)
      BY <1>1, <3>1, <3>2 DEF OwnKept
    <3>3. CASE ~ Own(points, g, p)
      <4>1. p = t /\ p \in playlist.empty
        BY <1>6, <1>7, <2>1, <3>1, <3>3
      <4>2. LastField(p) \notin Map
        BY <4>1 DEF LastField, Map
      <4>3. p \in Parts \ Writable
        BY <3>1, <4>1, <4>2 DEF Writable
      <4>4. content[g][p] = Original /\ seen[g][p] = Original
        BY <1>1, <4>3 DEF ReadOnlyKept
      <4> QED BY <1>1, <3>1, <4>4
    <3> QED BY <3>2, <3>3
  <2>2. \A h \in Goroutine \ {g} : /\ pc'[h] = pc[h] /\ content'[h] = content[h]
                                   /\ wrote'[h] = wrote[h] /\ seen'[h] = seen[h]
                                   /\ \A q \in Parts : points'[h][q] = points[h][q]
    BY <1>1, <1>3 DEF Owner
  <2>3. Typed /\ OwnKept
    OBVIOUS
  <2> QED BY <1>1, <2>1, <2>2, <2>3, OthersKept
<1> QED BY <1>4, <1>5, <1>8, <1>9, <1>10, <1>11, <1>12

LEMMA WriteIInv ==
  ASSUME IInv, NEW o \in Owner, Write(o)
  PROVE  IInv'
<1> USE DEF IInv
<1>1. PICK p \in Writable :
        /\ content' = [content EXCEPT ![OwnerOf(o, p)][p] = o]
        /\ wrote' = [wrote EXCEPT ![o] = p]
  BY DEF Write
<1>2. /\ playlist \in Playlist /\ playlist' = playlist /\ points' = points /\ pc' = pc
      /\ todo' = todo /\ seen' = seen /\ wrote[o] = None
      /\ IF o = Receiver THEN \A g \in Goroutine : pc[g] # "clone" ELSE pc[o] = "returned"
  BY DEF Write, Typed
<1>3. /\ Parts' = Parts /\ PromisedParts' = PromisedParts /\ Writable' = Writable
      /\ PromisedParts \subseteq Parts /\ Writable \subseteq Parts /\ None \notin Parts
  BY <1>2, SamePlaylist, PlaylistType DEF PromisedParts, Writable
<1>4. Receiver \in Owner /\ Receiver \notin Goroutine
  BY CloneAssumption DEF Owner
<1> DEFINE w == OwnerOf(o, p)
<1>5. w = IF Own(points, o, p) THEN o ELSE Receiver
  BY <1>2, <1>3, Owners DEF Parts
<1> HIDE DEF w
<1>6. w \in Owner /\ (o = Receiver => w = Receiver)
  BY <1>4, <1>5
<1>7. p \in PromisedParts => w = o
  <2>1. SUFFICES ASSUME p \in PromisedParts, o # Receiver
                 PROVE  Own(points, o, p)
    BY <1>5, <1>6
  <2>2. o \in Goroutine /\ pc[o] = "returned"
    BY <1>2, <2>1 DEF Owner
  <2>3. p \in CoveredParts
    BY <1>2, <1>3, <2>1, PromisedCovered DEF CoveredParts, PromisedParts
  <2> QED BY <2>2, <2>3 DEF CloneProgress, Progress
<1>8. /\ content' \in [Owner -> [Parts -> Owner \cup {Original}]]
      /\ \A v \in Owner : \A q \in Parts :
           content'[v][q] = IF v = w /\ q = p THEN o ELSE content[v][q]
      /\ wrote' \in [Owner -> Parts \cup {None}]
      /\ \A v \in Owner : wrote'[v] = IF v = o THEN p ELSE wrote[v]
  <2>1. content' = [content EXCEPT ![w][p] = o]
    BY <1>1 DEF w
  <2>2. /\ content \in [Owner -> [Parts -> Owner \cup {Original}]] /\ wrote \in [Owner -> Parts \cup {None}]
        /\ p \in Parts
    BY <1>3 DEF Typed
  <2>3. content' \in [Owner -> [Parts -> Owner \cup {Original}]]
    BY <1>6, <2>1, <2>2
  <2>4. \A v \in Owner : \A q \in Parts :
           content'[v][q] = IF v = w /\ q = p THEN o ELSE content[v][q]
    BY <1>6, <2>1, <2>2
  <2>5. wrote' \in [Owner -> Parts \cup {None}]
    BY <1>1, <2>2
  <2>6. \A v \in Owner : wrote'[v] = IF v = o THEN p ELSE wrote[v]
    BY <1>1, <2>2
  <2> QED BY <2>3, <2>4, <2>5, <2>6
<1>9. Typed'
  BY <1>2, <1>3, <1>8 DEF Typed
<1>10. PointsApart'
  BY <1>2, <1>3 DEF PointsApart
<1>11. CloneProgress'
  <2>1. CoveredParts' = CoveredParts
    BY <1>2, SamePlaylist
  <2> QED BY <1>2, <1>3, <2>1 DEF CloneProgress
<1>12. ReadOnlyKept'
  <2>1. ASSUME NEW q \in Parts \ Writable
        PROVE  /\ \A v \in Owner : content'[v][q] = Original
               /\ \A g \in Goroutine : seen[g][q] = Original
    BY <1>8, <2>1 DEF ReadOnlyKept
  <2> QED BY <1>2, <1>3, <2>1 DEF ReadOnlyKept
<1>13. WritersHave'
  <2>1. \A v \in Owner : wrote'[v] \in Writable \cup {None}
    BY <1>8 DEF WritersHave
  <2>2. \A g \in Goroutine : pc[g] # "returned" => wrote'[g] = None
    BY <1>2, <1>4, <1>8 DEF WritersHave, Owner
  <2> QED BY <1>2, <1>3, <2>1, <2>2 DEF WritersHave
<1>14. ReceiverKept'
  <2>1. ASSUME NEW q \in PromisedParts
        PROVE  /\ content'[Receiver][q] = IF wrote'[Receiver] = q THEN Receiver ELSE Original
               /\ \A g \in Goroutine : pc[g] = "clone" => seen[g][q] = content'[Receiver][q]
    <3>1. /\ content[Receiver][q] = IF wrote[Receiver] = q THEN Receiver ELSE Original
          /\ \A g \in Goroutine : pc[g] = "clone" => seen[g][q] = content[Receiver][q]
      BY DEF ReceiverKept
    <3>2. q \in Parts /\ q # None
      BY <1>3
    <3>3. CASE o = Receiver
      <4>1. content'[Receiver][q] = IF q = p THEN Receiver ELSE content[Receiver][q]
        BY <1>4, <1>6, <1>8, <3>2, <3>3
      <4>2. wrote'[Receiver] = p
        BY <1>4, <1>8, <3>3
      <4>3. q # p => content[Receiver][q] = Original
        BY <1>2, <3>1, <3>2, <3>3
      <4>4. \A g \in Goroutine : pc[g] # "clone"
        BY <1>2, <3>3
      <4> QED BY <4>1, <4>2, <4>3, <4>4
    <3>4. CASE o # Receiver
      <4>1. content'[Receiver][q] = content[Receiver][q]
        BY <1>4, <1>7, <1>8, <3>2, <3>4
      <4>2. wrote'[Receiver] = wrote[Receiver]
        BY <1>4, <1>8, <3>4
      <4> QED BY <3>1, <4>1, <4>2
    <3> QED BY <3>3, <3>4
  <2> QED BY <1>2, <1>3, <2>1 DEF ReceiverKept
<1>15. OwnKept'
  <2>1. ASSUME NEW g \in Goroutine, NEW q \in PromisedParts,
               pc[g] \in {"clone", "returned"}, Own(points, g, q)
        PROVE  content'[g][q] = IF wrote'[g] = q THEN g ELSE seen[g][q]
    <3>1. content[g][q] = IF wrote[g] = q THEN g ELSE seen[g][q]
      BY <2>1 DEF OwnKept
    <3>2. q \in Parts /\ q # None /\ g \in Owner /\ g # Receiver
      BY <1>3, <1>4 DEF Owner
    <3>3. CASE o = g
      <4>1. wrote'[g] = p /\ wrote[g] = None
        BY <1>2, <1>8, <3>2, <3>3
      <4>2. q = p => content'[g][q] = g
        BY <1>7, <1>8, <3>2, <3>3
      <4>3. q # p => content'[g][q] = content[g][q]
        BY <1>8, <3>2
      <4> QED BY <3>1, <3>2, <4>1, <4>2, <4>3
    <3>4. CASE o # g
      <4>1. w # g
        BY <1>5, <3>2, <3>4
      <4>2. content'[g][q] = content[g][q] /\ wrote'[g] = wrote[g]
        BY <1>8, <3>2, <3>4, <4>1
      <4> QED BY <3>1, <4>2
    <3> QED BY <3>3, <3>4
  <2> QED BY <1>2, <1>3, <2>1 DEF OwnKept
<1> QED BY <1>9, <1>10, <1>11, <1>12, <1>13, <1>14, <1>15

LEMMA StutterIInv ==
  ASSUME IInv, UNCHANGED vars
  PROVE  IInv'
<1>1. /\ playlist' = playlist /\ points' = points /\ content' = content /\ pc' = pc
      /\ todo' = todo /\ wrote' = wrote /\ seen' = seen
  BY DEF vars
<1>2. /\ Parts' = Parts /\ CoveredParts' = CoveredParts
      /\ PromisedParts' = PromisedParts /\ Writable' = Writable
  BY <1>1, SamePlaylist
<1>3. Typed' /\ PointsApart'
  BY <1>1, <1>2 DEF IInv, Typed, PointsApart
<1>4. CloneProgress'
  BY <1>1, <1>2 DEF IInv, CloneProgress
<1>5. ReadOnlyKept' /\ WritersHave' /\ ReceiverKept' /\ OwnKept'
  BY <1>1, <1>2 DEF IInv, ReadOnlyKept, WritersHave, ReceiverKept, OwnKept
<1> QED BY <1>3, <1>4, <1>5 DEF IInv

LEMMA Invariance == Spec => []IInv
<1>1. IInv /\ [Next]_vars => IInv'
  <2> SUFFICES ASSUME IInv, [Next]_vars PROVE IInv'
    OBVIOUS
  <2>1. CASE \E g \in Goroutine : Resolve(g)
    BY <2>1, ResolveIInv
  <2>2. CASE \E g \in Goroutine : Skip(g)
    BY <2>2, SkipIInv
  <2>3. CASE \E g \in Goroutine : Clone(g)
    BY <2>3, CloneIInv
  <2>4. CASE \E g \in Goroutine : ReturnClone(g) \/ QueryFails(g)
    BY <2>4, EndIInv
  <2>5. CASE \E g \in Goroutine : AppendItems(g)
    BY <2>5, AppendItemsIInv
  <2>6. CASE \E o \in Owner : Write(o)
    BY <2>6, WriteIInv
  <2>7. CASE UNCHANGED vars
    BY <2>7, StutterIInv
  <2> QED BY <2>1, <2>2, <2>3, <2>4, <2>5, <2>6, <2>7 DEF Next
<1> QED BY <1>1, InitIInv, PTL DEF Spec

-----------------------------------------------------------------------------
(***************************************************************************)
(* Nobody's fields lead into the memory of another goroutine, so that a    *)
(* part is reached in one's own memory or in the receiver's.               *)
(***************************************************************************)
THEOREM TypeCorrect == Spec => []TypeOK
<1>1. IInv => TypeOK
  <2> SUFFICES ASSUME IInv PROVE TypeOK
    OBVIOUS
  <2>1. Typed /\ PointsApart /\ playlist \in Playlist
    BY DEF IInv, Typed
  <2>2. ASSUME NEW o \in Owner, NEW p \in Parts
        PROVE  OwnerOf(o, p) \in {o, Receiver}
    <3>1. OwnerOf(o, p) = IF Own(points, o, p) THEN o ELSE Receiver
      BY <2>1, Owners DEF Parts
    <3> QED BY <3>1
  <2>3. ASSUME NEW g \in Goroutine, NEW i \in DOMAIN todo[g]
        PROVE  Len(todo[g][i]) > 0
    <3>1. todo[g] \in Seq(Path \ {<<>>})
      BY <2>1 DEF Typed
    <3>2. todo[g][i] \in Path \ {<<>>}
      BY <3>1
    <3>3. \A p \in Path \ {<<>>} : Len(p) > 0
      BY EmptySeq DEF Path
    <3> QED BY <3>2, <3>3
  <2> QED BY <2>1, <2>2, <2>3 DEF Typed, TypeOK
<1> QED BY <1>1, Invariance, PTL

\* A part that nobody can write to, or that was copied, is found as it was.
LEMMA OwnPartKept ==
  ASSUME IInv, NEW g \in Goroutine, pc[g] = "returned", NEW p \in PromisedParts
  PROVE  Sees(g, p) = IF wrote[g] = p THEN g ELSE seen[g][p]
<1>1. /\ playlist \in Playlist /\ PointsApart /\ p \in playlist.has /\ p \in Parts
      /\ g \in Owner /\ Receiver \in Owner /\ None \notin Parts
  BY PlaylistType DEF IInv, Typed, PromisedParts, Parts, Owner
<1>2. OwnerOf(g, p) = IF Own(points, g, p) THEN g ELSE Receiver
  BY <1>1, Owners
<1>3. CASE p \in Writable
  <2>1. p \in CoveredParts
    BY <1>1, <1>3, PromisedCovered DEF CoveredParts, PromisedParts
  <2>2. Own(points, g, p)
    BY <2>1 DEF IInv, CloneProgress, Progress
  <2>3. content[g][p] = IF wrote[g] = p THEN g ELSE seen[g][p]
    BY <2>2 DEF IInv, OwnKept
  <2> QED BY <1>2, <2>2, <2>3 DEF Sees
<1>4. CASE p \notin Writable
  <2>1. wrote[g] # p
    BY <1>1, <1>4 DEF IInv, WritersHave
  <2>2. content[g][p] = Original /\ content[Receiver][p] = Original /\ seen[g][p] = Original
    BY <1>1, <1>4 DEF IInv, ReadOnlyKept
  <2> QED BY <1>2, <2>1, <2>2 DEF Sees
<1> QED BY <1>3, <1>4

(***************************************************************************)
(* What a caller writes to a promised part of his resolved playlist is     *)
(* seen by him and by nobody else, and what the owner writes after a call  *)
(* is not seen there.                                                      *)
(***************************************************************************)
THEOREM WritesStayApart == Spec => []EachSeesItsOwn
<1>1. IInv => EachSeesItsOwn
  <2> SUFFICES ASSUME IInv, NEW p \in Parts, Promised(p)
               PROVE  /\ Sees(Receiver, p) = IF wrote[Receiver] = p THEN Receiver ELSE Original
                      /\ \A g \in Goroutine : pc[g] = "returned" =>
                           Sees(g, p) = IF wrote[g] = p THEN g ELSE seen[g][p]
    BY DEF EachSeesItsOwn
  <2>1. /\ playlist \in Playlist /\ PointsApart /\ p \in playlist.has /\ Receiver \in Owner
        /\ p \in PromisedParts
    BY DEF IInv, Typed, Parts, Owner, PromisedParts
  <2>2. OwnerOf(Receiver, p) = Receiver
    BY <2>1, Owners
  <2>3. Sees(Receiver, p) = IF wrote[Receiver] = p THEN Receiver ELSE Original
    BY <2>1, <2>2 DEF Sees, IInv, ReceiverKept
  <2> QED BY <2>1, <2>3, OwnPartKept
<1> QED BY <1>1, Invariance, PTL

\* Every promised part that somebody can write to lies in the caller's own memory.
PromisedPartsOwned ==
  \A g \in Goroutine : pc[g] = "returned" =>
    \A p \in Writable : Promised(p) => OwnerOf(g, p) = g

(***************************************************************************)
(* When a call returns, every part that the clone functions promise, and   *)
(* that somebody can write to, lies in memory of the caller's own.         *)
(***************************************************************************)
THEOREM PromisedPartsCopied == Spec => []PromisedPartsOwned
<1>1. IInv => PromisedPartsOwned
  <2> SUFFICES ASSUME IInv, NEW g \in Goroutine, pc[g] = "returned", NEW p \in Writable, Promised(p)
               PROVE  OwnerOf(g, p) = g
    BY DEF PromisedPartsOwned
  <2>1. /\ playlist \in Playlist /\ PointsApart /\ p \in playlist.has /\ p \in Parts /\ g \in Owner
    BY DEF IInv, Typed, Parts, Owner, Writable
  <2>2. p \in CoveredParts
    BY <2>1, PromisedCovered DEF CoveredParts
  <2>3. Own(points, g, p)
    BY <2>2 DEF IInv, CloneProgress, Progress
  <2> QED BY <2>1, <2>3, Owners
<1> QED BY <1>1, Invariance, PTL
=============================================================================
