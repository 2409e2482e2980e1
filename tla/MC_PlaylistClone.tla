-------------------------- MODULE MC_PlaylistClone --------------------------
(***************************************************************************)
(* A playlist with a part behind every field that a clone function copies  *)
(* and one with a part behind the others; entities and links three deep.   *)
(***************************************************************************)
EXTENDS PlaylistClone, TLC

CONSTANTS g1, g2

MCGoroutine == {g1, g2}
Symmetry == Permutations(MCGoroutine)

Under(p, fields) == {p} \cup {Append(p, f) : f \in fields}

Author == <<"curators", "links", "authors">>

\* Everything about people, a query and the settings of the playlist.
Editorial == [
  has |-> {<<>>} \cup {<<"visibility">>}
    \cup Under(<<"curators">>, {"addresses", "avatar", "biographies", "links"})
    \cup Under(<<"curators", "avatar">>, {"w", "h"})
    \cup Under(<<"curators", "links">>, {"thumbnail", "authors"})
    \cup Under(<<"curators", "links", "thumbnail">>, {"h"})
    \cup Under(Author, {"addresses", "links"})
    \cup Under(<<"links">>, {"thumbnail", "authors"})
    \cup Under(<<"links", "authors">>, {"biographies"})
    \cup Under(<<"defaults">>, {"display", "duration"})
    \cup Under(<<"dynamicQuery">>, {"headers", "itemMap"}),
  empty |-> {<<"curators", "addresses">>, <<"dynamicQuery", "headers">>}]

\* Items, without a query.
Static == [
  has |-> {<<>>} \cup {<<"signatures">>, <<"links">>}
    \cup Under(<<"items">>, {"duration", "override", "display", "provenance", "displayAt", "inlineManifest",
                             "contentRating", "contentReasons"})
    \cup Under(<<"items", "provenance">>, {"contract", "dependencies"})
    \cup Under(<<"note">>, {"author"})
    \cup Under(<<"note", "author">>, {"addresses"}),
  empty |-> {<<"items", "contentReasons">>, <<"links">>}]

\* A few items under a query.
Queried == [
  has |-> {<<>>} \cup Under(<<"items">>, {"override", "displayAt"}) \cup Under(<<"dynamicQuery">>, {"itemMap"}),
  empty |-> {}]

MCPlaylist == {Editorial, Static, Queried}
=============================================================================
