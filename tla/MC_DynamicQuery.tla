--------------------------- MODULE MC_DynamicQuery ---------------------------
EXTENDS DynamicQuery

\* An item has an id and a title; an indexer may call the title "name".
Obj(i, t, m) == [f \in Field |-> IF f = "id" THEN i ELSE IF f = "title" THEN t ELSE m]

MCAcceptable == { o \in Object : o["id"] # Absent /\ o["title"] # Absent }

NoMap == [f \in Field |-> NoField]
TitleFromName == [NoMap EXCEPT !["title"] = "name"]
\* The id is the indexer's title, and the title its name.
ChainedMap == [TitleFromName EXCEPT !["id"] = "title"]

Public == [url |-> TRUE, absolute |-> TRUE, plain |-> TRUE, scheme |-> "https",
           host |-> "public"]

Json ==
  [profile |-> "https-json-v1", method |-> "", names |-> {"viewer"}, form |-> TRUE,
   endpoint |-> [Public EXCEPT !.host = "name"], itemMap |-> TitleFromName]
GraphQL ==
  [Json EXCEPT !.profile = "graphql-v1", !.names = {}, !.itemMap = NoMap,
               !.endpoint = Public]

WithQuery(q) == [items |-> <<Obj("a", "b", Absent)>>, query |-> q]

\* Each way a query can be wrong, one at a time.
BadQueries ==
  { [Json EXCEPT !.profile = "unknown"], [Json EXCEPT !.form = FALSE],
    [Json EXCEPT !.method = "PUT"], [GraphQL EXCEPT !.method = "GET"],
    [GraphQL EXCEPT !.endpoint.url = FALSE], [Json EXCEPT !.endpoint.absolute = FALSE],
    [Json EXCEPT !.endpoint.plain = FALSE], [Json EXCEPT !.endpoint.scheme = "ftp"],
    [Json EXCEPT !.endpoint.scheme = "http"], [GraphQL EXCEPT !.endpoint.host = "nonpublic"] }

MCPlaylist ==
  { WithQuery(q) : q \in {NoQuery, Json, GraphQL, [Json EXCEPT !.method = "POST"]} \cup BadQueries }

MCChainedPlaylist == { WithQuery([GraphQL EXCEPT !.itemMap = ChainedMap]) }

Good(s) == [ok |-> TRUE, json |-> TRUE, errors |-> FALSE, array |-> TRUE, items |-> s]

\* Several items, one of them with a title of its own besides the name, one
\* that is not acceptable in the middle, or no object; no array; an error.
MCReplies ==
  { Good(<<Obj("a", "b", Absent), Obj("b", Absent, "a")>>),
    Good(<<Obj("b", "a", "b")>>), Good(<<>>),
    Good(<<Obj("a", Absent, "a"), Obj(Absent, "a", Absent), Obj("b", Absent, "b")>>),
    Good(<<Obj("a", "b", "a"), NotObject>>),
    [Good(<<Obj("a", "a", "a")>>) EXCEPT !.errors = TRUE],
    [Good(<<>>) EXCEPT !.array = FALSE], [Good(<<>>) EXCEPT !.json = FALSE],
    [Good(<<Obj("a", "a", "a")>>) EXCEPT !.ok = FALSE] }

=============================================================================
