--------------------------- MODULE DynamicQueries ---------------------------
(***************************************************************************)
(* The data of playlist/dynamicquery.go: a dynamic query with its endpoint *)
(* and itemMap, what an indexer answers, and the decisions taken on them.  *)
(* A JSON object is a function from field names, Absent where it has none. *)
(***************************************************************************)
EXTENDS Naturals, Sequences

CONSTANTS
  Field, Value, Absent, NoField,
  NotObject,     \* an element of the answer that is no JSON object
  Placeholder,   \* names in {{ }}
  Acceptable     \* the objects that pass the item schema and decode

Object == [Field -> Value \cup {Absent}]

ASSUME AbsentAssumption == Absent \notin Value
ASSUME NoFieldAssumption == NoField \notin Field
ASSUME AcceptableAssumption == Acceptable \subseteq Object /\ NotObject \notin Object

ItemMap == [Field -> Field \cup {NoField}]

\* What an address is, whether it stands in the URL or a name resolves to it.
Addresses == {"public", "nonpublic"}

\* url: it parses; plain: neither user info nor fragment; host: a literal
\* address, public or not, or a name.
Endpoint ==
  [url : BOOLEAN, absolute : BOOLEAN, plain : BOOLEAN,
   scheme : {"https", "http", "ftp"}, host : Addresses \cup {"name"}]

\* form: the query, once hydrated, parses as a query string.
Query ==
  [profile : {"https-json-v1", "graphql-v1", "unknown"},
   method : {"", "GET", "POST", "PUT"}, names : SUBSET Placeholder, form : BOOLEAN,
   endpoint : Endpoint, itemMap : ItemMap]

Reply ==
  [ok : BOOLEAN, json : BOOLEAN, errors : BOOLEAN, array : BOOLEAN,
   items : Seq(Object \cup {NotObject})]

-----------------------------------------------------------------------------
Hydrates(query, params) == query.names \subseteq params

DefaultHTTPMethod(query) ==
  IF query.method # "" THEN query.method
  ELSE IF query.profile = "graphql-v1" THEN "POST" ELSE "GET"

Methods(profile) == IF profile = "graphql-v1" THEN {"POST"} ELSE {"GET", "POST"}

\* Variant: any profile that is not GraphQL is taken for JSON over HTTPS.
RequestError_AnyProfile(query) ==
  LET method == DefaultHTTPMethod(query) IN
    IF \/ method \notin Methods(query.profile)
       \/ ~ query.endpoint.url
       \/ query.profile = "https-json-v1" /\ method = "GET" /\ ~ query.form
    THEN "ErrRequest"
    ELSE "nil"

RequestError(query) ==
  LET method == DefaultHTTPMethod(query) IN
    IF query.profile = "unknown" THEN "ErrUnknownProfile"
    ELSE IF \/ method \notin Methods(query.profile)
            \/ ~ query.endpoint.url
            \/ query.profile = "https-json-v1" /\ method = "GET" /\ ~ query.form
    THEN "ErrRequest"
    ELSE "nil"

\* What the URL alone decides.
EndpointPolicy(endpoint, insecure) ==
  IF \/ ~ endpoint.absolute \/ ~ endpoint.plain
     \/ endpoint.scheme \notin {"https"} \cup (IF insecure THEN {"http"} ELSE {})
  THEN "refused"
  ELSE IF insecure \/ endpoint.host = "public" THEN "allowed"
  ELSE IF endpoint.host = "nonpublic" THEN "refused"
  ELSE "lookup"

\* Variant: one address that will do is enough.
AddressesAllowed_OneIsEnough(addrs) == "public" \in addrs

\* All the addresses of the name must do, and there must be one.
AddressesAllowed(addrs) == addrs = {"public"}

Extractable(query, reply) ==
  reply.json /\ reply.array /\ (query.profile = "graphql-v1" => ~ reply.errors)

ExtractError(query, reply) ==
  IF query.profile = "unknown" THEN "ErrUnknownProfile"
  ELSE IF ~ Extractable(query, reply) THEN "ErrResponse"
  ELSE "nil"

\* One turn of applyItemMap's loop: the DP-1 field f takes the value of its
\* source, which is then dropped.
MapField(itemMap, raw, out, f) ==
  LET source == itemMap[f] IN
    IF source = NoField \/ raw[source] = Absent THEN out
    ELSE [g \in Field |-> IF g = source /\ g # f THEN Absent
                          ELSE IF g = f THEN raw[source] ELSE out[g]]

-----------------------------------------------------------------------------
Mapped(itemMap) == { f \in Field : itemMap[f] # NoField }

\* "When false (default), only https:// is allowed and the endpoint host must
\* resolve only to publicly routable addresses" (dynamicquery.go:55): a literal
\* host is its own address, and a name has those it was looked up to have.
EndpointAllowed(endpoint, insecure, addrs) ==
  /\ endpoint.absolute /\ endpoint.plain
  /\ endpoint.scheme \in {"https", "http"}
  /\ ~ insecure =>
       LET own == IF endpoint.host = "name" THEN addrs ELSE {endpoint.host} IN
         endpoint.scheme = "https" /\ own # {} /\ own \subseteq {"public"}

\* Nothing that is renamed away is also written, so no order matters.
Unchained(itemMap) ==
  \A f \in Mapped(itemMap) : itemMap[f] # f => itemMap[f] \notin Mapped(itemMap)

\* "each key is the DP-1 property name, each value is the source property
\* name": the object renamed all at once, over the fields in fs.
Renamed(itemMap, raw, fs) ==
  [g \in Field |->
     IF g \in fs \cap Mapped(itemMap) /\ raw[itemMap[g]] # Absent THEN raw[itemMap[g]]
     ELSE IF \E f \in fs \ {g} : itemMap[f] = g THEN Absent
     ELSE raw[g]]

=============================================================================
