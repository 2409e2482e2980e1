---------------------------- MODULE DynamicQuery ----------------------------
(***************************************************************************)
(* ResolveDynamicQuery of playlist/dynamicquery.go: hydrate the query,     *)
(* build one request, check its endpoint, fetch, and turn the answer item  *)
(* by item into playlist items.  The name service, the network and the     *)
(* indexer answer when and if they like, the caller may cancel, and every  *)
(* stage may fail; an indexer changes what it serves between two calls.    *)
(***************************************************************************)
EXTENDS DynamicQueries

CONSTANTS
  Call,                       \* the calls that are under way at the same time
  Playlist,                   \* the receivers
  Replies,                    \* what the indexer may answer
  NoPlaylist, NoQuery, NoReply

ASSUME PlaylistAssumption ==
  Playlist \subseteq [items : Seq(Object), query : Query \cup {NoQuery}]
ASSUME RepliesAssumption == Replies \subseteq Reply
ASSUME NoneAssumption ==
  NoPlaylist \notin Playlist /\ NoQuery \notin Query /\ NoReply \notin Replies

VARIABLES
  indexer,            \* what the indexer would answer now
  pc, call,           \* where each call is, and what it was given
  cancelled,          \* its context is cancelled
  lookedUp,           \* the addresses it was given for its endpoint's name
  sent,               \* the requests it has sent
  reply, bodyOpen,    \* the answer it works on, and whether its body is open
  n, out, todo,       \* the item it is at, as mapped so far, and the fields left
  items,              \* the items it has accepted
  answer              \* what it returned

mapping == <<n, out, todo>>
vars ==
  <<indexer, pc, call, cancelled, lookedUp, sent, reply, bodyOpen, mapping, items, answer>>

Arguments ==
  [playlist : Playlist \cup {NoPlaylist}, params : SUBSET Placeholder, insecure : BOOLEAN]

Errors ==
  {"ErrRequest", "ErrHydration", "ErrUnknownProfile", "ErrEndpointPolicy", "ErrHTTP",
   "ErrResponse", "ErrItemInvalid"}

\* (nil, err) or (out, nil).
Answers ==
  [err : {"nil"}, items : Seq(Object)] \cup [err : Errors, items : {<<>>}]

Stages ==
  {"idle", "resolve", "hydrate", "build", "policy", "lookup", "send", "await", "read",
   "status", "extract", "items", "map"}

NoAnswer == [err |-> "none", items |-> <<>>]

TheQuery(c) == call[c].playlist.query

Goto(c, from, to) == pc[c] = from /\ pc' = [pc EXCEPT ![c] = to]

Return(c, from, a) ==
  /\ Goto(c, from, "idle")
  /\ answer' = [answer EXCEPT ![c] = a]

Failure(e) == [err |-> e, items |-> <<>>]

Init ==
  /\ indexer \in Replies
  /\ pc = [c \in Call |-> "idle"]
  /\ call = [c \in Call |-> [playlist |-> NoPlaylist, params |-> {}, insecure |-> FALSE]]
  /\ cancelled = [c \in Call |-> FALSE]
  /\ lookedUp = [c \in Call |-> {}] /\ sent = [c \in Call |-> 0]
  /\ reply = [c \in Call |-> NoReply] /\ bodyOpen = [c \in Call |-> FALSE]
  /\ n = [c \in Call |-> 1] /\ todo = [c \in Call |-> {}]
  /\ out = [c \in Call |-> NotObject]
  /\ items = [c \in Call |-> <<>>]
  /\ answer = [c \in Call |-> NoAnswer]

-----------------------------------------------------------------------------
\* The world around a call
IndexerChanges ==
  /\ indexer' \in Replies \ {indexer}
  /\ UNCHANGED <<pc, call, cancelled, lookedUp, sent, reply, bodyOpen, mapping, items, answer>>

Begin(c) ==
  /\ Goto(c, "idle", "resolve")
  /\ \E a \in Arguments : call' = [call EXCEPT ![c] = a]
  /\ cancelled' = [cancelled EXCEPT ![c] = FALSE]
  /\ lookedUp' = [lookedUp EXCEPT ![c] = {}] /\ sent' = [sent EXCEPT ![c] = 0]
  /\ reply' = [reply EXCEPT ![c] = NoReply]
  /\ n' = [n EXCEPT ![c] = 1] /\ todo' = [todo EXCEPT ![c] = {}]
  /\ out' = [out EXCEPT ![c] = NotObject]
  /\ items' = [items EXCEPT ![c] = <<>>]
  /\ answer' = [answer EXCEPT ![c] = NoAnswer]
  /\ UNCHANGED <<indexer, bodyOpen>>

Cancel(c) ==
  /\ pc[c] # "idle" /\ ~ cancelled[c]
  /\ cancelled' = [cancelled EXCEPT ![c] = TRUE]
  /\ UNCHANGED <<indexer, pc, call, lookedUp, sent, reply, bodyOpen, mapping, items, answer>>

-----------------------------------------------------------------------------
\* ResolveDynamicQuery, up to the fetch
Resolve(c) ==
  /\ \/ /\ call[c].playlist = NoPlaylist
        /\ Return(c, "resolve", Failure("ErrRequest"))
     \/ /\ call[c].playlist # NoPlaylist /\ TheQuery(c) = NoQuery
        /\ Return(c, "resolve", [err |-> "nil", items |-> call[c].playlist.items])
     \/ /\ call[c].playlist # NoPlaylist /\ TheQuery(c) # NoQuery
        /\ Goto(c, "resolve", "hydrate")
        /\ UNCHANGED answer
  /\ UNCHANGED <<indexer, call, cancelled, lookedUp, sent, reply, bodyOpen, mapping, items>>

\* Variant: placeholders without a value are left in the query.
HydrateDynamicQueryString_Lenient(c) ==
  /\ Goto(c, "hydrate", "build")
  /\ UNCHANGED <<indexer, call, cancelled, lookedUp, sent, reply, bodyOpen, mapping, items, answer>>

HydrateDynamicQueryString(c) ==
  /\ \/ /\ pc[c] = "hydrate" /\ ~ Hydrates(TheQuery(c), call[c].params)
        /\ Return(c, "hydrate", Failure("ErrHydration"))
     \/ /\ pc[c] = "hydrate" /\ Hydrates(TheQuery(c), call[c].params)
        /\ Goto(c, "hydrate", "build")
        /\ UNCHANGED answer
  /\ UNCHANGED <<indexer, call, cancelled, lookedUp, sent, reply, bodyOpen, mapping, items>>

BuildDynamicQueryRequest(c) ==
  /\ pc[c] = "build"
  /\ LET e == RequestError(TheQuery(c)) IN
       \/ e # "nil" /\ Return(c, "build", Failure(e))
       \/ e = "nil" /\ Goto(c, "build", "policy") /\ UNCHANGED answer
  /\ UNCHANGED <<indexer, call, cancelled, lookedUp, sent, reply, bodyOpen, mapping, items>>

\* Variant: a name goes out without being looked up.
ValidateDynamicQueryRequestURL_NoLookup(c) ==
  /\ pc[c] = "policy"
  /\ LET p == EndpointPolicy(TheQuery(c).endpoint, call[c].insecure) IN
       \/ p = "refused" /\ Return(c, "policy", Failure("ErrEndpointPolicy"))
       \/ p # "refused" /\ Goto(c, "policy", "send") /\ UNCHANGED answer
  /\ UNCHANGED <<indexer, call, cancelled, lookedUp, sent, reply, bodyOpen, mapping, items>>

ValidateDynamicQueryRequestURL(c) ==
  /\ pc[c] = "policy"
  /\ LET p == EndpointPolicy(TheQuery(c).endpoint, call[c].insecure) IN
       \/ p = "refused" /\ Return(c, "policy", Failure("ErrEndpointPolicy"))
       \/ /\ p # "refused" /\ UNCHANGED answer
          /\ Goto(c, "policy", IF p = "lookup" THEN "lookup" ELSE "send")
  /\ UNCHANGED <<indexer, call, cancelled, lookedUp, sent, reply, bodyOpen, mapping, items>>

ValidateDNSHostProduction(c) ==
  /\ \E addrs \in SUBSET Addresses :
       /\ lookedUp' = [lookedUp EXCEPT ![c] = addrs]
       /\ \/ /\ AddressesAllowed(addrs)
             /\ Goto(c, "lookup", "send") /\ UNCHANGED answer
          \/ /\ ~ AddressesAllowed(addrs)
             /\ Return(c, "lookup", Failure("ErrEndpointPolicy"))
  /\ UNCHANGED <<indexer, call, cancelled, sent, reply, bodyOpen, mapping, items>>

-----------------------------------------------------------------------------
\* The fetch
Send(c) ==
  /\ Goto(c, "send", "await")
  /\ sent' = [sent EXCEPT ![c] = @ + 1]
  /\ UNCHANGED <<indexer, call, cancelled, lookedUp, reply, bodyOpen, mapping, items, answer>>

IndexerAnswers(c) ==
  /\ Goto(c, "await", "read")
  /\ reply' = [reply EXCEPT ![c] = indexer]
  /\ bodyOpen' = [bodyOpen EXCEPT ![c] = TRUE]
  /\ UNCHANGED <<indexer, call, cancelled, lookedUp, sent, mapping, items, answer>>

ReadAll(c) ==
  /\ Goto(c, "read", "status")
  /\ UNCHANGED <<indexer, call, cancelled, lookedUp, sent, reply, bodyOpen, mapping, items, answer>>

\* Variant: the body is closed once its status is known to be good.
CheckStatus_ErrorKeepsBody(c) ==
  /\ pc[c] = "status"
  /\ IF reply[c].ok
     THEN Goto(c, "status", "extract") /\ UNCHANGED answer
     ELSE Return(c, "status", Failure("ErrHTTP"))
  /\ bodyOpen' = [bodyOpen EXCEPT ![c] = ~ reply[c].ok]
  /\ UNCHANGED <<indexer, call, cancelled, lookedUp, sent, reply, mapping, items>>

\* The deferred Close runs whichever way the fetch ends.
CheckStatus(c) ==
  /\ pc[c] = "status"
  /\ \/ reply[c].ok /\ Goto(c, "status", "extract") /\ UNCHANGED answer
     \/ ~ reply[c].ok /\ Return(c, "status", Failure("ErrHTTP"))
  /\ bodyOpen' = [bodyOpen EXCEPT ![c] = FALSE]
  /\ UNCHANGED <<indexer, call, cancelled, lookedUp, sent, reply, mapping, items>>

\* The name service, the connection or the body fails, or the context ends.
FetchFails(c) ==
  /\ \/ Return(c, "lookup", Failure("ErrEndpointPolicy"))
     \/ \E at \in {"send", "await", "read"} : Return(c, at, Failure("ErrHTTP"))
  /\ bodyOpen' = [bodyOpen EXCEPT ![c] = FALSE]
  /\ UNCHANGED <<indexer, call, cancelled, lookedUp, sent, reply, mapping, items>>

\* Variant: the request is built without the context.
Abort_LookupOnly(c) == cancelled[c] /\ pc[c] = "lookup" /\ FetchFails(c)

Abort(c) == cancelled[c] /\ FetchFails(c)

-----------------------------------------------------------------------------
\* playlistItemsFromDynamicQueryBody
ExtractDynamicItems(c) ==
  /\ pc[c] = "extract"
  /\ LET e == ExtractError(TheQuery(c), reply[c]) IN
       \/ e # "nil" /\ Return(c, "extract", Failure(e))
       \/ e = "nil" /\ Goto(c, "extract", "items") /\ UNCHANGED answer
  /\ UNCHANGED <<indexer, call, cancelled, lookedUp, sent, reply, bodyOpen, mapping, items>>

Raw(c) == reply[c].items[n[c]]

NextItem(c) ==
  /\ pc[c] = "items" /\ n[c] <= Len(reply[c].items)
  /\ \/ /\ Raw(c) = NotObject
        /\ Return(c, "items", Failure("ErrItemInvalid"))
        /\ UNCHANGED <<out, todo>>
     \/ /\ Raw(c) # NotObject
        /\ Goto(c, "items", "map")
        /\ out'  = [out EXCEPT ![c] = Raw(c)]
        /\ todo' = [todo EXCEPT ![c] = Mapped(TheQuery(c).itemMap)]
        /\ UNCHANGED answer
  /\ UNCHANGED <<indexer, call, cancelled, lookedUp, sent, reply, bodyOpen, n, items>>

\* A range over the itemMap yields its fields in any order.
ApplyItemMap(c) ==
  /\ pc[c] = "map"
  /\ \E f \in todo[c] :
       /\ out'  = [out EXCEPT ![c] = MapField(TheQuery(c).itemMap, Raw(c), @, f)]
       /\ todo' = [todo EXCEPT ![c] = @ \ {f}]
  /\ UNCHANGED <<indexer, pc, call, cancelled, lookedUp, sent, reply, bodyOpen, n, items, answer>>

\* Variant: items the schema rejects are skipped.
AcceptItem_SkipInvalid(c) ==
  /\ todo[c] = {}
  /\ Goto(c, "map", "items") /\ n' = [n EXCEPT ![c] = @ + 1]
  /\ items' = [items EXCEPT ![c] = IF out[c] \in Acceptable THEN Append(@, out[c]) ELSE @]
  /\ UNCHANGED <<indexer, call, cancelled, lookedUp, sent, reply, bodyOpen, out, todo, answer>>

\* Variant: an item that fails returns those before it with the error.
AcceptItem_Partial(c) ==
  /\ todo[c] = {}
  /\ IF out[c] \in Acceptable
     THEN /\ Goto(c, "map", "items") /\ n' = [n EXCEPT ![c] = @ + 1]
          /\ items' = [items EXCEPT ![c] = Append(@, out[c])]
          /\ UNCHANGED answer
     ELSE /\ Return(c, "map", [err |-> "ErrItemInvalid", items |-> items[c]])
          /\ UNCHANGED <<n, items>>
  /\ UNCHANGED <<indexer, call, cancelled, lookedUp, sent, reply, bodyOpen, out, todo>>

AcceptItem(c) ==
  /\ todo[c] = {}
  /\ \/ /\ out[c] \in Acceptable
        /\ Goto(c, "map", "items") /\ n' = [n EXCEPT ![c] = @ + 1]
        /\ items' = [items EXCEPT ![c] = Append(@, out[c])]
        /\ UNCHANGED answer
     \/ /\ out[c] \notin Acceptable
        /\ Return(c, "map", Failure("ErrItemInvalid"))
        /\ UNCHANGED <<n, items>>
  /\ UNCHANGED <<indexer, call, cancelled, lookedUp, sent, reply, bodyOpen, out, todo>>

Merge(c) ==
  /\ pc[c] = "items" /\ n[c] > Len(reply[c].items)
  /\ Return(c, "items", [err |-> "nil", items |-> call[c].playlist.items \o items[c]])
  /\ UNCHANGED <<indexer, call, cancelled, lookedUp, sent, reply, bodyOpen, mapping, items>>

Step(c) ==
  \/ Resolve(c) \/ HydrateDynamicQueryString(c) \/ BuildDynamicQueryRequest(c)
  \/ ValidateDynamicQueryRequestURL(c) \/ Send(c) \/ CheckStatus(c)
  \/ ExtractDynamicItems(c) \/ NextItem(c) \/ ApplyItemMap(c) \/ AcceptItem(c) \/ Merge(c)

World(c) ==
  \/ Begin(c) \/ Cancel(c) \/ ValidateDNSHostProduction(c) \/ IndexerAnswers(c)
  \/ ReadAll(c) \/ FetchFails(c)

Next == IndexerChanges \/ \E c \in Call : Step(c) \/ World(c)

\* The call's own steps are taken, and net/http and net end what they do when
\* the context of the request ends.  Nobody else has to answer.
Spec ==
  /\ Init /\ [][Next]_vars
  /\ \A c \in Call : WF_vars(Step(c)) /\ WF_vars(Abort(c))

-----------------------------------------------------------------------------
TypeOK ==
  /\ indexer \in Replies
  /\ pc \in [Call -> Stages]
  /\ call \in [Call -> Arguments]
  /\ cancelled \in [Call -> BOOLEAN] /\ bodyOpen \in [Call -> BOOLEAN]
  /\ lookedUp \in [Call -> SUBSET Addresses]
  /\ sent \in [Call -> Nat] /\ n \in [Call -> Nat \ {0}]
  /\ reply \in [Call -> Replies \cup {NoReply}]
  /\ out \in [Call -> Object \cup {NotObject}] /\ todo \in [Call -> SUBSET Field]
  /\ items \in [Call -> Seq(Object)]
  /\ answer \in [Call -> Answers \cup {NoAnswer}]

Succeeded(c) == answer[c].err = "nil" /\ TheQuery(c) # NoQuery

\* All or nothing, of one answer: a resolved playlist is the static items and
\* then every item of one good answer of the indexer, renamed as the itemMap
\* says whatever order the map is walked in, in the indexer's order, each of
\* them accepted by the item schema.
ResolvedFromOneReply ==
  \A c \in Call : Succeeded(c) /\ Unchained(TheQuery(c).itemMap) =>
    LET raw == reply[c].items IN
      /\ reply[c] # NoReply /\ reply[c].ok
      /\ answer[c].items = call[c].playlist.items
           \o [i \in DOMAIN raw |-> Renamed(TheQuery(c).itemMap, raw[i], Field)]
      /\ \A i \in DOMAIN raw :
           Renamed(TheQuery(c).itemMap, raw[i], Field) \in Acceptable

\* No response body stays open behind a call: its connection would be lost to
\* the client's pool.
BodiesClosed == \A c \in Call : bodyOpen[c] => pc[c] \in {"read", "status"}

\* One request at most, and only for a query that is hydrated and well formed,
\* to an endpoint that the options allow: the indexer never sees a template, and
\* a name is contacted only after the name service has given public addresses
\* for it, and no other, in this very call.
RequestsAllowed ==
  \A c \in Call : sent[c] # 0 =>
    /\ sent[c] = 1
    /\ Hydrates(TheQuery(c), call[c].params)
    /\ RequestError(TheQuery(c)) = "nil"
    /\ EndpointAllowed(TheQuery(c).endpoint, call[c].insecure, lookedUp[c])

\* The sentinel tells a caller how far the call got: what blames the query or
\* its endpoint comes before anything is sent, what blames the answer after
\* a good one.
ErrorTellsStage ==
  \A c \in Call :
    /\ answer[c].err \in {"ErrRequest", "ErrHydration", "ErrUnknownProfile",
                          "ErrEndpointPolicy"} => sent[c] = 0
    /\ answer[c].err \in {"ErrResponse", "ErrItemInvalid"} =>
         reply[c] # NoReply /\ reply[c].ok

\* "each key is the DP-1 property name, each value is the source property name
\* in the indexer JSON" (dynamicquery.go:474).
ItemMapFollowed ==
  \A c \in Call : pc[c] = "map" /\ todo[c] = {} =>
    LET m == TheQuery(c).itemMap IN
      \A f \in Mapped(m) : Raw(c)[m[f]] # Absent => out[c][f] = Raw(c)[m[f]]

\* A cancelled call returns, however silent the network is.
CancelledCallReturns == \A c \in Call : cancelled[c] ~> pc[c] = "idle"

=============================================================================
