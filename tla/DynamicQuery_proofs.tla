------------------------ MODULE DynamicQuery_proofs ------------------------
(***************************************************************************)
(* A resolved playlist is the static items and one whole answer of the     *)
(* indexer, for every set of fields, itemMaps, playlists and answers, and  *)
(* the fetch that gets it sends one allowed request and closes its body.   *)
(***************************************************************************)
EXTENDS DynamicQuery, TLAPS

\* How far a call has got.
Fetching  == {"lookup", "send", "await", "read", "status"}
Unpacking == {"extract", "items", "map"}
Unsent    == {"resolve", "hydrate", "build", "policy", "lookup", "send"}
Answered  == {"read", "status"} \cup Unpacking

\* What the stages that are behind a call have made sure of.
Checked(c) ==
  /\ pc[c] \notin {"idle", "resolve"} =>
       call[c].playlist \in Playlist /\ TheQuery(c) \in Query
  /\ pc[c] \in {"build", "policy"} \cup Fetching \cup Unpacking =>
       Hydrates(TheQuery(c), call[c].params)
  /\ pc[c] \in {"policy"} \cup Fetching \cup Unpacking => RequestError(TheQuery(c)) = "nil"
  /\ pc[c] = "lookup" =>
       EndpointPolicy(TheQuery(c).endpoint, call[c].insecure) = "lookup"
  /\ pc[c] \in (Fetching \ {"lookup"}) \cup Unpacking =>
       EndpointAllowed(TheQuery(c).endpoint, call[c].insecure, lookedUp[c])

\* What is sent, received and open at each stage.
Fetched(c) ==
  /\ pc[c] \in Unsent => sent[c] = 0
  /\ sent[c] \in {0, 1}
  /\ pc[c] \in Answered => reply[c] \in Replies
  /\ pc[c] \in Unpacking => reply[c].ok
  /\ bodyOpen[c] => pc[c] \in {"read", "status"}
  /\ pc[c] # "idle" => answer[c] = NoAnswer

\* The items accepted so far are those of the answer before the one at hand,
\* renamed, and that one is renamed but for the fields still to do.
ItemsDone(c) ==
  LET raw == reply[c].items
      m   == TheQuery(c).itemMap
  IN /\ Len(items[c]) = n[c] - 1
     /\ n[c] - 1 <= Len(raw)
     /\ Unchained(m) => \A i \in 1..(n[c] - 1) :
          /\ items[c][i] = Renamed(m, raw[i], Field)
          /\ items[c][i] \in Acceptable

MappedSoFar(c) ==
  LET m == TheQuery(c).itemMap
  IN /\ n[c] <= Len(reply[c].items)
     /\ Raw(c) \in Object /\ out[c] \in Object
     /\ todo[c] \subseteq Mapped(m)
     /\ Unchained(m) => out[c] = Renamed(m, Raw(c), Field \ todo[c])

Collected(c) ==
  /\ pc[c] \in Unsent \cup {"await", "read", "status", "extract"} =>
       n[c] = 1 /\ items[c] = <<>>
  /\ pc[c] \in {"items", "map"} => ItemsDone(c)
  /\ pc[c] = "map" => MappedSoFar(c)

IInv ==
  /\ TypeOK
  /\ \A c \in Call : Checked(c) /\ Fetched(c) /\ Collected(c)
  /\ RequestsAllowed /\ ErrorTellsStage /\ ResolvedFromOneReply

-----------------------------------------------------------------------------
\* Renaming field by field

LEMMA RenameNothing ==
  ASSUME NEW m \in ItemMap, NEW raw \in Object
  PROVE  Renamed(m, raw, Field \ Mapped(m)) = raw
<1>1. \A g \in Field : Renamed(m, raw, Field \ Mapped(m))[g] = raw[g]
  BY NoFieldAssumption DEF Renamed, Mapped
<1> QED BY <1>1 DEF Renamed, Object

LEMMA RenameOne ==
  \A m \in ItemMap, raw \in Object : Unchained(m) =>
    \A todoc \in SUBSET Mapped(m) : \A f \in todoc :
      MapField(m, raw, Renamed(m, raw, Field \ todoc), f)
        = Renamed(m, raw, Field \ (todoc \ {f}))
<1> SUFFICES ASSUME NEW m \in ItemMap, NEW raw \in Object, Unchained(m),
                    NEW todoc \in SUBSET Mapped(m), NEW f \in todoc
             PROVE  MapField(m, raw, Renamed(m, raw, Field \ todoc), f)
                      = Renamed(m, raw, Field \ (todoc \ {f}))
  OBVIOUS
<1> DEFINE old == Renamed(m, raw, Field \ todoc)
           new == Renamed(m, raw, Field \ (todoc \ {f}))
<1>0. /\ m[f] \in Field /\ f \in Field
      /\ m[f] # f => m[f] \notin Mapped(m)
      /\ \A g \in Field \ {f} : m[g] # f
  BY NoFieldAssumption DEF Mapped, Unchained, ItemMap
<1>1. \A g \in Field :
        new[g] = IF g \in Mapped(m) /\ (g \notin todoc \/ g = f) /\ raw[m[g]] # Absent
                 THEN raw[m[g]]
                 ELSE IF \E h \in Field \ {g} : (h \notin todoc \/ h = f) /\ m[h] = g
                 THEN Absent ELSE raw[g]
  BY DEF Renamed, Mapped
<1>2. \A g \in Field :
        old[g] = IF g \in Mapped(m) /\ g \notin todoc /\ raw[m[g]] # Absent
                 THEN raw[m[g]]
                 ELSE IF \E h \in Field \ {g} : h \notin todoc /\ m[h] = g
                 THEN Absent ELSE raw[g]
  BY DEF Renamed, Mapped
<1>3. CASE raw[m[f]] = Absent
  <2>1. \A g \in Field : old[g] = new[g]
    BY <1>0, <1>1, <1>2, <1>3
  <2>2. MapField(m, raw, old, f) = old
    BY <1>3 DEF MapField
  <2> QED BY <2>1, <2>2 DEF Renamed
<1>4. CASE raw[m[f]] # Absent
  <2>1. MapField(m, raw, old, f)
          = [g \in Field |-> IF g = m[f] /\ g # f THEN Absent
                             ELSE IF g = f THEN raw[m[f]] ELSE old[g]]
    BY <1>0, <1>4, NoFieldAssumption DEF MapField
  <2>2. new[f] = raw[m[f]]
    BY <1>0, <1>1, <1>4
  <2>3. m[f] # f => new[m[f]] = Absent
    BY <1>0, <1>1
  <2>4. \A g \in Field : g # f /\ g # m[f] => new[g] = old[g]
    BY <1>0, <1>1, <1>2
  <2>5. \A g \in Field : MapField(m, raw, old, f)[g] = new[g]
    BY <2>1, <2>2, <2>3, <2>4
  <2> QED BY <2>1, <2>5 DEF Renamed
<1> QED BY <1>3, <1>4

LEMMA MapFieldType ==
  ASSUME NEW m \in ItemMap, NEW raw \in Object, NEW o \in Object, NEW f \in Field
  PROVE  MapField(m, raw, o, f) \in Object
BY DEF MapField, Object, ItemMap

LEMMA RequestErrors ==
  ASSUME NEW q
  PROVE  RequestError(q) \in {"nil", "ErrRequest", "ErrUnknownProfile"}
BY DEF RequestError

\* The checks of the code, on the URL and on the addresses, amount to what the
\* options promise.
LEMMA PolicySound ==
  ASSUME NEW e \in Endpoint, NEW insecure \in BOOLEAN, NEW addrs
  PROVE  /\ EndpointPolicy(e, insecure) = "allowed" => EndpointAllowed(e, insecure, addrs)
         /\ EndpointPolicy(e, insecure) = "lookup" /\ AddressesAllowed(addrs) =>
              EndpointAllowed(e, insecure, addrs)
         /\ EndpointPolicy(e, insecure) \in {"allowed", "lookup", "refused"}
BY DEF EndpointPolicy, EndpointAllowed, AddressesAllowed, Endpoint, Addresses

LEMMA ExtractErrors ==
  ASSUME NEW q, NEW r
  PROVE  /\ ExtractError(q, r) \in {"nil", "ErrResponse", "ErrUnknownProfile"}
         /\ RequestError(q) = "nil" => ExtractError(q, r) \in {"nil", "ErrResponse"}
BY DEF ExtractError, RequestError

LEMMA FailureType ==
  /\ Failure("ErrRequest") \in Answers /\ Failure("ErrHydration") \in Answers
  /\ Failure("ErrUnknownProfile") \in Answers
  /\ Failure("ErrEndpointPolicy") \in Answers /\ Failure("ErrHTTP") \in Answers
  /\ Failure("ErrResponse") \in Answers /\ Failure("ErrItemInvalid") \in Answers
BY DEF Failure, Answers, Errors

-----------------------------------------------------------------------------
\* A step of a call moves it or returns from it.
Moved == pc \in [Call -> Stages] /\ answer \in [Call -> Answers \cup {NoAnswer}]

LEMMA MoveType ==
  ASSUME TypeOK, NEW c \in Call, NEW from, NEW to \in Stages,
         Goto(c, from, to), UNCHANGED answer
  PROVE  Moved'
BY DEF TypeOK, Moved, Goto

LEMMA ReturnType ==
  ASSUME TypeOK, NEW c \in Call, NEW from, NEW a \in Answers, Return(c, from, a)
  PROVE  Moved'
BY DEF TypeOK, Moved, Return, Goto, Stages

LEMMA TypeStep ==
  ASSUME TypeOK, \A c \in Call : Checked(c) /\ Fetched(c) /\ Collected(c), [Next]_vars
  PROVE  TypeOK'
<1> USE DEF TypeOK
<1>1. ASSUME NEW c \in Call, Begin(c) PROVE TypeOK'
  BY <1>1 DEF Begin, Goto, NoAnswer, Stages
<1>2. ASSUME NEW c \in Call, Cancel(c) PROVE TypeOK'
  BY <1>2 DEF Cancel, mapping
<1>3. ASSUME NEW c \in Call, Resolve(c) PROVE TypeOK'
  <2>1. \A p \in Playlist : [err |-> "nil", items |-> p.items] \in Answers
    BY PlaylistAssumption DEF Answers
  <2>2. call[c].playlist = NoPlaylist \/ call[c].playlist \in Playlist
    BY DEF Arguments
  <2>3. Moved'
    BY <1>3, <2>1, <2>2, FailureType, MoveType, ReturnType DEF Resolve, Stages
  <2> QED BY <1>3, <2>3 DEF Resolve, Moved, mapping
<1>4. ASSUME NEW c \in Call, HydrateDynamicQueryString(c) PROVE TypeOK'
  <2>1. Moved'
    BY <1>4, FailureType, MoveType, ReturnType DEF HydrateDynamicQueryString, Stages
  <2> QED BY <1>4, <2>1 DEF HydrateDynamicQueryString, Moved, mapping
<1>5. ASSUME NEW c \in Call, BuildDynamicQueryRequest(c) PROVE TypeOK'
  <2>1. Moved'
    BY <1>5, FailureType, MoveType, ReturnType, RequestErrors DEF BuildDynamicQueryRequest, Stages
  <2> QED BY <1>5, <2>1 DEF BuildDynamicQueryRequest, Moved, mapping
<1>6. ASSUME NEW c \in Call, ValidateDynamicQueryRequestURL(c) PROVE TypeOK'
  <2>1. Moved'
    BY <1>6, FailureType, MoveType, ReturnType DEF ValidateDynamicQueryRequestURL, Stages
  <2> QED BY <1>6, <2>1 DEF ValidateDynamicQueryRequestURL, Moved, mapping
<1>7. ASSUME NEW c \in Call, ValidateDNSHostProduction(c) PROVE TypeOK'
  <2>1. Moved'
    BY <1>7, FailureType, MoveType, ReturnType DEF ValidateDNSHostProduction, Stages
  <2>2. /\ UNCHANGED <<indexer, call, cancelled, sent, reply, bodyOpen, n, out, todo, items>>
        /\ \E addrs \in SUBSET Addresses : lookedUp' = [lookedUp EXCEPT ![c] = addrs]
    BY <1>7 DEF ValidateDNSHostProduction, mapping
  <2>3. lookedUp' \in [Call -> SUBSET Addresses]
    BY <2>2
  <2> QED BY <2>1, <2>2, <2>3 DEF Moved
<1>8. ASSUME NEW c \in Call, Send(c) PROVE TypeOK'
  BY <1>8 DEF Send, Goto, mapping, Stages
<1>9. ASSUME NEW c \in Call, IndexerAnswers(c) PROVE TypeOK'
  BY <1>9 DEF IndexerAnswers, Goto, mapping, Stages
<1>10. ASSUME NEW c \in Call, ReadAll(c) PROVE TypeOK'
  BY <1>10 DEF ReadAll, Goto, mapping, Stages
<1>11. ASSUME NEW c \in Call, FetchFails(c) PROVE TypeOK'
  <2>1. Moved'
    BY <1>11, FailureType, MoveType, ReturnType DEF FetchFails, Stages
  <2> QED BY <1>11, <2>1 DEF FetchFails, Moved, mapping
<1>12. ASSUME NEW c \in Call, CheckStatus(c) PROVE TypeOK'
  <2>1. Moved'
    BY <1>12, FailureType, MoveType, ReturnType DEF CheckStatus, Stages
  <2> QED BY <1>12, <2>1 DEF CheckStatus, Moved, mapping
<1>13. ASSUME NEW c \in Call, ExtractDynamicItems(c) PROVE TypeOK'
  <2>1. Moved'
    BY <1>13, FailureType, MoveType, ReturnType, ExtractErrors DEF ExtractDynamicItems, Stages
  <2> QED BY <1>13, <2>1 DEF ExtractDynamicItems, Moved, mapping
<1>14. ASSUME NEW c \in Call, NextItem(c) PROVE TypeOK'
  <2>1. reply[c] \in Reply /\ call[c].playlist \in Playlist /\ TheQuery(c) \in Query
    BY <1>14, RepliesAssumption DEF NextItem, Fetched, Checked, Answered, Unpacking
  <2>2. Raw(c) \in Object \cup {NotObject}
    BY <1>14, <2>1 DEF NextItem, Raw, Reply
  <2>3. Mapped(TheQuery(c).itemMap) \subseteq Field
    BY DEF Mapped
  <2>4. Moved'
    BY <1>14, FailureType, MoveType, ReturnType DEF NextItem, Stages
  <2>5. out' \in [Call -> Object \cup {NotObject}] /\ todo' \in [Call -> SUBSET Field]
    <3>1. CASE Raw(c) = NotObject
      BY <1>14, <3>1 DEF NextItem
    <3>2. CASE Raw(c) # NotObject
      <4>1. /\ out' = [out EXCEPT ![c] = Raw(c)]
            /\ todo' = [todo EXCEPT ![c] = Mapped(TheQuery(c).itemMap)]
        BY <1>14, <3>2 DEF NextItem
      <4> QED BY <4>1, <2>2, <2>3
    <3> QED BY <3>1, <3>2
  <2> QED BY <1>14, <2>4, <2>5 DEF NextItem, Moved
<1>15. ASSUME NEW c \in Call, ApplyItemMap(c) PROVE TypeOK'
  <2>1. TheQuery(c).itemMap \in ItemMap /\ Raw(c) \in Object /\ out[c] \in Object
    BY <1>15 DEF ApplyItemMap, Checked, Collected, MappedSoFar, Query
  <2>2. \A f \in todo[c] : MapField(TheQuery(c).itemMap, Raw(c), out[c], f) \in Object
    BY <2>1, MapFieldType
  <2> QED BY <1>15, <2>2 DEF ApplyItemMap
<1>16. ASSUME NEW c \in Call, AcceptItem(c) PROVE TypeOK'
  <2>1. out[c] \in Object
    BY <1>16 DEF AcceptItem, Return, Goto, Collected, MappedSoFar
  <2>2. Moved'
    <3>1. CASE out[c] \in Acceptable
      BY <1>16, <3>1, MoveType DEF AcceptItem, Stages
    <3>2. CASE out[c] \notin Acceptable
      BY <1>16, <3>2, FailureType, ReturnType DEF AcceptItem
    <3> QED BY <3>1, <3>2
  <2>3. n' \in [Call -> Nat \ {0}] /\ items' \in [Call -> Seq(Object)]
    <3>1. CASE out[c] \in Acceptable
      <4>1. /\ n' = [n EXCEPT ![c] = n[c] + 1]
            /\ items' = [items EXCEPT ![c] = Append(items[c], out[c])]
        BY <1>16, <3>1 DEF AcceptItem
      <4>2. n[c] + 1 \in Nat \ {0}
        OBVIOUS
      <4>3. Append(items[c], out[c]) \in Seq(Object)
        BY <3>1, AcceptableAssumption
      <4> QED BY <4>1, <4>2, <4>3
    <3>2. CASE out[c] \notin Acceptable
      BY <1>16, <3>2 DEF AcceptItem
    <3> QED BY <3>1, <3>2
  <2> QED BY <1>16, <2>2, <2>3 DEF AcceptItem, Moved
<1>17. ASSUME NEW c \in Call, Merge(c) PROVE TypeOK'
  <2>1. call[c].playlist \in Playlist
    BY <1>17 DEF Merge, Checked
  <2>2. call[c].playlist.items \o items[c] \in Seq(Object)
    BY <2>1, PlaylistAssumption
  <2>3. [err |-> "nil", items |-> call[c].playlist.items \o items[c]] \in Answers
    BY <2>2 DEF Answers
  <2> QED BY <1>17, <2>3 DEF Merge, Return, Goto, mapping, Stages
<1>18. CASE IndexerChanges
  BY <1>18 DEF IndexerChanges, mapping
<1>19. CASE UNCHANGED vars
  BY <1>19 DEF vars, mapping
<1> QED
  BY <1>1, <1>2, <1>3, <1>4, <1>5, <1>6, <1>7, <1>8, <1>9, <1>10, <1>11,
     <1>12, <1>13, <1>14, <1>15, <1>16, <1>17, <1>18, <1>19 DEF Next, Step, World

LEMMA OthersKeep ==
  ASSUME TypeOK, NEW c \in Call, Step(c) \/ World(c), NEW h \in Call, h # c
  PROVE  /\ pc'[h] = pc[h] /\ call'[h] = call[h] /\ sent'[h] = sent[h]
         /\ lookedUp'[h] = lookedUp[h] /\ reply'[h] = reply[h]
         /\ bodyOpen'[h] = bodyOpen[h] /\ n'[h] = n[h]
         /\ out'[h] = out[h] /\ todo'[h] = todo[h] /\ items'[h] = items[h]
         /\ answer'[h] = answer[h]
<1> USE DEF TypeOK, mapping, Goto, Return
<1>1. CASE Begin(c) \/ Cancel(c) \/ Send(c) \/ IndexerAnswers(c) \/ ReadAll(c)
  BY <1>1 DEF Begin, Cancel, Send, IndexerAnswers, ReadAll
<1>2. CASE Resolve(c) \/ HydrateDynamicQueryString(c) \/ BuildDynamicQueryRequest(c)
  BY <1>2 DEF Resolve, HydrateDynamicQueryString, BuildDynamicQueryRequest
<1>3. CASE ValidateDynamicQueryRequestURL(c) \/ ValidateDNSHostProduction(c)
  BY <1>3 DEF ValidateDynamicQueryRequestURL, ValidateDNSHostProduction
<1>4. CASE FetchFails(c) \/ CheckStatus(c) \/ ExtractDynamicItems(c)
  BY <1>4 DEF FetchFails, CheckStatus, ExtractDynamicItems
<1>5. CASE NextItem(c) \/ ApplyItemMap(c)
  BY <1>5 DEF NextItem, ApplyItemMap
<1>6. CASE AcceptItem(c) \/ Merge(c)
  BY <1>6 DEF AcceptItem, Merge
<1> QED BY <1>1, <1>2, <1>3, <1>4, <1>5, <1>6 DEF Step, World

\* What holds of a call that a step leaves alone still holds.
LEMMA OtherCalls ==
  ASSUME NEW h \in Call, Checked(h), Fetched(h), Collected(h),
         pc'[h] = pc[h], call'[h] = call[h], sent'[h] = sent[h], reply'[h] = reply[h],
         lookedUp'[h] = lookedUp[h], bodyOpen'[h] = bodyOpen[h], n'[h] = n[h],
         out'[h] = out[h], todo'[h] = todo[h], items'[h] = items[h], answer'[h] = answer[h]
  PROVE  Checked(h)' /\ Fetched(h)' /\ Collected(h)'
BY DEF Checked, Fetched, Collected, ItemsDone, MappedSoFar, TheQuery, Raw

LEMMA CheckedStep ==
  ASSUME TypeOK, NEW c \in Call, Checked(c), Step(c) \/ World(c)
  PROVE  Checked(c)'
<1> USE DEF TypeOK, Checked, Fetching, Unpacking, Goto, Return, TheQuery
<1>1. CASE Begin(c)
  BY <1>1 DEF Begin
<1>2. CASE Cancel(c)
  BY <1>2 DEF Cancel
<1>3. CASE Resolve(c)
  <2>1. CASE pc'[c] = "idle"
    BY <2>1
  <2>2. CASE pc'[c] # "idle"
    <3>1. call[c].playlist \in Playlist /\ call[c].playlist.query \in Query
      BY <1>3, <2>2, PlaylistAssumption DEF Resolve, Arguments
    <3>2. pc'[c] = "hydrate" /\ call' = call
      BY <1>3, <2>2 DEF Resolve
    <3> QED BY <3>1, <3>2
  <2> QED BY <2>1, <2>2
<1>4. CASE HydrateDynamicQueryString(c)
  BY <1>4 DEF HydrateDynamicQueryString
<1>5. CASE BuildDynamicQueryRequest(c)
  BY <1>5 DEF BuildDynamicQueryRequest
<1>6. CASE ValidateDynamicQueryRequestURL(c)
  <2>1. pc[c] = "policy" /\ call' = call /\ lookedUp' = lookedUp
    BY <1>6 DEF ValidateDynamicQueryRequestURL
  <2>2. TheQuery(c).endpoint \in Endpoint /\ call[c].insecure \in BOOLEAN
    BY <2>1 DEF Query, Arguments
  <2>3. \/ pc'[c] = "idle"
        \/ pc'[c] = "lookup"
             /\ EndpointPolicy(TheQuery(c).endpoint, call[c].insecure) = "lookup"
        \/ pc'[c] = "send"
             /\ EndpointPolicy(TheQuery(c).endpoint, call[c].insecure) = "allowed"
    BY <1>6, <2>2, PolicySound DEF ValidateDynamicQueryRequestURL
  <2>4. pc'[c] = "send" =>
          EndpointAllowed(TheQuery(c).endpoint, call[c].insecure, lookedUp[c])
    BY <2>2, <2>3, PolicySound
  <2> QED BY <2>1, <2>3, <2>4
<1>7. CASE ValidateDNSHostProduction(c)
  <2>1. CASE pc'[c] = "idle"
    BY <2>1
  <2>2. CASE pc'[c] # "idle"
    <3>1. /\ pc[c] = "lookup" /\ pc'[c] = "send" /\ call' = call
          /\ AddressesAllowed(lookedUp'[c])
      BY <1>7, <2>2 DEF ValidateDNSHostProduction
    <3>2. TheQuery(c).endpoint \in Endpoint /\ call[c].insecure \in BOOLEAN
      BY <3>1 DEF Query, Arguments
    <3>3. EndpointAllowed(TheQuery(c).endpoint, call[c].insecure, lookedUp'[c])
      BY <3>1, <3>2, PolicySound
    <3> QED BY <3>1, <3>3
  <2> QED BY <2>1, <2>2
<1>11. CASE Send(c) \/ IndexerAnswers(c) \/ ReadAll(c)
  BY <1>11 DEF Send, IndexerAnswers, ReadAll
<1>8. CASE FetchFails(c) \/ CheckStatus(c) \/ ExtractDynamicItems(c)
  BY <1>8 DEF FetchFails, CheckStatus, ExtractDynamicItems
<1>9. CASE NextItem(c) \/ ApplyItemMap(c)
  BY <1>9 DEF NextItem, ApplyItemMap
<1>10. CASE AcceptItem(c) \/ Merge(c)
  BY <1>10 DEF AcceptItem, Merge
<1> QED BY <1>1, <1>2, <1>3, <1>4, <1>5, <1>6, <1>7, <1>8, <1>9, <1>10, <1>11
     DEF Step, World

LEMMA FetchedStep ==
  ASSUME TypeOK, NEW c \in Call, Fetched(c), Step(c) \/ World(c)
  PROVE  Fetched(c)'
<1> USE DEF TypeOK, Fetched, Fetching, Unpacking, Unsent, Answered, Goto, Return
<1>1. CASE Begin(c)
  BY <1>1 DEF Begin
<1>2. CASE Cancel(c)
  BY <1>2 DEF Cancel
<1>3. CASE Resolve(c) \/ HydrateDynamicQueryString(c) \/ BuildDynamicQueryRequest(c)
  BY <1>3 DEF Resolve, HydrateDynamicQueryString, BuildDynamicQueryRequest
<1>4. CASE ValidateDynamicQueryRequestURL(c) \/ ValidateDNSHostProduction(c)
  BY <1>4 DEF ValidateDynamicQueryRequestURL, ValidateDNSHostProduction
<1>5. CASE Send(c)
  BY <1>5 DEF Send
<1>6. CASE IndexerAnswers(c)
  BY <1>6 DEF IndexerAnswers
<1>7. CASE ReadAll(c) \/ FetchFails(c) \/ CheckStatus(c)
  BY <1>7 DEF ReadAll, FetchFails, CheckStatus
<1>8. CASE ExtractDynamicItems(c) \/ NextItem(c) \/ ApplyItemMap(c)
  BY <1>8 DEF ExtractDynamicItems, NextItem, ApplyItemMap
<1>9. CASE AcceptItem(c) \/ Merge(c)
  BY <1>9 DEF AcceptItem, Merge
<1> QED BY <1>1, <1>2, <1>3, <1>4, <1>5, <1>6, <1>7, <1>8, <1>9 DEF Step, World

LEMMA CollectedStep ==
  ASSUME TypeOK, NEW c \in Call, Checked(c), Fetched(c), Collected(c), Step(c) \/ World(c)
  PROVE  Collected(c)'
<1> USE DEF TypeOK
<1>0. ASSUME pc'[c] \notin {"items", "map"}, n'[c] = n[c], items'[c] = items[c],
             \/ pc'[c] = "idle"
             \/ pc[c] \in Unsent \cup {"await", "read", "status", "extract"}
      PROVE  Collected(c)'
  BY <1>0 DEF Collected, Unsent
<1>1. CASE Begin(c)
  BY <1>1 DEF Begin, Goto, Collected, Unsent
<1>2. CASE Cancel(c)
  BY <1>2 DEF Cancel, mapping, Collected, ItemsDone, MappedSoFar, Raw, TheQuery
<1>3. CASE Resolve(c) \/ HydrateDynamicQueryString(c) \/ BuildDynamicQueryRequest(c)
  BY <1>3, <1>0 DEF Resolve, HydrateDynamicQueryString, BuildDynamicQueryRequest,
     Return, Goto, mapping, Unsent
<1>4. CASE ValidateDynamicQueryRequestURL(c) \/ ValidateDNSHostProduction(c) \/ Send(c)
  BY <1>4, <1>0 DEF ValidateDynamicQueryRequestURL, ValidateDNSHostProduction, Send,
     Return, Goto, mapping, Unsent
<1>5. CASE IndexerAnswers(c) \/ ReadAll(c) \/ FetchFails(c) \/ CheckStatus(c)
  BY <1>5, <1>0 DEF IndexerAnswers, ReadAll, FetchFails, CheckStatus, Return, Goto,
     mapping, Unsent
<1>6. CASE ExtractDynamicItems(c)
  <2>1. CASE pc'[c] = "idle"
    BY <1>6, <2>1, <1>0 DEF ExtractDynamicItems, mapping
  <2>2. CASE pc'[c] # "idle"
    <3>1. pc[c] = "extract" /\ pc'[c] = "items" /\ n'[c] = 1 /\ items'[c] = <<>>
          /\ call' = call /\ reply' = reply
      BY <1>6, <2>2 DEF ExtractDynamicItems, Return, Goto, mapping, Collected
    <3>2. reply[c] \in Reply
      BY <3>1, RepliesAssumption DEF Fetched, Answered, Unpacking
    <3>3. Len(reply[c].items) \in Nat
      BY <3>2 DEF Reply
    <3> QED BY <3>1, <3>3 DEF Collected, ItemsDone, Unsent
  <2> QED BY <2>1, <2>2
<1>7. CASE NextItem(c)
  <2>1. CASE pc'[c] = "idle"
    BY <2>1 DEF Collected, Unsent
  <2>2. CASE pc'[c] # "idle"
    <3>1. /\ pc[c] = "items" /\ pc'[c] = "map" /\ Raw(c) # NotObject
          /\ out'[c] = Raw(c) /\ todo'[c] = Mapped(TheQuery(c).itemMap)
          /\ n[c] <= Len(reply[c].items)
          /\ UNCHANGED <<call, reply, n, items>>
      BY <1>7, <2>2 DEF NextItem, Return, Goto
    <3>2. reply[c] \in Reply /\ TheQuery(c) \in Query
      BY <3>1, RepliesAssumption DEF Fetched, Checked, Answered, Unpacking
    <3>3. Raw(c) \in Object
      BY <3>1, <3>2 DEF Raw, Reply
    <3>4. TheQuery(c).itemMap \in ItemMap
      BY <3>2 DEF Query
    <3>5. Renamed(TheQuery(c).itemMap, Raw(c), Field \ todo'[c]) = Raw(c)
      BY <3>1, <3>3, <3>4, RenameNothing
    <3>6. ItemsDone(c)'
      BY <3>1 DEF Collected, ItemsDone, TheQuery
    <3>7. MappedSoFar(c)'
      BY <3>1, <3>3, <3>5 DEF MappedSoFar, Raw, TheQuery
    <3> QED BY <3>1, <3>6, <3>7 DEF Collected, Unsent
  <2> QED BY <2>1, <2>2
<1>8. CASE ApplyItemMap(c)
  <2>1. PICK f \in todo[c] :
          /\ out' = [out EXCEPT ![c] = MapField(TheQuery(c).itemMap, Raw(c), out[c], f)]
          /\ todo' = [todo EXCEPT ![c] = todo[c] \ {f}]
    BY <1>8 DEF ApplyItemMap
  <2>2. /\ pc[c] = "map" /\ UNCHANGED <<pc, call, reply, n, items>>
    BY <1>8 DEF ApplyItemMap
  <2>3. TheQuery(c).itemMap \in ItemMap /\ MappedSoFar(c) /\ ItemsDone(c)
    BY <2>2 DEF Checked, Collected, Query
  <2>4. out'[c] \in Object
    <3>1. f \in Field
      OBVIOUS
    <3> QED BY <2>1, <2>3, <3>1, MapFieldType DEF MappedSoFar
  <2>5. Unchained(TheQuery(c).itemMap) =>
          out'[c] = Renamed(TheQuery(c).itemMap, Raw(c), Field \ todo'[c])
    <3>1. out'[c] = MapField(TheQuery(c).itemMap, Raw(c), out[c], f) /\ todo'[c] = todo[c] \ {f}
      BY <2>1
    <3>2. Raw(c) \in Object /\ todo[c] \in SUBSET Mapped(TheQuery(c).itemMap)
      BY <2>3 DEF MappedSoFar
    <3>3. HAVE Unchained(TheQuery(c).itemMap)
    <3>4. out[c] = Renamed(TheQuery(c).itemMap, Raw(c), Field \ todo[c])
      BY <2>3, <3>3 DEF MappedSoFar
    <3> DEFINE m == TheQuery(c).itemMap
               raw == Raw(c)
               todoc == todo[c]
    <3>5. /\ m \in ItemMap /\ Unchained(m) /\ raw \in Object
          /\ todoc \in SUBSET Mapped(m) /\ f \in todoc
      BY <2>3, <3>2, <3>3
    <3> HIDE DEF m, raw, todoc
    <3>6. MapField(m, raw, Renamed(m, raw, Field \ todoc), f)
            = Renamed(m, raw, Field \ (todoc \ {f}))
      <4>1. \A td \in SUBSET Mapped(m) : \A g \in td :
              MapField(m, raw, Renamed(m, raw, Field \ td), g)
                = Renamed(m, raw, Field \ (td \ {g}))
        BY <3>5, RenameOne
      <4>2. \A g \in todoc :
              MapField(m, raw, Renamed(m, raw, Field \ todoc), g)
                = Renamed(m, raw, Field \ (todoc \ {g}))
        BY <3>5, <4>1
      <4> QED BY <3>5, <4>2
    <3> QED BY <3>1, <3>4, <3>6 DEF m, raw, todoc
  <2>6. MappedSoFar(c)'
    BY <2>1, <2>2, <2>3, <2>4, <2>5 DEF MappedSoFar, Raw, TheQuery
  <2>7. ItemsDone(c)'
    BY <2>2, <2>3 DEF ItemsDone, TheQuery
  <2> QED BY <2>2, <2>6, <2>7 DEF Collected, Unsent
<1>9. CASE AcceptItem(c)
  <2>1. CASE pc'[c] = "idle"
    BY <2>1 DEF Collected, Unsent
  <2>2. CASE pc'[c] # "idle"
    <3>1. /\ pc[c] = "map" /\ pc'[c] = "items" /\ out[c] \in Acceptable /\ todo[c] = {}
          /\ n'[c] = n[c] + 1 /\ items'[c] = Append(items[c], out[c])
          /\ UNCHANGED <<call, reply>>
      BY <1>9, <2>2 DEF AcceptItem, Return, Goto
    <3>2. MappedSoFar(c) /\ ItemsDone(c)
      BY <3>1 DEF Collected
    <3>3. /\ Len(items'[c]) = n'[c] - 1 /\ n'[c] - 1 <= Len(reply[c].items)
          /\ items'[c][n[c]] = out[c]
          /\ \A i \in 1..(n[c] - 1) : items'[c][i] = items[c][i]
      BY <3>1, <3>2 DEF MappedSoFar, ItemsDone
    <3>4. Unchained(TheQuery(c).itemMap) =>
            items'[c][n[c]] = Renamed(TheQuery(c).itemMap, reply[c].items[n[c]], Field)
      <4>1. Field \ {} = Field
        OBVIOUS
      <4> QED BY <3>1, <3>2, <3>3, <4>1 DEF MappedSoFar, Raw
    <3>5. \A i \in 1..(n'[c] - 1) : i \in 1..(n[c] - 1) \/ i = n[c]
      BY <3>1
    <3>6. ItemsDone(c)'
      BY <3>1, <3>2, <3>3, <3>4, <3>5 DEF ItemsDone, TheQuery
    <3> QED BY <3>1, <3>6 DEF Collected, Unsent
  <2> QED BY <2>1, <2>2
<1>10. CASE Merge(c)
  BY <1>10 DEF Merge, Return, Goto, Collected, Unsent
<1> QED BY <1>1, <1>2, <1>3, <1>4, <1>5, <1>6, <1>7, <1>8, <1>9, <1>10 DEF Step, World

LEMMA InitInv == Init => IInv
<1> SUFFICES ASSUME Init PROVE IInv
  OBVIOUS
<1> USE DEF Init
<1>1. TypeOK
  <2>1. [c \in Call |-> [playlist |-> NoPlaylist, params |-> {}, insecure |-> FALSE]]
          \in [Call -> Arguments]
    BY DEF Arguments
  <2>2. pc \in [Call -> Stages] /\ call \in [Call -> Arguments]
    BY <2>1 DEF Stages
  <2>3. /\ cancelled \in [Call -> BOOLEAN] /\ bodyOpen \in [Call -> BOOLEAN]
        /\ lookedUp \in [Call -> SUBSET Addresses]
        /\ sent \in [Call -> Nat] /\ n \in [Call -> Nat \ {0}]
    OBVIOUS
  <2>4. /\ reply \in [Call -> Replies \cup {NoReply}]
        /\ out \in [Call -> Object \cup {NotObject}] /\ todo \in [Call -> SUBSET Field]
        /\ answer \in [Call -> Answers \cup {NoAnswer}]
    OBVIOUS
  <2>5. items \in [Call -> Seq(Object)]
    <3>1. <<>> \in Seq(Object)
      OBVIOUS
    <3> QED BY <3>1
  <2> QED BY <2>2, <2>3, <2>4, <2>5 DEF TypeOK
<1>2. \A c \in Call : Checked(c) /\ Fetched(c) /\ Collected(c)
  BY DEF Checked, Fetched, Collected, Fetching, Unpacking, Unsent, Answered
<1>3. RequestsAllowed /\ ErrorTellsStage /\ ResolvedFromOneReply
  BY DEF RequestsAllowed, ErrorTellsStage, ResolvedFromOneReply, Succeeded, NoAnswer
<1> QED BY <1>1, <1>2, <1>3 DEF IInv

-----------------------------------------------------------------------------
\* What each call promises, one call at a time.
Allowed(c) == sent[c] # 0 =>
  /\ sent[c] = 1
  /\ Hydrates(TheQuery(c), call[c].params)
  /\ RequestError(TheQuery(c)) = "nil"
  /\ EndpointAllowed(TheQuery(c).endpoint, call[c].insecure, lookedUp[c])

Told(c) ==
  /\ answer[c].err \in {"ErrRequest", "ErrHydration", "ErrUnknownProfile",
                        "ErrEndpointPolicy"} => sent[c] = 0
  /\ answer[c].err \in {"ErrResponse", "ErrItemInvalid"} =>
       reply[c] # NoReply /\ reply[c].ok

Resolved(c) == Succeeded(c) /\ Unchained(TheQuery(c).itemMap) =>
  LET raw == reply[c].items IN
    /\ reply[c] # NoReply /\ reply[c].ok
    /\ answer[c].items = call[c].playlist.items
         \o [i \in DOMAIN raw |-> Renamed(TheQuery(c).itemMap, raw[i], Field)]
    /\ \A i \in DOMAIN raw :
         Renamed(TheQuery(c).itemMap, raw[i], Field) \in Acceptable

LEMMA PerCall ==
  /\ RequestsAllowed <=> \A c \in Call : Allowed(c)
  /\ ErrorTellsStage <=> \A c \in Call : Told(c)
  /\ ResolvedFromOneReply <=> \A c \in Call : Resolved(c)
BY DEF RequestsAllowed, Allowed, ErrorTellsStage, Told, ResolvedFromOneReply, Resolved

LEMMA OtherPromises ==
  ASSUME NEW h \in Call, Allowed(h), Told(h), Resolved(h),
         call'[h] = call[h], lookedUp'[h] = lookedUp[h], sent'[h] = sent[h],
         reply'[h] = reply[h], answer'[h] = answer[h]
  PROVE  Allowed(h)' /\ Told(h)' /\ Resolved(h)'
BY DEF Allowed, Told, Resolved, Succeeded, TheQuery

\* Sending is the only step that must look at what is behind it.
LEMMA AllowedStep ==
  ASSUME TypeOK, NEW c \in Call, Checked(c), Fetched(c), Allowed(c), Step(c) \/ World(c)
  PROVE  Allowed(c)'
<1> USE DEF TypeOK
<1>0. ASSUME call' = call, sent' = sent, lookedUp' = lookedUp PROVE Allowed(c)'
  BY <1>0 DEF Allowed, TheQuery
<1>1. CASE Begin(c)
  BY <1>1 DEF Begin, Allowed
<1>2. CASE Send(c)
  <2>1. pc[c] = "send" /\ UNCHANGED <<call, lookedUp>> /\ sent'[c] = sent[c] + 1
    BY <1>2 DEF Send, Goto
  <2> QED BY <2>1 DEF Allowed, Fetched, Checked, Fetching, Unsent, TheQuery
<1>3. CASE call' = call /\ sent' = sent /\ lookedUp' = lookedUp
  BY <1>0, <1>3
<1>4. CASE ValidateDNSHostProduction(c)
  <2>1. pc[c] = "lookup" /\ sent' = sent
    BY <1>4 DEF ValidateDNSHostProduction, Goto, Return
  <2> QED BY <2>1 DEF Allowed, Fetched, Unsent
<1> QED BY <1>1, <1>2, <1>3, <1>4 DEF Step, World, Cancel, Resolve, HydrateDynamicQueryString,
     BuildDynamicQueryRequest, ValidateDynamicQueryRequestURL, IndexerAnswers, ReadAll,
     FetchFails, CheckStatus, ExtractDynamicItems, NextItem, ApplyItemMap, AcceptItem, Merge

LEMMA ToldStep ==
  ASSUME TypeOK, NEW c \in Call, Checked(c), Fetched(c), Told(c), Step(c) \/ World(c)
  PROVE  Told(c)'
<1> USE DEF TypeOK, Fetched, Unsent, Answered, Unpacking, Goto, Return, Failure
<1>0. reply[c] \in Replies => reply[c] # NoReply
  BY NoneAssumption
<1>1. CASE Begin(c)
  BY <1>1 DEF Begin, Told, NoAnswer
<1>2. CASE Cancel(c) \/ ApplyItemMap(c) \/ ReadAll(c)
  BY <1>2 DEF Cancel, ApplyItemMap, ReadAll, Told
<1>3. CASE Resolve(c) \/ HydrateDynamicQueryString(c)
  BY <1>3 DEF Resolve, HydrateDynamicQueryString, Told
<1>4. CASE BuildDynamicQueryRequest(c)
  <2>1. RequestError(TheQuery(c)) \in {"nil", "ErrRequest", "ErrUnknownProfile"}
    BY RequestErrors
  <2>2. pc[c] = "build" /\ sent' = sent /\ reply' = reply
    BY <1>4 DEF BuildDynamicQueryRequest
  <2>3. answer' = answer \/ answer'[c] = Failure(RequestError(TheQuery(c)))
    BY <1>4 DEF BuildDynamicQueryRequest
  <2> QED BY <2>1, <2>2, <2>3 DEF Told
<1>5. CASE ValidateDynamicQueryRequestURL(c) \/ ValidateDNSHostProduction(c)
  BY <1>5 DEF ValidateDynamicQueryRequestURL, ValidateDNSHostProduction, Told
<1>6. CASE Send(c) \/ IndexerAnswers(c)
  BY <1>6 DEF Send, IndexerAnswers, Told, NoAnswer
<1>7. CASE FetchFails(c) \/ CheckStatus(c)
  BY <1>7 DEF FetchFails, CheckStatus, Told
<1>8. CASE ExtractDynamicItems(c)
  <2>1. ExtractError(TheQuery(c), reply[c]) \in {"nil", "ErrResponse"}
    BY <1>8, ExtractErrors DEF ExtractDynamicItems, Checked
  <2> QED BY <1>8, <1>0, <2>1 DEF ExtractDynamicItems, Told
<1>9. CASE NextItem(c) \/ AcceptItem(c)
  BY <1>9, <1>0 DEF NextItem, AcceptItem, Told
<1>10. CASE Merge(c)
  BY <1>10 DEF Merge, Told
<1> QED BY <1>1, <1>2, <1>3, <1>4, <1>5, <1>6, <1>7, <1>8, <1>9, <1>10 DEF Step, World

\* Only two steps return without an error: that of a playlist without a query
\* and the last one, when every item of the answer is accepted.
LEMMA ResolvedStep ==
  ASSUME TypeOK, NEW c \in Call, Fetched(c), Collected(c), Resolved(c), Step(c) \/ World(c)
  PROVE  Resolved(c)'
<1> USE DEF TypeOK
<1>0. ASSUME answer'[c].err # "nil" PROVE Resolved(c)'
  BY <1>0 DEF Resolved, Succeeded
<1>1. CASE pc'[c] # "idle"
  <2>1. answer'[c] = NoAnswer
    BY <1>1, FetchedStep DEF Fetched
  <2> QED BY <2>1, <1>0 DEF NoAnswer
<1>2. CASE pc'[c] = "idle" /\ ~ Merge(c) /\ ~ Resolve(c)
  <2>1. answer'[c].err # "nil"
    BY <1>2, RequestErrors, ExtractErrors
    DEF Step, World, Begin, Cancel, HydrateDynamicQueryString, BuildDynamicQueryRequest,
        ValidateDynamicQueryRequestURL, ValidateDNSHostProduction, Send, IndexerAnswers,
        ReadAll, FetchFails, CheckStatus, ExtractDynamicItems, NextItem, ApplyItemMap,
        AcceptItem, Return, Goto, Failure
  <2> QED BY <2>1, <1>0
<1>3. CASE Resolve(c)
  <2>1. CASE call[c].playlist = NoPlaylist
    BY <1>3, <1>0, <2>1 DEF Resolve, Return, Failure
  <2>2. CASE TheQuery(c) = NoQuery
    BY <1>3, <2>2 DEF Resolve, Resolved, Succeeded, TheQuery
  <2>3. CASE call[c].playlist # NoPlaylist /\ TheQuery(c) # NoQuery
    BY <1>3, <2>3, <1>1 DEF Resolve, Goto
  <2> QED BY <2>1, <2>2, <2>3
<1>4. CASE Merge(c)
  <2> DEFINE raw == reply[c].items
             renamed == [i \in DOMAIN raw |-> Renamed(TheQuery(c).itemMap, raw[i], Field)]
  <2>1. /\ pc[c] = "items" /\ n[c] > Len(raw) /\ UNCHANGED <<call, reply>>
        /\ answer'[c].items = call[c].playlist.items \o items[c]
    BY <1>4 DEF Merge, Return, Goto, mapping
  <2>2. reply[c] \in Replies /\ reply[c] \in Reply /\ reply[c] # NoReply /\ reply[c].ok
    BY <2>1, NoneAssumption, RepliesAssumption DEF Fetched, Answered, Unpacking
  <2>3. raw \in Seq(Object \cup {NotObject}) /\ DOMAIN raw = 1..Len(raw) /\ Len(raw) \in Nat
    BY <2>2 DEF Reply
  <2>4. ItemsDone(c) /\ n[c] - 1 = Len(raw)
    <3>1. ItemsDone(c)
      BY <2>1 DEF Collected
    <3>2. n[c] \in Nat /\ n[c] - 1 <= Len(raw) /\ n[c] > Len(raw) /\ Len(raw) \in Nat
      BY <2>1, <2>3, <3>1 DEF ItemsDone
    <3>3. n[c] - 1 = Len(raw)
      BY <3>2
    <3> QED BY <3>1, <3>3
  <2>5. SUFFICES ASSUME Unchained(TheQuery(c).itemMap)
                 PROVE  /\ items[c] = renamed
                        /\ \A i \in DOMAIN raw : renamed[i] \in Acceptable
    BY <2>1, <2>2 DEF Resolved, TheQuery
  <2>6. /\ Len(items[c]) = Len(raw)
        /\ \A i \in 1..Len(raw) : items[c][i] = renamed[i] /\ items[c][i] \in Acceptable
    BY <2>3, <2>4, <2>5 DEF ItemsDone
  <2>7. items[c] = [i \in 1..Len(items[c]) |-> items[c][i]]
    OBVIOUS
  <2> QED BY <2>3, <2>6, <2>7
<1> QED BY <1>1, <1>2, <1>3, <1>4

-----------------------------------------------------------------------------
LEMMA StepInv == IInv /\ [Next]_vars => IInv'
<1> SUFFICES ASSUME IInv, [Next]_vars PROVE IInv'
  OBVIOUS
<1>1. TypeOK'
  BY TypeStep DEF IInv
<1> DEFINE Good(c) == /\ Checked(c) /\ Fetched(c) /\ Collected(c)
                      /\ Allowed(c) /\ Told(c) /\ Resolved(c)
<1>2. TypeOK /\ \A c \in Call : Good(c)
  BY PerCall DEF IInv
<1>3. ASSUME NEW c \in Call, Step(c) \/ World(c), NEW h \in Call PROVE Good(h)'
  <2>1. CASE h = c
    BY <1>2, <1>3, <2>1, CheckedStep, FetchedStep, CollectedStep, AllowedStep, ToldStep,
       ResolvedStep
  <2>2. CASE h # c
    BY <1>2, <1>3, <2>2, OthersKeep, OtherCalls, OtherPromises
  <2> QED BY <2>1, <2>2
<1>4. ASSUME IndexerChanges \/ UNCHANGED vars, NEW h \in Call PROVE Good(h)'
  BY <1>2, <1>4, OtherCalls, OtherPromises DEF IndexerChanges, vars, mapping
<1>5. \A h \in Call : Good(h)'
  BY <1>3, <1>4 DEF Next
<1>6. RequestsAllowed' /\ ErrorTellsStage' /\ ResolvedFromOneReply'
  BY <1>5 DEF RequestsAllowed, Allowed, ErrorTellsStage, Told, ResolvedFromOneReply, Resolved
<1> QED BY <1>1, <1>5, <1>6 DEF IInv

\* The invariant the others follow from.
THEOREM InductiveInvariant == Spec => []IInv
BY InitInv, StepInv, PTL DEF Spec

\* Every call keeps its state within its types, whatever the indexer serves.
THEOREM TypeCorrect == Spec => []TypeOK
<1>1. IInv => TypeOK
  BY DEF IInv
<1> QED BY <1>1, InductiveInvariant, PTL

\* A resolved playlist is the static items followed by one whole answer of the
\* indexer, renamed as an unchained itemMap says: the loop over the map gives
\* the same object in every order.
THEOREM AllOrNothing == Spec => []ResolvedFromOneReply
<1>1. IInv => ResolvedFromOneReply
  BY DEF IInv
<1> QED BY <1>1, InductiveInvariant, PTL

\* The body of every response is closed when the fetch returns.
THEOREM NoBodyLeaks == Spec => []BodiesClosed
<1>1. IInv => BodiesClosed
  BY DEF IInv, Fetched, BodiesClosed
<1> QED BY <1>1, InductiveInvariant, PTL

\* A request is sent once, and only for a hydrated query to an endpoint that the
\* options allow: without AllowInsecureHTTP, over https to a host whose addresses,
\* looked up in this call where it is a name, are public without exception.
THEOREM OneAllowedRequest == Spec => []RequestsAllowed
<1>1. IInv => RequestsAllowed
  BY DEF IInv
<1> QED BY <1>1, InductiveInvariant, PTL

\* The error tells how far the call got.
THEOREM SentinelOrder == Spec => []ErrorTellsStage
<1>1. IInv => ErrorTellsStage
  BY DEF IInv
<1> QED BY <1>1, InductiveInvariant, PTL

=============================================================================
