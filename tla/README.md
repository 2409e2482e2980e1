# Verification of dp1-go

dp1-go is the Go SDK of DP-1 playlists: it validates, decodes, signs, verifies, resolves, schedules
and merges playlist documents. It is a library. It owns no process, no persistent state and no
network protocol of its own, so what can go wrong lies in the order of its steps, in the state it
shares between goroutines and with its caller, in the clock and the network it is run against, and
in a few algorithms whose boundary cases a unit test hardly reaches. This directory holds TLA+
modules that model those parts, TLC configurations that check them on small instances, and TLAPS
proofs of the same properties for every value of the constants.

Every module translates the source; a comment above a definition names what it stands for where the
name does not say it. Definitions called `X_Variant` (`Lock_NotTaken`, `Past_Strict`) are plausible
bugs: each is `X` with one mistake, and shows that a property is able to notice it. Nothing else
refers to them.

## Inventory

| Component (source) | State | Operations | Meets | What is hard |
|---|---|---|---|---|
| local wall clock (`displayat/displayat.go`) | sampled offsets, candidates, the walk, the bracket | `Parse`, `resolveLocalWall` | the zone database | gaps, folds, changes of half an hour or a day; a fallback that must never be taken |
| scheduling (`displayat/schedule.go`) | resolved items, latest past instant, result | `ComputeActiveSet`, `NextDisplayAt` | a player with a clock and a timer | two functions that draw one boundary; a result that is used long after it was computed |
| verifier registry (`sign/registry.go`) | a map, an RWMutex | `RegisterVerifier`, `GetVerifier`, `SupportedAlgorithms` | every verification | concurrent map access, map iteration order, error paths under a lock |
| digest, signers, verifiers (`sign/payload.go`, `multisig.go`, `ed25519_*.go`, `ethereum_*.go`) | the document, digests that signers hold | sign, verify one, verify all, legacy | the registry, JCS | signatures made for a document that has moved on; the order of checks; two formats in one document |
| kids (`sign/didkey.go`, `didpkh.go`) | none | parse did:key, did:pkh | verifiers | text processing |
| validation and parsing (`internal/validate`, `parse.go`, `errors.go`) | `sync.Once`, one compiler, a mutex | `ParseAndValidate*`, `Validate*`, the validators | the embedded schema files, every parse of the program | lazy initialisation, an object that must not be used concurrently, a failure of the build mistaken for one of the document |
| dynamic query (`playlist/dynamicquery.go`) | query, request, response, items so far | `ResolveDynamicQuery`, `PlaylistItemsFromDynamicQuery`, `HydrateDynamicQueryString` | name service, indexer, the caller's context, the validators | partial answers, bodies left open, cancellation, checks in the right order, map iteration order |
| clone (`playlist/dynamicquery.go:496-627`) | arrays, maps and pointees of a playlist | `clonePlaylist` and its helpers | the receiver, every result, their owners | memory shared through two levels of mutual recursion; empty slices and maps |
| item decoding (`playlist/playlist.go`) | the receiver of `UnmarshalJSON`, its shadow | decode of items and series ids | `encoding/json`, `math/big`, copies of the item | reused variables, memory that the shadow shares, case variants of a key, a digit bound on an untrusted exponent |
| merge (`merge/merge.go`, `refmanifest/manifest.go`) | the display preferences being built | `DisplayForItem`, `ManifestForItem` | items, manifests, the defaults of a playlist | precedence, zero value against absence, blocks of memory that belong to the defaults |
| document types, `jcs`, embedded schemas, `version.go` | none | struct tags, library calls | everything | nothing that has steps |

How they meet. `ParseAndValidate*` validates bytes (`internal/validate`) and decodes them into the
types. A dynamic query validates every item it receives with the same validators. `sign` computes its
digest through `jcs` and looks verifiers up in the registry, once per signature. `displayat` is
called with decoded items by a player, which is also the caller of `merge`. State shared by
goroutines is the registry, the schema compiler and whatever a clone leaves in common. The properties
that make each component correct are those of its module below, and `PROJECT.json` lists the hazards
they are for, line by line.

## Modules

### displayat

* `ZoneClock` - instants, wall clocks, zones, `time.Date` of the Go library, and `MeaningOf`: what a
  reading means according to the extension. A zone has one transition, because the code never looks
  further than two days from a reading.
* `WallResolution` - `resolveLocalWall`, one step per phase and per loop iteration: sampling
  (`NearbyOffsets`), candidates, the earliest of them, the walk over a gap and the bisection.
  `MeaningOf` is its abstract specification.
* `DisplayAt` - values, `Parse`, and the active set and next change as the comments define them.
* `ScheduleContract` - the abstract specification of what a player gets from the helpers: it reads
  the clock, later shows the active set of that instant and arms a timer; meanwhile the clock runs and
  playlists are replaced. The player is the external caller that the comments of `schedule.go` describe.
* `DisplaySchedule` - the same player with the loops of `ComputeActiveSet` and `NextDisplayAt`, one
  step per iteration, shown to implement `ScheduleContract` (`ImplementsContract`). Its properties say
  that what the player shows (`OnDisplay`) is right until its timer goes off (`ShownUntilWake`) and
  wrong from then on (`WakeMeansChange`). It uses `MeaningOf` for local values, which is justified by
  `WallResolution`.

### sign

* `Verifiers` - the map and what storing and looking up do to it.
* `RegistryContract` - every call takes effect, or reads the whole registry, at one moment.
* `VerifierRegistry` - the three functions step by step behind `sync.RWMutex`, which is modelled as
  Go implements it: a writer announces itself, later readers wait behind it, and its unlock lets all
  of them in. It implements `RegistryContract`.
* `Signatures` - documents, entries, digests, the signing functions and every verifying function,
  with their checks in the order of the code. What the verifiers of applications answer is a constant
  (`CustomVerdict`): success, `ErrSigInvalid` or an error of their own, as `verifier.go:16-21` allows.
* `SignatureChain` - a document that is edited, reordered, signed by parties that read it some time
  before their signature arrives, extended by other software and verified entry by entry while
  verifiers are registered. A verification may be given what is no JSON, or a copy of the document whose
  "signatures" is no array of signature objects. It composes `Signatures` with the atomic registry of
  `RegistryContract`.

### validation

* `SchemaValidation` - files, functions with their schema and code, documents (known by the schemas
  they satisfy and by whether they decode), answers.
* `ParseContract` - a call answers what document, function and build determine, whatever other calls
  do.
* `SchemaValidator` - `sync.Once`, the walk over the embedded files, the mutex around the shared
  compiler, and the chain Singleton, Unmarshal, Lock, Compile, Validate, Unlock, code, decode. It
  implements `ParseContract`.

### dynamic query

* `DynamicQueries` - queries, endpoints, answers, and the decisions on them: hydration, request
  building, endpoint policy, extraction, `MapField` (one turn of `applyItemMap`). `Renamed` is the
  reference meaning of an itemMap: all its fields at once.
* `DynamicQuery` - one call from the receiver to the merged playlist. The name service answers
  anything, the network fails or stays silent, the indexer changes what it serves, the caller cancels.
  `lookedUp` keeps the addresses that this call was given for its endpoint's name. `EndpointAllowed`
  says what `dynamicquery.go:51-57` promises of the endpoint of a request that is sent: a literal host
  is its own address, a name has those that were looked up, and without `AllowInsecureHTTP` there must
  be one and all must be public. It is the reference that `RequestsAllowed` uses; the model decides as
  the code does, by `EndpointPolicy` and `AddressesAllowed`.

### items and their display

* `Displays` - display preferences, the controls of a manifest, and the three ways in which one set
  is laid over another: by `encoding/json` into a struct in use, by `overlayDisplay`, by
  `applyDisplayJSON`. A button is `Unset` or `FALSE` as the document has it, although the code keeps a
  bool: so the model can say what the code cannot tell apart, and its operators only ask for `TRUE`.
* `SeriesIDs` - literals of a series id (sign, digits before and after the point, exponent), the digit
  bound with its `int` arithmetic wrapped at `MaxInt`, the digits that `big.Rat` prints, and how many it
  writes for the fraction before anything is cancelled: `NumeratorDigits` and `DenominatorDigits`, where
  digits after the point count like a negative exponent. A literal is at most so long that the bound
  can be added to its length without overflow: a longer one does not fit into memory. `Denotes` is the
  reference: it compares two numbers by multiplication. `Number` and `Power` are recursive functions, so that both
  TLC and the provers can use them. As in JSON, the part of a number before its point has no zero in
  front of other digits; a string may have some.
* `ItemDecoding` - `PlaylistItem.UnmarshalJSON`, one step per member of the document. The variable may
  hold an earlier item, a copy of it may be kept, and the shadow shares with both what it was seeded
  with; each field behind a pointer has memory that is the shadow's own (`fresh`) or not, and a copy
  that points to the variable's memory or not (`shared`). Three fields stand for those that
  `encoding/json` treats alike: `title` for values, `displayAt` for pointers to scalars, `provenance`
  for the series id inside it. A document that is JSON `null` has no members and changes nothing; one
  that is neither `null` nor an object is refused.
* `ItemDisplay` - extends `ItemDecoding` by `DisplayForItem`, one step per layer, so that items reach it
  as the decoder leaves them: with raw JSON that is absent, null or broken. `alias` says which blocks
  of the result are memory of the defaults.

### clone

* `PlaylistClone` - goroutines that call `ResolveDynamicQuery` on one playlist and write to what they
  get, beside its owner. A part of a playlist is named by the fields that lead to it (`TypeOf` and
  `References` give the fields of each Go type); `points` says whose memory a field leads to, and
  `content` who wrote there last. One step copies one part, in the order of `clonePlaylist`, so that
  clones and the writes of callers that have returned interleave.

### MC modules

`MC_X` extends `X` and only gives values to its constants. `X_proofs` extends `X` and holds its
theorems.

## Runs

| Run | What is asked | Distinct states |
|---|---|---|
| `wall_resolution` | every reading of a day resolves to its meaning, in four kinds of clock change at every half hour around the day, and three date-line changes at midnights; the call ends; the fallback is dead code | 201,198 |
| `display_schedule` | the loops implement the contract and keep playlist order; what the player shows is right until its timer goes off and wrong from then on; a change that comes due is displayed | 464,556 |
| `verifier_registry` | three goroutines: the registry is linearizable, its map is never written while it is used, every call returns | 43,427 |
| `supported_algorithms` | violation: the list is not sorted | |
| `signature_chain` | each own signature verifies exactly while the document says what was signed; each result is that of its entry under a registry of the time of the call; a changed document is reported as that first; the verdict is that of the entries as a set | 1,810,512 |
| `schema_validator` | two goroutines: answers depend on document, function and build alone; the compiler is used alone; the Once settles; every call returns | 58,540 |
| `dynamic_query` | all or nothing from one answer; one request, to an endpoint whose addresses are public, looked up in this call if it is a name; bodies closed; errors tell the stage; a cancelled call returns | 17,073 |
| `item_map_order` | violation: an itemMap is not followed when a field is both target and source | |
| `item_display` | what a variable, its copy and their shared memory hold after each document; a kept copy keeps its values and its rating; the rating is the validated one; a series id is the number of the document at bounded cost; the highest layer decides each setting; the defaults are never written | 113,939 |
| `playlist_clone` | two goroutines and an owner: what one of them writes is seen nowhere else, in every part that the comments and tests describe as copied | 124,965 |
| `clone_sharing` | violation: a clone shares backing arrays with its receiver | |

Bounds, and why they are enough:

* Ticks are a quarter of an hour in `wall_resolution` (zone changes of 30 minutes and more, readings
  at every tick of one day) and an hour in `display_schedule`, where only the order of instants
  matters. `MaxClock` bounds the clock at five ticks: the items of the instances lie within it, so
  there is a moment before, at and after each of them.
* Three items are the least with which a cohort, an evergreen item and a later change coexist. The
  first playlist is any of three items, the replacements are a few.
* Three goroutines are the least with which a reader waits behind a writer that waits for another
  reader; the lists then have up to two keys. For the validator two suffice: one builds or holds the
  mutex, one waits. Its five builds are complete, incomplete, with a broken file, without an `$id` and
  with a duplicate one.
* `MaxSignatures` bounds a chain at two entries, enough for an own entry before, after and
  beside a foreign one. The verifier that an application registers in place of the built-in one answers
  with an error of its own; the proofs cover every verdict. A `Verification` is one call; it
  meets every state of the document.
* Dynamic queries: each way in which a query can be wrong alone, and answers with up to three items
  with the bad one at the end or in the middle. One call is enough: calls share nothing but the
  indexer, which changes its answer at any time anyway.
* Items: numerals are binary and `int` is five bits wide, with a bound of three digits, so that sums
  wrap around within the exponents that are tried, the least `int` and one beyond among them; every
  sign, point and exponent meets every short mantissa. `MaxDecodes` allows two documents, the least
  with which a variable is reused; the documents meet each other in every field, with nulls, values of
  another type, other spellings and repeated members. One setting, two buttons, two lists of keys and
  one key of `userOverrides` are enough: the layers treat settings alike. Numbers are decoded into a
  fresh variable only.
* Clone: three playlists that together have a part behind every reference field of the types, entities
  and links three deep (curator, link, author, link), and slices and maps without elements. Each caller
  and the owner write once: the property is about who sees one write.

Deadlock is checked except where the system really stops: a resolution that returned, a player whose
clock has reached `MaxClock`, and callers of a clone that have written.

Fairness. Steps of a call that block on nothing are weakly fair: a goroutine that can run does. The
writer's turn of the RWMutex and the compile mutex are strongly fair, because a `sync.Mutex` in
starvation mode hands over to the waiter. `WakeUp` is weakly fair: a player answers its timer. No
fairness makes the clock run, a playlist change, a caller call, or an indexer, a network or a name
service answer. A dynamic query that waits is only promised to return when its context is cancelled
(`WF(Abort)`), which is what `net` and `net/http` guarantee for the context of the request.

### Findings

* `sign/registry.go:39` says that `SupportedAlgorithms` "returns a sorted list"; it returns the keys
  in the order of a Go map. `supported_algorithms` finds two lists in different orders.
* `playlist/dynamicquery.go:474` says that each key of an itemMap is the DP-1 property and each value
  its source. With `{id: title, title: name}` the loop may write `title` from `name` and then delete
  it as the source of `id`; it depends on the order of the map. `item_map_order` finds that order.
  For maps in which no renamed source is itself a target (`Unchained`), the order does not matter:
  that is part of `ResolvedFromOneReply` and is proved.
* `playlist/dynamicquery.go:556` says that "a cloned playlist shares no backing array with its
  receiver". Of an item only the override, the inline manifest, `displayAt`, the rating and its
  reasons are copied, of the playlist not the note: a clone keeps the receiver's `provenance.dependencies` and
  `note.author`, for instance. `clone_sharing` ends a call with such an array. What is copied is copied
  completely: that is `EachSeesItsOwn`.

Smaller things that the models show and no run is spent on:

* `merge/merge.go:28` says that the error of `DisplayForItem` "is the inline manifest's decode error,
  and only when ref is nil"; an override that does not decode (`merge.go:52`) is an error too, with or
  without a manifest. `LastWinsButForTheGap` has both causes.
* `clonePlaylist` copies `headers` and `itemMap` only if they have entries: an empty map that is not nil
  stays the receiver's, and an entry put into it is seen by both (`Promised` leaves it out).
* `playlist/playlist.go:406` says that a literal within the digit bound "expands to at
  most maxSeriesIDDigits decimal digits". That holds of the numerator. The denominator that `big.Rat` writes
  has the digits after the point on top of a negative exponent, each of which is bounded alone: at most
  twice as many digits. `SeriesIDIsTheNumber` and `DigitBoundBoundsWork` state both bounds.
* `UnmarshalJSON` commits its shadow only without an error, but a document that is refused has already
  been decoded into the memory behind the pointers and raw fields that the variable held. A caller that
  reuses a variable after an error, or keeps a copy of an item and decodes into its variable again, sees
  that. `DecodeMergesOrKeeps` states exactly what may have changed in the variable, and
  `CopyKeepsItsValues` what may not change in the copy: its values and its rating, which always gets new
  memory.

## Proofs

All theorems hold for every value of the constants that satisfies the named assumptions of the
modules. Assumptions beyond the types of constants are few: `None`-like values are not members of
the sets beside them, `Lower` is idempotent, the built-in verifiers are registered at start,
verifiers of applications answer as their interface says (`CustomAssumption`), and
`ChangesAssumption`: a zone changes by at most half a day, or by at most a day when its clock reads
00:00. The code relies on it: a change of fourteen hours at noon may escape its samples or its walk.
Zones of the last hundred years satisfy it, the changes of the date line among them.

| Module | Theorems | Argument |
|---|---|---|
| `WallResolution_proofs` | `ResolutionCorrect`, `FallbackNeverTaken`, `TypesAndBracket`, `MeaningKeepsOrder` | The five samples include both offsets whenever the reading is in neither gap nor far from the change; in a gap the walk starts before the change and its 36 hours pass it, since noon of the day is within half a day of an ordinary change, and a change of the date line is a multiple of a day away from the midnight of the reading (`Multiples`). The bracket invariant carries the bisection. |
| `DisplaySchedule_proofs` | `TypeCorrect`, `OrderPreserved`, `ShownIsCurrent`, `WakeIsNeeded`, `Refinement` | One loop invariant per loop: what is resolved so far, the maximum of what is past so far, what is selected so far, the least upcoming instant so far. `Show` is then the contract's `Finish`, every other step of a loop a stutter. For the timer: between `now` and the next upcoming instant no instant is reached, so the cohort stands; at that instant its items join the past and become the cohort, so the set changes. Needs that a finite set of instants has a maximum. |
| `VerifierRegistry_proofs` | `TypeCorrect`, `NoMapRace`, `Linearizable` | `IInv` says what the lock means (who is among the readers, who is the writer, that a writer in the body is alone) and that a list holds keys of the map as it is: mutual exclusion alone would not give that the list is the registry of one moment. |
| `SignatureChain_proofs` | `TypeCorrect`, `SignaturesHold`, `ResultsAreExplained`, `MismatchFirst`, `VerdictOfTheDocument` | `CustomAssumption` is the contract of the `Verifier` interface: no verifier answers with `ErrPayloadHashMismatch` (`VerifierOutcome`). The history variables `madeFor` and `legacyFor` are matched with the entries: each own entry is what its signer makes of the digest of that content. A verification's results so far are explained by registries it may have seen, the current one among them. For the verdict, `AnswersOfResults`: an answer lists the failed entries among all results, so that no failed entry is missing from it and no good one is in it, in whatever order the entries stand. |
| `SchemaValidator_proofs` | `TypeCorrect`, `CompileNeverConcurrent`, `CompilerComplete`, `OnlyDocumentsAreCoded`, `AnswersAreTheDocuments` | The Once: at most one goroutine is inside, nobody is past it before it is done, and the walk has added exactly the files before the next one, each of them addable. Each stage of a call has established a part of the verdict (`Reached`). |
| `DynamicQuery_proofs` | `TypeCorrect`, `AllOrNothing`, `NoBodyLeaks`, `OneAllowedRequest`, `SentinelOrder` | Each stage remembers the checks behind it (`Checked`), what is sent, received and open (`Fetched`), and what is mapped (`Collected`): the object at hand is the reference renaming over the fields already done. `RenameOne` shows that one turn of the loop extends that set by its field, for every order. `PolicySound`: what passes `EndpointPolicy`, and the lookup if it asks for one, is an endpoint that the options allow. |
| `ItemDisplay_proofs` | `TypeCorrect`, `RatingIsValidated`, `DecodeMergesOrKeepsHolds`, `DisplayIsLastWins`, `DefaultsStayUntouched`, `CopyKeepsItsValuesHolds`, `SeriesIDHolds`, `DigitBoundBoundsWork` | `InPlace`: during a call the variable has what it had but for raw JSON and pointees, and nil stays nil; each member step may only touch its own field (`OnlyMember`). `MergeInv`: after some members the shadow holds their merge (`PlainAfter`, `DisplayAfter`), so after all of them the item does. `CallInv`: what is built is the layers so far; `LaidWins` shows that five layers laid over each other are the last one that speaks, setting by setting. No block of the result is the defaults' because `ClonedBlocks` is all of them. `IdInv`: the series id of a variable, and of the shadow after some members, is the number on the wire, and a saved error has its cause in the document (`IsCause`). What one literal decodes to is arithmetic on sums that are carried along the digits: `NumberConcat` splits a numeral, `PowerSum` and `Remainder` shift its point, `CanonicalIs` drops leading zeros, and `WrapBelow` says where the sum of length and exponent cannot wrap around, from which `DigitBoundBoundsWork` follows. |
| `PlaylistClone_proofs` | `TypeCorrect`, `WritesStayApart`, `PromisedPartsCopied` | While a call clones, each part it has to copy is copied, or lies below one that is still on its stack (`CopiedOrDue`), and whatever is on the stack is reached through memory of its own by the time its turn comes (`InOrder`). With `PointsApart` (nobody has memory of another goroutine) each promised part is the caller's own when the call returns, and `ReceiverKept` and `OwnKept` say what such memory holds. |

Each invariant theorem has the form `Init => IInv`, `IInv /\ [Next]_vars => IInv'`, `IInv =>` the
property.

Every safety invariant, action property and refinement that a passing run checks is stated by one of
these theorems. What a recursive function computes (`Number`, `Power`, `FailedEntries`, `OwnerOf`) is
proved by an induction over a set of naturals (`SetInduction`), which needs no operator as a parameter.

Only model-checked: liveness (`EveryCallReturns`, `DueIsAnswered`, `CallsReturn` of the registry and
of the validator, `CancelledCallReturns`), which needs `ENABLED`, out of the provers' reach.

## Not modelled

* JSON Schema, JCS, Ed25519, Keccak and secp256k1: documents are known by the schemas they satisfy,
  digests are the canonical document, a signature knows its key and digest. That a text may fail to be
  JSON is modelled.
* Text: patterns of displayAt values, multibase, CAIP-10, EIP-55, URL and dot-path syntax are single
  facts about a value ("malformed", "the URL parses").
* What `net/http` does with a request: redirects and the second lookup of the host belong to the
  client that the caller passes.
* Reassignment of the validation hooks of `internal/validate`, which only tests do.
* Document types, `version.go`, scripts: no steps and no decisions.
* Marshalling of items and series ids, which writes what is held; the decoding of defaults and of the
  other blocks of a playlist by `encoding/json` alone.
* The scalars of a display behind pointers (margin, autoplay, loop): they are values here. A display
  that is returned shares their memory with the defaults; the code only ever replaces those pointers.
* What a caller does to a clone while another goroutine clones the same receiver: the owner of a
  playlist that is being cloned must not write to it, as the code documents no lock for it.

## Plan

Done, in this order: local wall clock, scheduling, registry, signatures, validation, dynamic query,
item decoding with series ids, merge, clone; the run `item_display` composes decoding and merge.

Next:

1. `SignatureChain` with the RWMutex of `VerifierRegistry` instead of the atomic registry, in one run;
   its refinement justifies the atomic one already.
2. A player that resolves, decodes and schedules one playlist again and again: `DynamicQuery`,
   `ItemDisplay` and `DisplaySchedule` in one module.
