-------------------------- MODULE SchemaValidation --------------------------
(***************************************************************************)
(* The data of internal/validate and of the dp1 package's ParseAndValidate *)
(* functions: the embedded schema files, the functions and the schema and  *)
(* code each works with, the documents they are given and what they answer.*)
(***************************************************************************)
EXTENDS Naturals, Sequences

CONSTANTS
  Operation,   \* the functions that are called
  Document,    \* the documents they are given
  Requires,    \* the files each schema needs, the one it is in among them
  NoId         \* a file without $id

URL ==
  {"playlist", "playlistItem", "playlistGroup", "refManifest", "channels",
   "playlists", "playlist+playlists", "item+playlists", "rating",
   "playlist+rating", "item+rating", "playlist+playlists+rating",
   "item+playlists+rating"}

File == [id : URL \cup {NoId}, json : BOOLEAN]

ErrorCode ==
  {"playlistInvalid", "playlistGroupInvalid", "refManifestInvalid", "channelInvalid"}

\* ParseAndValidate*: the schema validated against, the code of a failure.
ParseAndValidate ==
  [decodes : {TRUE},
   url : {"playlist", "playlist+playlists", "playlist+rating",
          "playlist+playlists+rating"},
   code : {"playlistInvalid"}]
  \cup { [decodes |-> TRUE, url |-> "playlistGroup", code |-> "playlistGroupInvalid"],
         [decodes |-> TRUE, url |-> "refManifest", code |-> "refManifestInvalid"],
         [decodes |-> TRUE, url |-> "channels", code |-> "channelInvalid"] }

ValidateContentRatingExtension ==
  [decodes |-> FALSE, url |-> "rating", code |-> "playlistInvalid"]

\* The validators themselves, which dynamic queries call for each item.
Validators == [decodes : {FALSE}, url : URL, code : {"none"}]

Operations ==
  ParseAndValidate \cup {ValidateContentRatingExtension} \cup Validators

ASSUME OperationAssumption == Operation \subseteq Operations

\* json: it is JSON at all; valid: the schemas it satisfies; typed: its members
\* have the types of the Go struct, which checks more than the schemas do.
ASSUME DocumentAssumption ==
  Document \subseteq [json : BOOLEAN, valid : SUBSET URL, typed : BOOLEAN]

ASSUME RequiresAssumption == Requires \in [URL -> SUBSET URL]

ASSUME NoIdAssumption == NoId \notin URL

-----------------------------------------------------------------------------
Added(files, n) == { files[i].id : i \in 1..n }

\* What AddResource, and the reading before it, want of a file.
Addable(resources, file) == file.json /\ file.id # NoId /\ file.id \notin resources

Sound(files) == \A n \in 1..Len(files) : Addable(Added(files, n - 1), files[n])

Compiles(resources, url) == Requires[url] \subseteq resources

Errors == {"nil", "schema", "compile", "ErrValidation", "decode"}

\* (nil, err) or (&v, nil).
Answers ==
  [value : BOOLEAN, err : {"nil"}, code : {"none"}]
  \cup [value : {FALSE}, err : Errors \ {"nil"}, code : ErrorCode \cup {"none"}]

Failed(err, code) == [value |-> FALSE, err |-> err, code |-> code]

\* Variant: every error of a validator gets the code.
ValidationErr_AnyError(err, code) == Failed(err, code)

\* errors.Is(err, ErrValidation) decides whether the code is the document's.
ValidationErr(err, code) == Failed(err, IF err = "ErrValidation" THEN code ELSE "none")

=============================================================================
