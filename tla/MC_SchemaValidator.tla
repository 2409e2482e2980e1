-------------------------- MODULE MC_SchemaValidator --------------------------
EXTENDS SchemaValidator

\* Three functions with a code of their own each, one that does not decode and
\* one validator; the channel schema refers to the ref manifest's.
MCOperation ==
  { [decodes |-> TRUE, url |-> "playlist", code |-> "playlistInvalid"],
    [decodes |-> TRUE, url |-> "channels", code |-> "channelInvalid"],
    ValidateContentRatingExtension,
    [decodes |-> FALSE, url |-> "playlist", code |-> "none"] }

\* Not JSON; a playlist, well typed or not; a channel with a rating.
MCDocument ==
  { [json |-> FALSE, valid |-> {}, typed |-> FALSE],
    [json |-> TRUE, valid |-> {"playlist"}, typed |-> TRUE],
    [json |-> TRUE, valid |-> {"playlist"}, typed |-> FALSE],
    [json |-> TRUE, valid |-> {"channels", "rating"}, typed |-> TRUE] }

MCRequires ==
  [u \in URL |-> IF u = "channels" THEN {"channels", "refManifest"} ELSE {u}]

Ok(u) == [id |-> u, json |-> TRUE]

\* Complete; without the ref manifest; with a file that is not JSON, has no $id
\* or has the $id of another.
MCBuild ==
  { <<Ok("playlist"), Ok("refManifest"), Ok("channels"), Ok("rating")>>,
    <<Ok("playlist"), Ok("channels"), Ok("rating")>>,
    <<Ok("playlist"), [id |-> "channels", json |-> FALSE], Ok("rating")>>,
    <<Ok("playlist"), [id |-> NoId, json |-> TRUE]>>,
    <<Ok("playlist"), Ok("rating"), Ok("playlist")>> }

=============================================================================
