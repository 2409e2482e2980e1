SPECIFICATION Spec
CONSTANTS
  Call = {c1}
  Field = {"id", "title", "name"}
  Value = {"a", "b"}
  Absent = Absent
  NoField = NoField
  NotObject = NotObject
  Placeholder = {"viewer"}
  Acceptable <- MCAcceptable
  Playlist <- MCPlaylist
  Replies <- MCReplies
  NoPlaylist = NoPlaylist
  NoQuery = NoQuery
  NoReply = NoReply
INVARIANTS TypeOK ResolvedFromOneReply BodiesClosed RequestsAllowed ErrorTellsStage
PROPERTY CancelledCallReturns
