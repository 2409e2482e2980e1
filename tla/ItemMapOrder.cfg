SPECIFICATION Spec
CONSTANTS
  Call = {c1}
  Field = {"id", "title", "name"}
  Value = {"a", "b"}
  Absent = Absent
  NoField = NoField
  NotObject = NotObject
  Placeholder = {"viewer"}
  Acceptable <- MCAcceptable
  Playlist <- MCChainedPlaylist
  Replies <- MCReplies
  NoPlaylist = NoPlaylist
  NoQuery = NoQuery
  NoReply = NoReply
INVARIANT ItemMapFollowed
