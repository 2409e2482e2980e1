SPECIFICATION Spec
CONSTANTS
  H = 1
  NilLocation = NilLocation
  None = None
  MaxClock = 5
  Playlists <- MCPlaylists
  Replacements <- FewPlaylists
  Locations <- MCLocations
INVARIANTS
  TypeOK
  ShownInOrder
  ShownUntilWake
  WakeMeansChange
PROPERTIES
  ImplementsContract
  DueIsAnswered
CHECK_DEADLOCK FALSE
