SPECIFICATION Spec
CONSTANTS
  g1 = g1
  g2 = g2
  Goroutine <- MCGoroutine
  Receiver = Receiver
  Playlist <- MCPlaylist
  Original = Original
  None = None
SYMMETRY Symmetry
INVARIANTS
  TypeOK
  EachSeesItsOwn
CHECK_DEADLOCK FALSE
