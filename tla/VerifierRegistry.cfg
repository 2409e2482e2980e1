SPECIFICATION Spec
CONSTANTS
  g1 = g1
  g2 = g2
  g3 = g3
  Goroutine <- Triple
  Name <- FewNames
  Lower <- FewLower
  Verifier <- FewVerifiers
  BuiltIn <- FewBuiltIn
  ErrUnsupportedAlg = ErrUnsupportedAlg
  NoCall = NoCall
  NoWriter = NoWriter
INVARIANTS
  TypeOK
  NoConcurrentMapWrite
PROPERTIES
  ImplementsContract
  CallsReturn
CHECK_DEADLOCK TRUE
