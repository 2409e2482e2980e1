SPECIFICATION Spec
CONSTANTS
  g1 = g1
  g2 = g2
  g3 = g3
  Goroutine <- Pair
  Name <- MCName
  Lower <- MCLower
  Verifier <- MCVerifier
  BuiltIn <- MCBuiltIn
  ErrUnsupportedAlg = ErrUnsupportedAlg
  NoCall = NoCall
  NoWriter = NoWriter
INVARIANTS
  SupportedAlgorithmsSorted
