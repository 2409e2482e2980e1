SPECIFICATION Spec
CONSTANTS
  Name <- MCName
  Lower <- MCLower
  Verifier <- MCVerifier
  BuiltIn <- MCBuiltIn
  ErrUnsupportedAlg = ErrUnsupportedAlg
  Text <- MCText
  NotJSON = NotJSON
  Content <- MCContent
  Canonical <- MCCanonical
  Key <- MCKey
  NoSignature = NoSignature
  AlgEd25519 = 3
  AlgEIP191 = 4
  CustomVerdict <- MCCustomVerdict
  Signers <- MCSigners
  LegacyKey = "k1"
  Foreign <- MCForeign
  Verification = {v1}
  MaxSignatures = 2
  Undecodable = Undecodable
  NoDigest = NoDigest
INVARIANTS
  TypeOK
  SignatureCoversContent
  ResultsExplained
  VerdictIsOfTheDocument
  MismatchReportedFirst
CHECK_DEADLOCK TRUE
