SPECIFICATION Spec
CONSTANTS
  Goroutine = {g1, g2}
  NoCall = NoCall
  NoAnswer = NoAnswer
  NoOne = NoOne
  NoId = NoId
  Operation <- MCOperation
  Document <- MCDocument
  Requires <- MCRequires
  Build <- MCBuild
INVARIANTS TypeOK CompilerUsedAlone SingletonSettled CodedOnlyForTheDocument
PROPERTIES ImplementsContract CallsReturn
