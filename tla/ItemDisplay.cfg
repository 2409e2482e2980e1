SPECIFICATION Spec
CONSTANTS
  Base <- MCBase
  MaxInt = 15
  MaxSeriesIDDigits = 3
  NoExponent = NoExponent
  NotDigits = NotDigits
  Refused = Refused
  Setting = {"scaling"}
  Value = {"fit", "fill"}
  Button = {"click", "drag"}
  Keys = {"arrows", "space", "none"}
  NoKeys = "none"
  OverrideKey = {"scaling"}
  Unset = Unset
  Malformed = Malformed
  Text = {"", "a", "b"}
  Blank = ""
  Label = {"mature", "general"}
  Nil = Nil
  Null = Null
  Mismatch = Mismatch
  NotObject = NotObject
  Document <- MCDocument
  FirstDocument <- MCFirstDocument
  MaxDecodes = 2
  Defaults <- MCDefaults
  Fetched <- MCFetched
  Failure = Failure
INVARIANTS
  TypeOK
  RatingIsTheValidatedOne
  DecodeMergesOrKeeps
  SeriesIDIsTheNumber
  LastWinsButForTheGap
PROPERTIES
  DefaultsUntouched
  CopyKeepsItsValues
CHECK_DEADLOCK TRUE
