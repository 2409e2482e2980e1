SPECIFICATION Spec
CONSTANTS
  H = 4
  None = None
  Locations  <- MCLocations
  Midnights  <- MCMidnights
  ClockTimes <- MCClockTimes
INVARIANTS
  TypeOK
  ResolvesToMeaning
  FallbackUnreachable
PROPERTIES
  EveryCallReturns
CHECK_DEADLOCK FALSE
