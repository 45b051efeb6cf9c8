SPECIFICATION FairSpec
CONSTANTS
  Cache = {a, b}
  Intervals <- ShortIntervals
INVARIANTS TypeOK AbortIsHeeded
PROPERTIES NotBeforeInterval PassIsComplete ShutdownEnds PassesRecur
CHECK_DEADLOCK FALSE
