SPECIFICATION FairSpec
CONSTANTS
  s1 = s1  s2 = s2  front = front  back = back
  Server = {s1, s2}
  Address = {front, back}
  MaxRuns = 2
  MaxRequests = 1
  MaxFaults = 1
  Settings <- Samples
  Factor <- SmallFactor
  Word = 128
  Error = Error
  Given = Given
  None = None
INVARIANTS ServersShareKey LimitIsMeant
PROPERTIES KeyOutlives StartsUndisturbed ShutdownEnds
CHECK_DEADLOCK FALSE
