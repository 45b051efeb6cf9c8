SPECIFICATION Spec
CONSTANTS
  branch = branch
  main = main
  Absent = Absent
  Open = Open
  Key = {main}
  Getter = {g1}
  Setter = {s1}
  KeyLists <- ListsOfOne
  Begins <- NoPrefix
  Whole = 2
  Forgetful = TRUE
  Capacity = 1
  MaxBuf = 2
  Threshold = 1
  MaxFaults = 1
INVARIANT HitIsWhole
CHECK_DEADLOCK FALSE
