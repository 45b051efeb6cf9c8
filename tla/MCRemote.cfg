SPECIFICATION FairSpec
CONSTANTS
  branch = branch
  main = main
  Absent = Absent
  Open = Open
  Key = {branch, main}
  Getter = {g1}
  Setter = {s1}
  KeyLists <- Lists
  Begins <- Prefixed
  Whole = 3
  Forgetful = FALSE
  Capacity = 1
  MaxBuf = 2
  Threshold = 1
  MaxFaults = 2
INVARIANTS TypeOK ReadsWhatWasStored UnbrokenIsWhole OnlyWholeIsStored
PROPERTIES ImplementsCache Termination
CHECK_DEADLOCK FALSE
