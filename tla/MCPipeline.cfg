SPECIFICATION Spec
CONSTANTS
  j1 = j1  j2 = j2
  lock = lock  fallback = fallback  Blank = Blank
  Absent = Absent  Broken = Broken
  Job = {j1, j2}
  Cleaner = {c1}
  Key = {lock, fallback}
  Keys <- GuideKeys
  AnyKey = {}
  SubDir <- TwoDirs
  Size = 2
  MaxFaults = 2
INVARIANTS TypeOK RestoredIsWhole PrimaryWasMissing JobsRepair  LeftoversGo
CHECK_DEADLOCK FALSE
