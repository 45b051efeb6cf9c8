SPECIFICATION Spec
CONSTANTS
    k1 = k1  k2 = k2  s1 = s1  s2 = s2
    Absent = Absent  Short = Short
    Key = {k1, k2}  Getter = {g1}  Setter = {s1, s2}  Cleaner = {c1, c2}
    Lookups <- OneKey  Stores <- KeyOrBoth  Size <- UnevenSize
    MaxAge = 0  MaxSize = 1
    Collide <- NoNames  SubDir <- OwnDirs  Overlap = FALSE
    MaxFaults = 1  MaxTime = 2
CHECK_DEADLOCK FALSE
PROPERTIES CleanMeetsLimits EvictsOldestFirst
