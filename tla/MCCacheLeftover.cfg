SPECIFICATION Spec
CONSTANTS
    k1 = k1  k2 = k2  s1 = s1  s2 = s2
    Absent = Absent  Short = Short
    Key = {k1}  Getter = {g1}  Setter = {s1, s2}  Cleaner = {c1}
    Lookups <- OneKey  Stores <- OneKey  Size <- UnitSize
    MaxAge = 0  MaxSize = 9
    Collide <- NoNames  SubDir <- OwnDirs  Overlap = FALSE
    MaxFaults = 1  MaxTime = 1
CHECK_DEADLOCK FALSE
PROPERTIES CleanRunsThrough
