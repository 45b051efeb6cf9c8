SPECIFICATION FairSpec
CONSTANTS
    k1 = k1  k2 = k2  s1 = s1  s2 = s2
    Absent = Absent  Short = Short
    Key = {k1, k2}  Getter = {g1}  Setter = {s1}  Cleaner = {c1}
    Lookups <- BothKeys  Stores <- NoneOrBoth  Size <- UnitSize
    MaxAge = 0  MaxSize = 0
    Collide <- AllStaged  SubDir <- OneBlobDir  Overlap = TRUE
    MaxFaults = 2  MaxTime = 1
CHECK_DEADLOCK FALSE
PROPERTIES Termination
