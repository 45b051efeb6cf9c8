SPECIFICATION Spec
CONSTANTS
    k1 = k1  k2 = k2  s1 = s1  s2 = s2
    Absent = Absent  Short = Short
    Key = {k1, k2}  Getter = {g1}  Setter = {s1, s2}  Cleaner = {c1}
    Lookups <- BothKeys  Stores <- SecondFirst  Size <- UnitSize
    MaxAge = 0  MaxSize = 1
    Collide <- NoNames  SubDir <- OneBlobDir  Overlap = TRUE
    MaxFaults = 1  MaxTime = 0
CHECK_DEADLOCK FALSE
INVARIANTS TypeOK HitIsComplete NoEntryLost ParallelUseIsSafe
PROPERTIES OverwriteSticks ImplementsCache
SYMMETRY CallSymmetry
