SPECIFICATION Spec
CONSTANTS
  w1 = w1
  w2 = w2
  w3 = w3
  t1 = t1
  t2 = t2
  d1 = d1
  x1 = x1
  x2 = x2
  x3 = x3
  None = None
  Pending = Pending
  Writer = {w1, w2, w3}
  Reader = {r1}
  Cleaner = {}
  Target = {t1}
  Dir = {d1}
  Parents <- Deep
  Suffix = {x1, x2}
  Draw <- AnySuffix
  LooksStaged = {}
  Whole = 2
  Attempts = 2
  MaxFaults = 1
INVARIANT StagedIsKept
PROPERTY ImplementsStorage
CHECK_DEADLOCK FALSE
