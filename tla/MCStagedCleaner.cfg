SPECIFICATION FairSpec
CONSTANTS
  w1 = w1  w2 = w2  w3 = w3
  t1 = t1  t2 = t2
  d1 = d1
  x1 = x1  x2 = x2  x3 = x3
  None = None  Pending = Pending
  Writer = {w1, w2}
  Reader = {}
  Cleaner = {c1}
  Target = {t2}
  Dir = {}
  Parents <- Flat
  Suffix = {x1, x2}
  Draw <- OwnSuffix
  LooksStaged <- Lookalike
  Whole = 1
  Attempts = 2
  MaxFaults = 2
INVARIANTS TypeOK LeftoversGo
PROPERTIES ImplementsStorage Termination
CHECK_DEADLOCK FALSE
