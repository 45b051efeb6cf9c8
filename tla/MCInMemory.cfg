SPECIFICATION Spec
CONSTANTS
  d = d
  df = df
  dg = dg
  Folder = Folder
  None = None
  Path = {d, df, dg}
  Above <- TwoLevels
  Writer = {w1, w2, w3}
  Reader = {r1}
  Whole = 2
INVARIANTS ClosedIsReadWhole
PROPERTY FilesStay
SYMMETRY CallSymmetry
CHECK_DEADLOCK FALSE
