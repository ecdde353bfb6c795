SPECIFICATION Spec
CONSTANTS
  w1 = w1  w2 = w2  p1 = p1  p2 = p2  p3 = p3
  Worker = {w1, w2}
  Path = {p1, p2, p3}
  NoPath = NoPath  NoText = NoText
  Default = p1
  MaxPaths = 3
  Cells = 4
  MaxRestarts = 2
  Early = FALSE
CHECK_DEADLOCK FALSE
SYMMETRY Symmetric
INVARIANTS   EachPathOnce
