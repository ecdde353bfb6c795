SPECIFICATION ShmSpec
CONSTANTS
  p1 = p1  p2 = p2
  k1 = k1  k2 = k2  k3 = k3
  short = short  long = long
  Process = {p1, p2}
  Key = {k1, k2, k3}
  Value = {short, long}
  NoProcess = NoProcess  NoKey = NoKey  NoValue = NoValue
  units <- Units
  shm_size = 5
  MaxSegments = 1
  AttachLocked = TRUE
SYMMETRY Symmetric
INVARIANT SegmentIsTiled
PROPERTIES ImplementsMap
