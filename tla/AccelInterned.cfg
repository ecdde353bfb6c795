SPECIFICATION FairSpec
CONSTANTS
  p1 = p1  p2 = p2  parent = parent  none = none  a = a  b = b  c = c
  Process = {p1, p2}
  Parent = parent
  String = {a, b, c}
  NoString = none
  Slot = {1, 2}
  hash <- Hash
  size <- Sizes
  Units = 5
  Startup = {a}
  MaxScript = 1
  MaxRestarts = 2
  MaxDeaths = 1
INVARIANTS StringsStay OncePerString ListIsWhole
PROPERTIES LockIsReleased
