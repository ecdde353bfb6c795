SPECIFICATION FairSpec
CONSTANTS
  p1 = p1  p2 = p2  p3 = p3
  a = a  b = b
  Process = {p1, p2}
  NoProcess = NoProcess
  Id = {a, b}
  NoId = NoId
  Size = {1, 2}
  MaxRequests = 2
  MaxCollections = 1
  MaxMishaps = 1
CHECK_DEADLOCK FALSE
INVARIANTS TypeOK  
PROPERTIES RequestsEnd
