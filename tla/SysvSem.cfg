SPECIFICATION FairSpec
CONSTANTS
  p1 = p1  p2 = p2  p3 = p3
  Process = {p1, p2}
  max_acquire = 1
  MaxSets = 2
  MaxCount = 1
  MaxUses = 2
  MaxMishaps = 1
CHECK_DEADLOCK FALSE
INVARIANTS UnitsConserved InitializeOneAtATime
PROPERTIES GetEnds AcquireEnds
