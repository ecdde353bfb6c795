SPECIFICATION FairSpec
CONSTANTS
  k1 = k1  k2 = k2  k3 = k3  d1 = d1  d2 = d2  r1 = r1
  Key = {k1, k2, k3}
  Data = {d1, d2}
  Reader = {r1}
  Slot = {0, 1}
  SlotOf <- Collide
  max_num_entries = 3
  NoData = NoData
  NoKey = NoKey
  MaxUpdates = 4
  MaxCrashes = 1
CHECK_DEADLOCK FALSE
INVARIANTS ChainsAreSound FindReturnsAValue
PROPERTIES ImplementsAlias OperationsEnd
