SPECIFICATION Spec
CONSTANTS
  w1 = w1  w2 = w2  a = a  b = b  c = c
  Worker = {w1, w2}
  Name = {a, b}
  NoName = NoName
  NoWorker = NoWorker
  InitialReal <- Linked
  Absolute = {a, b}
  SizeOf <- UnitSize
  KeySize = 1
  Memory = 6
  MinFree = 1
  WastedLimit = 2
  max_num_entries = 3
  ValidateTimestamps = TRUE
  RevalidatePath = FALSE
  Protection = 1
  Freq = 1
  Calls = {"include", "once", "cached"}
  MaxTime = 4
  MaxEdits = 1
  MaxRelinks = 1
  MaxScripts = 2
  MaxCrashes = 0
CHECK_DEADLOCK FALSE
SYMMETRY WorkerSymmetry
INVARIANTS StoredIsCurrent BoundedStaleness
