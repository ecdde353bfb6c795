SPECIFICATION Spec
CONSTANTS
  w1 = w1  w2 = w2  a = a  b = b  c = c
  Worker = {w1, w2}
  Name = {a, b, c}
  NoName = NoName
  NoWorker = NoWorker
  InitialReal <- Third
  Absolute = {a, b}
  SizeOf <- OneTwo
  KeySize = 1
  Memory = 4
  MinFree = 2
  WastedLimit = 2
  max_num_entries = 2
  ValidateTimestamps = TRUE
  RevalidatePath = FALSE
  Protection = 0
  Freq = 1
  Calls = {"include", "force"}
  MaxTime = 1
  MaxEdits = 0
  MaxRelinks = 1
  MaxScripts = 3
  MaxCrashes = 1
CHECK_DEADLOCK FALSE
SYMMETRY WorkerSymmetry
INVARIANTS TypeOK MemoryAccounted ExhaustionSchedules OneLiveScript
