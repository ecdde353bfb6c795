SPECIFICATION Spec
CONSTANTS
  p1 = p1  p2 = p2  p3 = p3  t1 = t1  t2 = t2
  Worker <- TwoProcs
  Process <- TwoProcs
  ProcOf <- OwnProcess
  Killable <- TwoProcs
  Prompt <- TwoProcs
  NoProc = NoProc
  NoGen = NoGen
  Calls = {"resolve", "compile", "save", "reset", "api", "missing"}
  ForceRestart = TRUE
  Tries = 2
  MaxSchedules = 2
  MaxCrashes = 1
SYMMETRY Symmetric
INVARIANTS
  EarlyReadersAreSafe OneRestartPerSchedule DisabledForARestart RestartIsExclusive
