SPECIFICATION FairSpec
CONSTANTS
  p1 = p1  p2 = p2  p3 = p3  t1 = t1  t2 = t2
  Worker <- TwoProcs
  Process <- TwoProcs
  ProcOf <- OwnProcess
  Killable <- TwoProcs
  Prompt <- TwoProcs
  NoProc = NoProc
  NoGen = NoGen
  Calls = {"compile", "save", "reset", "api", "ini"}
  ForceRestart = FALSE
  Tries = 1
  MaxSchedules = 1
  MaxCrashes = 1
PROPERTIES RestartHappens CacheComesBack
