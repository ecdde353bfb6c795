SPECIFICATION FairSpec
CONSTANTS
  s1 = s1  s2 = s2
  Signal = {s1, s2}
  NoSignal = NoSignal
  Batch = 2
  MaxRecords = 4
  MaxRaised = 4
  MaxRequests = 2
  Unblocks = FALSE
  Quiet = TRUE
INVARIANTS PcntlTypeOK 
PROPERTIES ImplementsQueue SignalsArePlayed
