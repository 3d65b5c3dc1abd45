SPECIFICATION FairSpec
CONSTANTS
  j1 = j1
  j2 = j2
  p1 = p1
  p2 = p2
  x1 = x1
  x2 = x2
  NoJob = NoJob
  NoEvent = NoEvent
  Jobs <- OneJob
  Pollers <- OnePoller
  Executors <- OneExec
  Events <- TwoEvents
  Limits <- OnlyTwo
  Faults <- NoFaults
  BatchLimit = 2
  MaxCopies = 1
  MaxStarts = 2
PROPERTY EveryJobFinishes
