SPECIFICATION FairSpec
CONSTANTS
  j1 = j1
  j2 = j2
  p1 = p1
  p2 = p2
  x1 = x1
  x2 = x2
  NoJob = NoJob
  NoEvent = NoEvent
  Jobs <- OneJob
  Pollers <- TwoPollers
  Executors <- TwoExecs
  Events <- TwoEvents
  Limits <- OnlyTwo
  Faults <- NoLoss
  BatchLimit = 2
  MaxCopies = 1
  MaxStarts = 1
PROPERTY WaitingJobStarts
INVARIANT WaitingJobIsCarried
