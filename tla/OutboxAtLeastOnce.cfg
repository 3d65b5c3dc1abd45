SPECIFICATION OutboxSpec
CONSTANTS
  j1 = j1
  j2 = j2
  p1 = p1
  p2 = p2
  NoJob = NoJob
  Jobs <- MCJobs
  Events <- MCEvents
  Pollers <- MCPollers
  BatchLimit = 2
  MaxCopies = 2
  Faults <- OnlyDeath
INVARIANT AtLeastOnce
