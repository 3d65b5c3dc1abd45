SPECIFICATION Spec
CONSTANTS
  j1 = j1
  j2 = j2
  p1 = p1
  p2 = p2
  x1 = x1
  x2 = x2
  NoJob = NoJob
  NoEvent = NoEvent
  Jobs <- TwoJobs
  Pollers <- TwoPollers
  Executors <- TwoExecs
  Events <- FourEvents
  Limits <- UpToTwo
  Faults <- NoDuplicates
  BatchLimit = 2
  MaxCopies = 1
  MaxStarts = 2
SYMMETRY PipelineSymmetry
INVARIANTS NoDoubleHandOver OneExecution AttemptsCountStarts StartsBounded AcceptedAnswerIsLast
PROPERTIES ImplementsLifecycle
