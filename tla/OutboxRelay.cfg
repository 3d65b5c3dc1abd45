SPECIFICATION OutboxFairSpec
CONSTANTS
  j1 = j1
  j2 = j2
  p1 = p1
  p2 = p2
  NoJob = NoJob
  Jobs <- OneJob
  Events <- MCEvents
  Pollers <- MCPollers
  BatchLimit = 2
  MaxCopies = 2
  Faults <- AllFaults
INVARIANTS TypeOK OneHolder NoEventForgotten
PROPERTY ImplementsDelivery
PROPERTY EveryEventSettles
