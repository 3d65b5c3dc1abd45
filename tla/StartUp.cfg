SPECIFICATION FairSpec
CONSTANTS
  a1 = a1
  a2 = a2
  w1 = w1
  w2 = w2
  NoOne = NoOne
  Processes <- FourProcesses
  EarlyGap <- NoRedis
  LateGap <- NoSecret
  Latest = 5
  MaxDeaths = 2
INVARIANTS ServesOnlyFullSchema AppliedInOrder CutStopsEveryone
PROPERTY EveryoneServes
