SPECIFICATION FairSpec
CONSTANTS
  r1 = r1
  r2 = r2
  r3 = r3
  u1 = u1
  u2 = u2
  j1 = j1
  j2 = j2
  NoJob = NoJob
  NoKey = NoKey
  NoText <- Nothing
  Texts <- OneText
  Requests <- OneRequest
  Users <- TwoUsers
  Bodies <- FewBodies
  Jobs <- TwoJobs
  Faults <- NoFault
PROPERTIES ExpiredKeysAreForgotten
