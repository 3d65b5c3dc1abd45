SPECIFICATION Spec
CONSTANTS
  j1 = j1
  j2 = j2
  j3 = j3
  j4 = j4
  k1 = k1
  NoNumber = NoNumber
  NoProbe = NoProbe
  Jobs <- FiveJobs
  Strangers <- OneForeign
  Texts <- SomeTexts
  DefaultSize = 3
  MaxPageSize = 4
  HalfWord = 8
  WalkSizes <- OneOrTwo
  MaxClock = 3
SYMMETRY ListingSymmetry
INVARIANTS TypeOK MissedAtMostDeleted RepeatedAtMostCreated AskedPageIsServed
