SPECIFICATION Spec
CONSTANTS
  r1 = r1
  r2 = r2
  e1 = e1
  e2 = e2
  n1 = n1
  p1 = p1
  p2 = p2
  long = long
  i1 = i1
  i2 = i2
  Missing = Missing
  NoRow = NoRow
  NoBody = NoBody
  NoId = NoId
  NoPair = NoPair
  NoSession = NoSession
  Requests <- TwoRequests
  Emails <- TwoEmails
  Nicknames <- OneNickname
  Passwords <- TwoPasswords
  LongOnes <- OneLong
  Beginning <- LikeP1
  Ids <- TwoIds
  AccessTTL = 1
  RefreshTTL = 2
  MaxClock = 2
  Faults <- EveryFault
SYMMETRY AccountSymmetry
INVARIANTS OneAccountPerEmail RegisteredCanLogin FreshRegistrationSucceeds ServedWasProved
