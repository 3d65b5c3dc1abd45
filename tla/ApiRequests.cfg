SPECIFICATION Spec
CONSTANTS
  h1 = h1
  h2 = h2
  u1 = u1
  u2 = u2
  j1 = j1
  NoJob = NoJob
  Handlers <- TwoHandlers
  Users <- TwoUsers
  Jobs <- OneJob
  Owner <- OwnedBy1
  TextFields <- Texts
  NumberFields <- Numbers
  Values <- ZeroOrOne
  Created <- AllTwo
  Faults <- DbErrors
SYMMETRY HandlerSymmetry
INVARIANTS SequentialPutsCompose FieldsWereAsked DeletedStaysGone
