SPECIFICATION FairSpec
CONSTANTS
  Callers = {c1, c2}
  NoTicket = NoTicket
  MaxOpens = 4
  MaxRequestId = 4
  MaximumRetired = 1
  MaxChats = 1
  MaxReads = 2
INVARIANTS
  TypeOK
  RequestsMatchWaiters
  OutcomeIsMine
  LateAnswersAreRecognised
  ListIsWhole
PROPERTY ReadsAreBounded
