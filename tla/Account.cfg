SPECIFICATION FairSpec
CONSTANTS
  Callers = {c1}
  NoTicket = NoTicket
  MaxOpens = 2
  MaxRequestId = 8
  MaximumRetired = 1
  MaxSessions = 2
  MaxInputs = 2
INVARIANTS
  TypeOK
  OneInputAtATime
  SecretsLiveWithSession
  ReadErrorsStayPrivate
PROPERTIES
  UsesRouterProperly
  ImplementsAuthorization
  OwnerReturns
  InputGuardLifts
  StopReleasesReaders
CHECK_DEADLOCK FALSE
