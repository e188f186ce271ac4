SPECIFICATION FairSpec
CONSTANTS
  Clients = {alice, bob}
  Tokens = {t1, t2, t3, t4}
  NoToken = NoToken
  NoClient = NoClient
  Threads = {h1, h2}
  MaxOperations = 3
  MaxCrashes = 2
INVARIANTS
  TypeOK
  SlotsAreBusyThreads
  ServedIsSaved
  RotationIsImmediate
PROPERTIES
  TokensAreKept
  KeepsPromise
  WindowReturns
CHECK_DEADLOCK FALSE
