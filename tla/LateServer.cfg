SPECIFICATION FairSpec
CONSTANTS
  Clients = {alice}
  Tokens = {t1, t2}
  NoToken = NoToken
  NoClient = NoClient
  Threads = {h1}
  MaxOperations = 1
  MaxCrashes = 1
PROPERTY GivenUpReturns
CHECK_DEADLOCK FALSE
