SPECIFICATION Spec
CONSTANTS
  alice = alice
  bob = bob
  account = account
  news = news
  family = family
  Clients <- MCClients
  Accounts = {account}
  Chats = {news}
  NoChat = NoChat
  ActionIds = {id1, id2}
  NoAction = NoAction
  Times <- MCTimes
  Lifetime = 1
  Profiles <- WriterProfiles
  Workers = {w1, w2}
  NoProfile = NoProfile
  NoId = NoId
  Operations <- WriteTools
  MaxCalls = 4
  MaxRestarts = 1
SYMMETRY Symmetry
INVARIANTS
  TypeOK
  SingleUse
  SendsAreConsented
  PolicyAtSend
  LockdownIsFinal
  AuditTellsTheStory
PROPERTIES
  ApprovedInTime
  ImplementsActionLifecycle
