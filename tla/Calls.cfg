SPECIFICATION FairSpec
CONSTANTS
  alice = alice
  bob = bob
  account = account
  news = news
  family = family
  Clients <- MCClients
  Accounts = {account}
  Chats = {news, family}
  NoChat = NoChat
  ActionIds = {id1}
  NoAction = NoAction
  Times = {0}
  Lifetime = 1
  Profiles <- MixedProfiles
  Workers = {w1, w2}
  NoProfile = NoProfile
  NoId = NoId
  Operations <- Tools
  MaxCalls = 3
  MaxRestarts = 1
PROPERTIES
  ReadScope
  TakenIsAudited
