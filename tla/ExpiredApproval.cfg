SPECIFICATION Spec
CONSTANTS
  alice = alice
  bob = bob
  account = account
  news = news
  family = family
  Clients <- MCClients
  Accounts = {account}
  Chats = {news}
  NoChat = NoChat
  ActionIds = {id1}
  NoAction = NoAction
  Times <- MCTimes
  Lifetime = 1
  Profiles <- WriterProfiles
  Workers = {w1, w2}
  NoProfile = NoProfile
  NoId = NoId
  Operations <- WriteTools
  MaxCalls = 2
  MaxRestarts = 0
PROPERTY ApprovalsAreTimeLimited
