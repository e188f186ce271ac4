SPECIFICATION Spec
CONSTANTS
  alice = alice
  bob = bob
  home = home
  listed = listed
  foreign = foreign
  Clients <- MCClients
  Accounts = {home}
  Chats = {}
  NoChat = NoChat
  Origins <- MCOrigins
  NoOrigin = NoOrigin
  NoBearer = NoBearer
  EmptyId = EmptyId
  MaximumTextBytes = 4
  Templates <- MCTemplates
  EditedDocuments <- MCEditedDocuments
  Requests <- MCRequests
  Texts <- MCTexts
  MaxAccounts = 1
  MaxEdits = 1
  MaxLaunches = 1
INVARIANT ReadsAreAnswered
CHECK_DEADLOCK FALSE
