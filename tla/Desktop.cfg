SPECIFICATION Spec
CONSTANTS
  alice = alice
  bob = bob
  home = home
  listed = listed
  foreign = foreign
  Clients <- MCClients
  Accounts = {home}
  Chats = {}
  NoChat = NoChat
  Origins <- MCOrigins
  NoOrigin = NoOrigin
  NoBearer = NoBearer
  EmptyId = EmptyId
  MaximumTextBytes = 4
  Templates <- MCTemplates
  EditedDocuments <- MCEditedDocuments
  Requests <- MCRequests
  Texts <- MCTexts
  MaxAccounts = 1
  MaxEdits = 2
  MaxLaunches = 2
INVARIANTS
  BoundaryHolds
  AnnouncedIsGranted
  AcceptedIsSafe
PROPERTY UserConfigurationKept
CHECK_DEADLOCK FALSE
