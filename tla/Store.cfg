SPECIFICATION FairSpec
CONSTANTS
  Accounts = {home, work}
  Keys = {k1, k2, k3}
  NoKey = NoKey
  Readers = {r1, r2}
  NoSession = NoSession
  MaxStarts = 3
  MaxCrashes = 2
INVARIANTS
  TypeOK
  SavedKeyOpensDatabase
  RunningKeyIsSaved
PROPERTY ReplacedSessionEnds
CHECK_DEADLOCK FALSE
