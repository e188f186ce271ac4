------------------------- MODULE AccountStoreProofs -------------------------
(***************************************************************************)
(* The key that is saved for an account opens its database, for every set  *)
(* of accounts, readers and keys and every number of crashes.              *)
(***************************************************************************)
EXTENDS AccountStore, TLAPS

(* The part of the type invariant the keys need. *)
KeyTypes ==
  /\ file \in [Accounts -> AccountConfiguration]
  /\ memory \in [Accounts -> AccountConfiguration]
  /\ database \in [Accounts -> Keys \cup {NoKey}]
  /\ ui = At(ui.pc, ui.account, ui.session) /\ ui.account \in Accounts
  /\ \A s \in sessions : s.account \in Accounts /\ s.key \in Keys

(* While the process runs, what is saved is loaded, and what is loaded     *)
(* opens the database.                                                     *)
LoadedAgrees ==
  ui # Down =>
    \A a \in Accounts :
      /\ SavedKey(a) # NoKey => LoadedKey(a) = SavedKey(a)
      /\ LoadedKey(a) # NoKey /\ database[a] # NoKey => LoadedKey(a) = database[a]

(* How far start_authorization has brought the key. *)
WindowAgrees ==
  /\ ui.pc = "save" => LoadedKey(ui.account) # NoKey
  /\ ui.pc = "begin" => LoadedKey(ui.account) # NoKey /\ SavedKey(ui.account) # NoKey
  /\ ui.session # NoSession => ui.session \in sessions
  /\ ui = Down => sessions = {}

(* The inductive invariant: SavedKeyOpensDatabase does not say what a save *)
(* or TDLib's creation of a database is about to write.                    *)
KeyInv ==
  /\ KeyTypes
  /\ SavedKeyOpensDatabase
  /\ RunningKeyIsSaved
  /\ LoadedAgrees
  /\ WindowAgrees

USE DEF SavedKey, LoadedKey

LEMMA SomeAccountType == SomeAccount \in Accounts
  BY AccountStoreAssumption DEF SomeAccount

LEMMA KeyInvInit == Init => KeyInv
  BY SomeAccountType
     DEF Init, KeyInv, KeyTypes, SavedKeyOpensDatabase, RunningKeyIsSaved, LoadedAgrees,
         WindowAgrees, AccountConfiguration, Down, At

LEMMA BootKeeps == ASSUME KeyInv, Boot PROVE KeyInv'
  BY SomeAccountType
     DEF Boot, KeyInv, KeyTypes, SavedKeyOpensDatabase, RunningKeyIsSaved, LoadedAgrees,
         WindowAgrees, Idle, Down, At, diskVars

LEMMA ForgetKeeps == ASSUME KeyInv, NEW a \in Accounts, ForgetAccount(a) PROVE KeyInv'
<1>1. file' \in [Accounts -> AccountConfiguration]
  BY DEF ForgetAccount, KeyInv, KeyTypes, AccountConfiguration
<1>2. \A b \in Accounts : SavedKey(b)' \in {SavedKey(b), NoKey}
  BY DEF ForgetAccount, KeyInv, KeyTypes
<1>3. UNCHANGED <<memory, ui, sessions, database>> /\ ui = Down /\ sessions = {}
  BY DEF ForgetAccount, processVars, KeyInv, WindowAgrees
<1> QED
  BY <1>1, <1>2, <1>3
     DEF KeyInv, KeyTypes, SavedKeyOpensDatabase, RunningKeyIsSaved, LoadedAgrees, WindowAgrees,
         Down, At

LEMMA StartKeeps ==
  ASSUME KeyInv, NEW a \in Accounts, NEW typed \in BOOLEAN, StartAuthorization(a, typed)
  PROVE  KeyInv'
<1>1. memory' \in [Accounts -> AccountConfiguration]
  BY DEF StartAuthorization, KeyInv, KeyTypes, AccountConfiguration
<1>2. \A b \in Accounts : LoadedKey(b)' = LoadedKey(b)
  BY DEF StartAuthorization, KeyInv, KeyTypes, AccountConfiguration
<1>3. UNCHANGED <<file, sessions, database>> /\ ui = Idle /\ ui' = At("ensure", a, NoSession)
  BY DEF StartAuthorization, diskVars
<1> QED
  BY <1>1, <1>2, <1>3
     DEF KeyInv, KeyTypes, SavedKeyOpensDatabase, RunningKeyIsSaved, LoadedAgrees, WindowAgrees,
         Idle, Down, At

LEMMA StepFailsKeeps == ASSUME KeyInv, StepFails PROVE KeyInv'
  BY SomeAccountType
     DEF StepFails, KeyInv, KeyTypes, SavedKeyOpensDatabase, RunningKeyIsSaved, LoadedAgrees,
         WindowAgrees, Idle, Down, At, diskVars

(* A fresh key is drawn only for an account without a database. *)
LEMMA EnsureKeeps == ASSUME KeyInv, EnsureDatabaseKey PROVE KeyInv'
<1>1. UNCHANGED <<file, sessions, database>> /\ ui.pc = "ensure" /\ ui # Down
      /\ ui' = [ui EXCEPT !.pc = "save"]
  BY DEF EnsureDatabaseKey, diskVars, Down, At
<1>1a. ui'.pc = "save" /\ ui'.account = ui.account /\ ui'.session = ui.session /\ ui' # Down
      /\ ui' = At("save", ui.account, ui.session)
  BY <1>1 DEF KeyInv, KeyTypes, At, Down
<1>2. CASE LoadedKey(ui.account) # NoKey /\ UNCHANGED memory
  BY <1>1a, <1>1, <1>2
     DEF KeyInv, KeyTypes, SavedKeyOpensDatabase, RunningKeyIsSaved, LoadedAgrees, WindowAgrees
<1>3. ASSUME LoadedKey(ui.account) = NoKey, KeyMayBeCreated(ui.account), NEW key \in Keys,
             memory' = [memory EXCEPT ![ui.account].database_key_dpapi = key]
      PROVE  KeyInv'
  <2>1. memory' \in [Accounts -> AccountConfiguration] /\ key # NoKey
    BY <1>3, AccountStoreAssumption DEF KeyInv, KeyTypes, AccountConfiguration
  <2>2. \A b \in Accounts : LoadedKey(b)' = IF b = ui.account THEN key ELSE LoadedKey(b)
    BY <1>3 DEF KeyInv, KeyTypes, AccountConfiguration
  <2>3. database[ui.account] = NoKey /\ SavedKey(ui.account) = NoKey
    BY <1>1, <1>3 DEF KeyMayBeCreated, KeyInv, KeyTypes, LoadedAgrees
  <2> QED
    BY <1>1a, <1>1, <2>1, <2>2, <2>3
       DEF KeyInv, KeyTypes, SavedKeyOpensDatabase, RunningKeyIsSaved, LoadedAgrees, WindowAgrees
<1> QED
  BY <1>2, <1>3 DEF EnsureDatabaseKey

LEMMA SaveKeeps == ASSUME KeyInv, Save PROVE KeyInv'
<1>1. UNCHANGED <<memory, sessions, database>> /\ ui.pc = "save" /\ ui # Down
      /\ ui' = [ui EXCEPT !.pc = "begin"] /\ file' = memory
  BY DEF Save, Down, At
<1>1a. ui'.pc = "begin" /\ ui'.account = ui.account /\ ui'.session = ui.session /\ ui' # Down
      /\ ui' = At("begin", ui.account, ui.session)
  BY <1>1 DEF KeyInv, KeyTypes, At, Down
<1>2. \A s \in sessions : LoadedKey(s.account) = s.key
  BY <1>1, AccountStoreAssumption DEF KeyInv, KeyTypes, RunningKeyIsSaved, LoadedAgrees
<1> QED
  BY <1>1a, <1>1, <1>2
     DEF KeyInv, KeyTypes, SavedKeyOpensDatabase, RunningKeyIsSaved, LoadedAgrees, WindowAgrees

LEMMA BeginKeeps == ASSUME KeyInv, BeginAuthorization PROVE KeyInv'
<1> DEFINE session == [number |-> starts + 1, account |-> ui.account, key |-> LoadedKey(ui.account)]
<1>1. UNCHANGED <<file, memory, database>> /\ ui.pc = "begin" /\ ui # Down
      /\ ui' = At("attach", ui.account, session) /\ sessions' = sessions \cup {session}
  BY DEF BeginAuthorization, diskVars, Down, At
<1>2. LoadedKey(ui.account) \in Keys /\ SavedKey(ui.account) = LoadedKey(ui.account)
  BY <1>1 DEF KeyInv, KeyTypes, WindowAgrees, LoadedAgrees, AccountConfiguration
<1>3. session.account = ui.account /\ session.key = LoadedKey(ui.account)
  OBVIOUS
<1>4. ui'.pc = "attach" /\ ui'.account = ui.account /\ ui'.session = session /\ ui' # Down
  BY <1>1 DEF At, Down
<1> HIDE DEF session
<1>5. KeyTypes' /\ RunningKeyIsSaved'
  BY <1>1, <1>2, <1>3, <1>4 DEF KeyInv, KeyTypes, RunningKeyIsSaved
<1>6. SavedKeyOpensDatabase' /\ LoadedAgrees'
  BY <1>1, <1>4 DEF KeyInv, SavedKeyOpensDatabase, LoadedAgrees
<1>7. WindowAgrees'
  BY <1>1, <1>4 DEF WindowAgrees
<1> QED
  BY <1>5, <1>6, <1>7 DEF KeyInv

(* Destroying sessions endangers no key. *)
LEMMA FewerSessionsKeep ==
  ASSUME KeyInv, UNCHANGED <<file, memory, database>>, sessions' \subseteq sessions,
         ui' = At(ui'.pc, ui'.account, ui'.session), ui'.account \in Accounts,
         ui'.pc \notin {"save", "begin"}, ui # Down, ui' # Down,
         ui'.session # NoSession => ui'.session \in sessions'
  PROVE  KeyInv'
  BY DEF KeyInv, KeyTypes, SavedKeyOpensDatabase, RunningKeyIsSaved, LoadedAgrees, WindowAgrees

LEMMA AttachKeeps == ASSUME KeyInv, Attach PROVE KeyInv'
<1>1. /\ UNCHANGED <<file, memory, database>> /\ sessions' \subseteq sessions
      /\ ui # Down /\ ui' = Idle
  BY DEF Attach, Referenced, diskVars, Down, At
<1>2. /\ ui' = At("idle", ui'.account, NoSession) /\ ui'.account \in Accounts
      /\ ui'.pc = "idle" /\ ui'.session = NoSession /\ ui' # Down
  BY <1>1, SomeAccountType DEF Idle, Down, At
<1> QED
  BY <1>1, <1>2, FewerSessionsKeep

LEMMA ReaderKeeps ==
  ASSUME KeyInv, NEW r \in Readers, Release(r) \/ \E a \in Accounts : Find(r, a)
  PROVE  KeyInv'
<1>1. UNCHANGED <<file, memory, database, ui>> /\ sessions' \subseteq sessions
      /\ (ui.session # NoSession => ui.session \in sessions')
  BY DEF Find, Release, Referenced, diskVars, KeyInv, WindowAgrees
<1> QED
  BY <1>1
     DEF KeyInv, KeyTypes, SavedKeyOpensDatabase, RunningKeyIsSaved, LoadedAgrees, WindowAgrees

LEMMA CreateKeeps == ASSUME KeyInv, NEW s \in sessions, CreateDatabase(s) PROVE KeyInv'
<1>1. UNCHANGED <<file, memory, ui, sessions>> /\ database' = [database EXCEPT ![s.account] = s.key]
  BY DEF CreateDatabase, processVars
<1>2. s.account \in Accounts /\ s.key \in Keys /\ s.key # NoKey /\ SavedKey(s.account) = s.key
  BY AccountStoreAssumption DEF KeyInv, KeyTypes, RunningKeyIsSaved
<1>3. ui # Down => LoadedKey(s.account) = s.key
  BY <1>2 DEF KeyInv, LoadedAgrees
<1> QED
  BY <1>1, <1>2, <1>3
     DEF KeyInv, KeyTypes, SavedKeyOpensDatabase, RunningKeyIsSaved, LoadedAgrees, WindowAgrees

LEMMA CrashKeeps == ASSUME KeyInv, Crash PROVE KeyInv'
  BY SomeAccountType
     DEF Crash, KeyInv, KeyTypes, SavedKeyOpensDatabase, RunningKeyIsSaved, LoadedAgrees,
         WindowAgrees, Down, At, diskVars

LEMMA KeyInvStep == KeyInv /\ [Next]_vars => KeyInv'
<1> SUFFICES ASSUME KeyInv, [Next]_vars PROVE KeyInv'
  OBVIOUS
<1>1. CASE Boot \/ StepFails \/ Attach \/ Crash
  BY <1>1, BootKeeps, StepFailsKeeps, AttachKeeps, CrashKeeps
<1>2. CASE EnsureDatabaseKey \/ Save \/ BeginAuthorization
  BY <1>2, EnsureKeeps, SaveKeeps, BeginKeeps
<1>3. CASE \E a \in Accounts : ForgetAccount(a) \/ \E typed \in BOOLEAN : StartAuthorization(a, typed)
  BY <1>3, ForgetKeeps, StartKeeps
<1>4. CASE \E r \in Readers : Release(r) \/ \E a \in Accounts : Find(r, a)
  BY <1>4, ReaderKeeps
<1>5. CASE \E s \in sessions : CreateDatabase(s)
  BY <1>5, CreateKeeps
<1>6. CASE UNCHANGED vars
  BY <1>6
     DEF vars, diskVars, processVars, KeyInv, KeyTypes, SavedKeyOpensDatabase, RunningKeyIsSaved,
         LoadedAgrees, WindowAgrees
<1> QED
  BY <1>1, <1>2, <1>3, <1>4, <1>5, <1>6 DEF Next

LEMMA KeyInvCorrect == Spec => []KeyInv
  BY KeyInvInit, KeyInvStep, PTL DEF Spec

(* No crash, failed step or restored file makes the program save a key     *)
(* that does not open the account's database.                              *)
THEOREM SavedKeyHolds == Spec => []SavedKeyOpensDatabase
<1>1. KeyInv => SavedKeyOpensDatabase
  BY DEF KeyInv
<1> QED
  BY <1>1, KeyInvCorrect, PTL

(* The key of a running TdAccount is on disk before TDLib can use it.      *)
THEOREM RunningKeyHolds == Spec => []RunningKeyIsSaved
<1>1. KeyInv => RunningKeyIsSaved
  BY DEF KeyInv
<1> QED
  BY <1>1, KeyInvCorrect, PTL

-----------------------------------------------------------------------------
(* No shared_ptr dangles.                                                  *)

(* What the keys do not need of the type invariant.                        *)
Ownership ==
  /\ ui.pc \in {"down", "idle", "ensure", "save", "begin", "attach"}
  /\ sessions \subseteq Session
  /\ accounts \in [Accounts -> sessions \cup {NoSession}]
  /\ held \in [Readers -> sessions \cup {NoSession}]
  /\ starts \in 0..MaxStarts /\ crashes \in 0..MaxCrashes
  /\ drawn \subseteq Keys

OwnershipVars == <<sessions, accounts, held, starts, crashes, drawn>>

LEMMA OwnershipKeeps ==
  ASSUME Ownership, UNCHANGED OwnershipVars, ui'.pc \in {"down", "idle", "ensure", "save", "begin", "attach"}
  PROVE  Ownership'
  BY DEF Ownership, OwnershipVars

(* What is still pointed to is not destroyed.                              *)
LEMMA ReferencedKeeps ==
  ASSUME Ownership,
         NEW table \in [Accounts -> sessions \cup {NoSession}],
         NEW readers \in [Readers -> sessions \cup {NoSession}]
  PROVE  /\ Referenced(table, readers) \subseteq sessions
         /\ table \in [Accounts -> Referenced(table, readers) \cup {NoSession}]
         /\ readers \in [Readers -> Referenced(table, readers) \cup {NoSession}]
  BY DEF Referenced

LEMMA OwnershipStep == KeyInv /\ KeyInv' /\ Ownership /\ [Next]_vars => Ownership'
<1> SUFFICES ASSUME KeyInv, KeyInv', Ownership, [Next]_vars PROVE Ownership'
  OBVIOUS
<1>1. CASE Boot \/ StepFails \/ Save
  <2>1. ui'.pc \in {"idle", "begin"}
    BY <1>1 DEF Boot, StepFails, Save, Idle, At, KeyInv, KeyTypes
  <2> QED
    BY <1>1, <2>1, OwnershipKeeps DEF Boot, StepFails, Save, OwnershipVars
<1>2. CASE EnsureDatabaseKey
  <2>1. ui'.pc = "save"
    BY <1>2 DEF EnsureDatabaseKey, KeyInv, KeyTypes, At
  <2> QED
    BY <1>2, <2>1 DEF EnsureDatabaseKey, Ownership
<1>3. CASE BeginAuthorization
  <2> DEFINE session == [number |-> starts + 1, account |-> ui.account, key |-> LoadedKey(ui.account)]
  <2>1. session \in Session /\ starts' \in 0..MaxStarts
    BY <1>3, AccountStoreAssumption
       DEF BeginAuthorization, Session, Ownership, KeyInv, KeyTypes, WindowAgrees, AccountConfiguration
  <2>2. ui'.pc = "attach" /\ sessions' = sessions \cup {session}
    BY <1>3 DEF BeginAuthorization, At
  <2> HIDE DEF session
  <2> QED
    BY <1>3, <2>1, <2>2 DEF BeginAuthorization, Ownership
<1>4. CASE Attach
  <2>1. accounts' \in [Accounts -> sessions \cup {NoSession}] /\ ui'.pc = "idle"
    BY <1>4 DEF Attach, Ownership, KeyInv, KeyTypes, WindowAgrees, Idle, At
  <2>2. held' = held /\ sessions' = Referenced(accounts', held')
    BY <1>4 DEF Attach
  <2>3. held' \in [Readers -> sessions \cup {NoSession}]
    BY <2>2 DEF Ownership
  <2> QED
    BY <1>4, <2>1, <2>2, <2>3, ReferencedKeeps DEF Attach, Ownership
<1>5. ASSUME NEW r \in Readers, Release(r) PROVE Ownership'
  <2>1. held' \in [Readers -> sessions \cup {NoSession}] /\ accounts \in [Accounts -> sessions \cup {NoSession}]
    BY <1>5 DEF Release, Ownership
  <2>2. /\ Referenced(accounts, held') \subseteq sessions
        /\ accounts \in [Accounts -> Referenced(accounts, held') \cup {NoSession}]
        /\ held' \in [Readers -> Referenced(accounts, held') \cup {NoSession}]
    BY <2>1, ReferencedKeeps
  <2>3. sessions' = Referenced(accounts, held') \cup ({ui.session} \ {NoSession})
    BY <1>5 DEF Release
  <2> QED
    BY <1>5, <2>2, <2>3 DEF Release, Ownership, KeyInv, WindowAgrees
<1>6. ASSUME NEW r \in Readers, NEW a \in Accounts, Find(r, a) PROVE Ownership'
  BY <1>6 DEF Find, Ownership
<1>7. ASSUME NEW a \in Accounts, ForgetAccount(a) PROVE Ownership'
  BY <1>7, OwnershipKeeps DEF ForgetAccount, processVars, Ownership, OwnershipVars
<1>8. ASSUME NEW a \in Accounts, NEW typed \in BOOLEAN, StartAuthorization(a, typed) PROVE Ownership'
  <2>1. ui'.pc = "ensure"
    BY <1>8 DEF StartAuthorization, At
  <2> QED
    BY <1>8, <2>1, OwnershipKeeps DEF StartAuthorization, OwnershipVars
<1>9. ASSUME NEW s \in sessions, CreateDatabase(s) PROVE Ownership'
  BY <1>9, OwnershipKeeps DEF CreateDatabase, processVars, Ownership, OwnershipVars
<1>10. CASE Crash
  BY <1>10, AccountStoreAssumption DEF Crash, Ownership, Nothing, Down, At
<1>11. CASE UNCHANGED vars
  BY <1>11, OwnershipKeeps DEF vars, processVars, Ownership, OwnershipVars
<1> QED
  BY <1>1, <1>2, <1>3, <1>4, <1>5, <1>6, <1>7, <1>8, <1>9, <1>10, <1>11 DEF Next

(* The account store has its type; a TdAccount that the table or a reader  *)
(* points to exists (TdTelegramService::attach and find).                  *)
THEOREM StoreTypeCorrect == Spec => []TypeOK
<1>1. Init => Ownership
  BY AccountStoreAssumption DEF Init, Ownership, Nothing, Down, At
<1>2. KeyInv /\ Ownership => TypeOK
  <2> SUFFICES ASSUME KeyInv, Ownership PROVE TypeOK
    OBVIOUS
  <2>1. ui \in [pc : {"down", "idle", "ensure", "save", "begin", "attach"},
                account : Accounts, session : Session \cup {NoSession}]
    BY DEF KeyInv, KeyTypes, WindowAgrees, Ownership, At
  <2> QED
    BY <2>1 DEF TypeOK, KeyInv, KeyTypes, Ownership
<1> QED
  BY <1>1, <1>2, KeyInvCorrect, OwnershipStep, PTL DEF Spec
=============================================================================
