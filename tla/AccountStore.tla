---------------------------- MODULE AccountStore ----------------------------
(***************************************************************************)
(* Telegram accounts between the window, the disk and TDLib: accounts.json *)
(* with the protected database keys (AccountRepository), the window's      *)
(* start_authorization, the table of running TdAccounts (TdTelegramService)*)
(* whose readers keep an account alive, and the encrypted database that    *)
(* TDLib creates on its own time.  The process may die between any two     *)
(* steps.                                                                  *)
(***************************************************************************)
EXTENDS Naturals

CONSTANTS
  Accounts,
  Keys,        \* database keys the CSPRNG draws in this instance
  NoKey,
  Readers,     \* HTTP workers that read from Telegram
  NoSession,
  MaxStarts,   \* how many TdAccounts are created (a bound)
  MaxCrashes   \* how often the process dies (a bound)

ASSUME AccountStoreAssumption ==
  /\ Accounts # {}
  /\ NoKey \notin Keys
  /\ MaxStarts \in Nat /\ MaxCrashes \in Nat

VARIABLES
  file,      \* accounts.json
  memory,    \* account_configurations
  ui,        \* where the window's thread is
  sessions,  \* the TdAccounts that exist
  accounts,  \* accounts_: the TdAccount registered for each account
  held,      \* the TdAccount each reader holds a shared_ptr to
  database,  \* the key the TDLib directory is encrypted with, if it exists
  starts, crashes,
  drawn      \* history: keys that exist

diskVars == <<file, database>>
processVars == <<memory, ui, sessions, accounts, held>>
vars == <<diskVars, processVars, starts, crashes, drawn>>

AccountConfiguration == [api_hash_dpapi : BOOLEAN, database_key_dpapi : Keys \cup {NoKey}]
Session == [number : 1..MaxStarts, account : Accounts, key : Keys]

ASSUME NoSessionAssumption == NoSession \notin Session

At(pc, account, session) == [pc |-> pc, account |-> account, session |-> session]
Nothing(S) == [x \in S |-> NoSession]
SomeAccount == CHOOSE a \in Accounts : TRUE
Down == At("down", SomeAccount, NoSession)
Idle == At("idle", SomeAccount, NoSession)

Init ==
  /\ file = [a \in Accounts |-> [api_hash_dpapi |-> FALSE, database_key_dpapi |-> NoKey]]
  /\ memory = file
  /\ ui = Down
  /\ sessions = {} /\ accounts = Nothing(Accounts) /\ held = Nothing(Readers)
  /\ database = [a \in Accounts |-> NoKey]
  /\ starts = 0 /\ crashes = 0 /\ drawn = {}

SavedKey(a) == file[a].database_key_dpapi
LoadedKey(a) == memory[a].database_key_dpapi

-----------------------------------------------------------------------------
Boot ==
  /\ ui = Down
  /\ memory' = file
  /\ ui' = Idle
  /\ UNCHANGED <<diskVars, sessions, accounts, held, starts, crashes, drawn>>

(* The operator puts an accounts.json back that does not know the account. *)
ForgetAccount(a) ==
  /\ ui = Down
  /\ file' = [file EXCEPT ![a] = [api_hash_dpapi |-> FALSE, database_key_dpapi |-> NoKey]]
  /\ UNCHANGED <<database, processVars, starts, crashes, drawn>>

(* start_authorization up to the key: the typed hash is protected, or the  *)
(* stored one is needed.                                                   *)
StartAuthorization(a, typed) ==
  /\ ui = Idle
  /\ typed \/ memory[a].api_hash_dpapi
  /\ memory' = [memory EXCEPT ![a].api_hash_dpapi = TRUE]
  /\ ui' = At("ensure", a, NoSession)
  /\ UNCHANGED <<diskVars, sessions, accounts, held, starts, crashes, drawn>>

(* DPAPI, the random generator, the disk or begin_authorization fails: the *)
(* memory keeps what was put into it so far.                               *)
StepFails ==
  /\ ui.pc \in {"ensure", "save", "begin"}
  /\ ui' = Idle
  /\ UNCHANGED <<diskVars, memory, sessions, accounts, held, starts, crashes, drawn>>

(* Mutant of KeyMayBeCreated: the directory is not looked at. *)
KeyMayAlwaysBeCreated(a) == TRUE

KeyMayBeCreated(a) == database[a] = NoKey

EnsureDatabaseKey ==
  /\ ui.pc = "ensure"
  /\ \/ /\ LoadedKey(ui.account) # NoKey
        /\ UNCHANGED <<memory, drawn>>
     \/ /\ LoadedKey(ui.account) = NoKey
        /\ KeyMayBeCreated(ui.account)
        /\ \E key \in Keys \ drawn :
             /\ memory' = [memory EXCEPT ![ui.account].database_key_dpapi = key]
             /\ drawn' = drawn \cup {key}
  /\ ui' = [ui EXCEPT !.pc = "save"]
  /\ UNCHANGED <<diskVars, sessions, accounts, held, starts, crashes>>

(* Mutant of Save: a file that cannot be written does not stop the start. *)
SaveOrNot ==
  /\ ui.pc = "save"
  /\ file' \in {file, memory}
  /\ ui' = [ui EXCEPT !.pc = "begin"]
  /\ UNCHANGED <<database, memory, sessions, accounts, held, starts, crashes, drawn>>

(* Every account goes into the new file, which replaces the old one in one *)
(* rename.                                                                 *)
Save ==
  /\ ui.pc = "save"
  /\ file' = memory
  /\ ui' = [ui EXCEPT !.pc = "begin"]
  /\ UNCHANGED <<database, memory, sessions, accounts, held, starts, crashes, drawn>>

(* The new TdAccount runs before the old one of the account is let go.     *)
BeginAuthorization ==
  /\ ui.pc = "begin" /\ starts < MaxStarts
  /\ starts' = starts + 1
  /\ LET session == [number |-> starts + 1, account |-> ui.account, key |-> LoadedKey(ui.account)]
     IN /\ sessions' = sessions \cup {session}
        /\ ui' = At("attach", ui.account, session)
  /\ UNCHANGED <<diskVars, memory, accounts, held, crashes, drawn>>

(* A session nobody points to is destroyed: ~TdAccount stops it, on the    *)
(* thread that let go of it last.                                          *)
Referenced(table, readers) ==
  {s \in sessions : (\E a \in Accounts : table[a] = s) \/ (\E r \in Readers : readers[r] = s)}

(* Mutant of Attach: the table is the only owner. *)
AttachAndDestroy ==
  /\ ui.pc = "attach"
  /\ accounts' = [accounts EXCEPT ![ui.account] = ui.session]
  /\ sessions' = sessions \ {accounts[ui.account]}
  /\ ui' = Idle
  /\ UNCHANGED <<diskVars, memory, held, starts, crashes, drawn>>

Attach ==
  /\ ui.pc = "attach"
  /\ accounts' = [accounts EXCEPT ![ui.account] = ui.session]
  /\ sessions' = Referenced(accounts', held)
  /\ ui' = Idle
  /\ UNCHANGED <<diskVars, memory, held, starts, crashes, drawn>>

(* list_chats, get_messages: find copies the shared_ptr. *)
Find(r, a) ==
  /\ ui # Down
  /\ held[r] = NoSession /\ accounts[a] # NoSession
  /\ held' = [held EXCEPT ![r] = accounts[a]]
  /\ UNCHANGED <<diskVars, memory, ui, sessions, accounts, starts, crashes, drawn>>

(* Mutant of Release: the session is kept although nobody has it. *)
ReleaseAndKeep(r) ==
  /\ held[r] # NoSession
  /\ held' = [held EXCEPT ![r] = NoSession]
  /\ UNCHANGED <<diskVars, memory, ui, sessions, accounts, starts, crashes, drawn>>

Release(r) ==
  /\ held[r] # NoSession
  /\ held' = [held EXCEPT ![r] = NoSession]
  /\ sessions' = Referenced(accounts, held') \cup ({ui.session} \ {NoSession})
  /\ UNCHANGED <<diskVars, memory, ui, accounts, starts, crashes, drawn>>

(* TDLib creates the directory of an account when it gets to it. *)
CreateDatabase(s) ==
  /\ s \in sessions
  /\ database[s.account] = NoKey
  /\ database' = [database EXCEPT ![s.account] = s.key]
  /\ UNCHANGED <<file, processVars, starts, crashes, drawn>>

Crash ==
  /\ ui # Down /\ crashes < MaxCrashes
  /\ crashes' = crashes + 1
  /\ ui' = Down
  /\ memory' = file
  /\ sessions' = {} /\ accounts' = Nothing(Accounts) /\ held' = Nothing(Readers)
  /\ UNCHANGED <<diskVars, starts, drawn>>

Next ==
  \/ Boot \/ EnsureDatabaseKey \/ Save \/ BeginAuthorization \/ Attach \/ StepFails
  \/ \E a \in Accounts : ForgetAccount(a)
  \/ \E a \in Accounts, typed \in BOOLEAN : StartAuthorization(a, typed)
  \/ \E r \in Readers : Release(r) \/ \E a \in Accounts : Find(r, a)
  \/ \E s \in sessions : CreateDatabase(s)
  \/ Crash

(* Every wait of a read is bounded, so it gives its session back.          *)
Fairness == \A r \in Readers : WF_vars(Release(r))

Spec == Init /\ [][Next]_vars
FairSpec == Spec /\ Fairness

-----------------------------------------------------------------------------
TypeOK ==
  /\ file \in [Accounts -> AccountConfiguration]
  /\ memory \in [Accounts -> AccountConfiguration]
  /\ ui \in [pc : {"down", "idle", "ensure", "save", "begin", "attach"},
             account : Accounts, session : Session \cup {NoSession}]
  /\ sessions \subseteq Session
  /\ accounts \in [Accounts -> sessions \cup {NoSession}]
  /\ held \in [Readers -> sessions \cup {NoSession}]
  /\ database \in [Accounts -> Keys \cup {NoKey}]
  /\ starts \in 0..MaxStarts /\ crashes \in 0..MaxCrashes
  /\ drawn \subseteq Keys

(* A key on disk for an account that has a database is that database's     *)
(* key, across crashes, failed steps and an accounts.json that was put     *)
(* back: the program never locks the user out of an existing database by   *)
(* saving a fresh key over the lost one.  (AccountRepository.cpp:235-245)  *)
SavedKeyOpensDatabase ==
  \A a \in Accounts :
    database[a] # NoKey /\ SavedKey(a) # NoKey => SavedKey(a) = database[a]

(* No TdAccount runs with a key that a crash would lose: TDLib may create  *)
(* the database any time from here.  (DesktopUiState.cpp:217-229)          *)
RunningKeyIsSaved == \A s \in sessions : SavedKey(s.account) = s.key

(* A TdAccount that was replaced goes away, although a read of it was      *)
(* under way when the window replaced it.                                  *)
ReplacedSessionEnds ==
  \A n \in 1..MaxStarts :
    (\E s \in sessions : s.number = n /\ accounts[s.account] # s /\ ui.session # s)
      ~> ~\E s \in sessions : s.number = n
=============================================================================
