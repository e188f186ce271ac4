# TgGate in TLA+

TgGate is a local gateway between MCP clients and Telegram. Clients call tools
over loopback HTTP; a policy decides what each may do; a write waits for the
operator's approval at the desktop window; TDLib talks to Telegram. This
directory models the parts of TgGate in which threads, locks, clocks, files and
a crash can meet in an unlucky order, and the decisions about a request that
those parts rely on; it checks them with TLC on small instances, and proves
what matters most with TLAPS for instances of any size.

Paths below are relative to the repository root; `src/...` is its source tree.

## 1. The system

```text
 MCP clients                                      operator
     | HTTP                                          |
 SimpleWebHttpHost (pool threads)            DesktopController / DesktopUiState
     |                                        |        |             |
 LocalMcpHttpService --- mcp-host.json -------'        |             |
     |  bearer token -> client profile                 |             |
 ProtocolHandler (2026-07-28), ToolRegistry            |             |
     |                                                 |             |
 TelegramApplicationService -- AuditService            |             |
     |            |       \                            |             |
 PolicyEngine     |        ApprovalService ------------'             |
                  |                                                  |
            TdTelegramService (account id -> shared_ptr<TdAccount>) -+
                  |                                                  |
            TdAccount + RequestRouter + receive thread        accounts.json
                  |
            TDLib (external), its encrypted database

 RuntimeLayoutBootstrap stages client-profiles.json, accounts.json and
 mcp-host.json before the window loads them; the operator edits all three.
```

### Threads

| thread | runs |
|---|---|
| window thread | everything in `DesktopUiState`: decisions, lockdown, start of the host, rotation, start and stop of a `TdAccount` |
| pool threads of the HTTP server | `LocalMcpHttpService::handle` down to the Telegram port; reads block in `RequestRouter::wait` |
| receive thread, one per `TdAccount` | `receive_loop`: answers, late answers, errors, authorization updates |
| server thread | opens the acceptor and runs the listening server; nothing orders it with a start that gives it up after five seconds; joined by `SimpleWebHttpHost::stop` |

### Components

For each: its state; its operations; what is hard; what makes it correct.

* **PolicyEngine** (`src/src/domain/policy`). No state. `evaluate(profile,
  invocation)`. Correct: default deny, and narrower profiles never grant more.
* **ApprovalService** (`src/src/domain/approval`). A map from random ids to
  pending actions under one mutex. `prepare`, `approve`, `deny`,
  `take_approved_for_execution`, `pending_actions`, `lockdown`. Hard: `prepare`
  reads the clock before it locks, expiry is lazy, the wall clock may jump.
  Correct: each action is decided once, in time, taken at most once, withdrawn
  by a lockdown.
* **TelegramApplicationService, AuditService** (`src/src/application`). The
  append-only log. `list_chats`, `get_messages`, `prepare_send_message`,
  `execute_approved_action`. Hard: calls run concurrently and release the
  approval lock before they use the port; the port may fail or take long.
  Correct: one message per approved action, with consent, under the policy in
  force, logged; a list shows allowed chats only, and messages are asked of
  allowed chats only.
* **RequestRouter** (`src/src/infrastructure/tdlib/RequestRouter.hpp`).
  State: `requests_`, `retired_`, `accepting_`, one ticket per request with its own
  mutex. `open`, `contains`, `discard_late`, `fulfill`, `wait`, `close`,
  `reopen`. Hard: a ticket leaves the map under one lock and is completed under
  another; deadlines; ids that start again with each session. Correct: no lost
  wakeup, no foreign answer, late answers recognised.
* **TdAccount** (`src/src/infrastructure/tdlib/TdAccount.cpp`). The TDLib
  client, flags, the status text, the guard of the authorization input, the
  secrets. `begin_authorization`, `submit_code`, `submit_password`, reads,
  `stop`, `receive_loop`. Hard: three kinds of threads, one mutex, and TDLib's
  updates in their own time; `list_chats` makes one request and then one per
  chat, under one deadline and with a session that may end between any two.
  Correct: one input at a time, secrets there when needed and gone afterwards,
  a read's error stays the read's, a list is whole, `stop` returns.
* **AuthorizationStateMachine** (`src/src/domain/telegram`). Generation, state
  and the flag of the input in flight; `begin`, `observe`, `fail`,
  `begin_input`. The same protocol without threads; only tests call it, so it
  says what `TdAccount` should do and does not take part.
* **TdTelegramService, AccountRepository, start of an authorization**
  (`TdTelegramService.cpp`, `AccountRepository.cpp`, `DesktopUiState.cpp`). The
  table of accounts, `accounts.json`, the loaded configurations. Hard: key,
  file and database come into being in separate steps with crashes between
  them; an account is replaced while a read uses it. Correct: the saved key
  opens the database.
* **LocalMcpHttpService, SimpleWebHttpHost, McpHostConfigurationRepository,
  token rotation**. The client table, the pool, the slot counter,
  `mcp-host.json`. Hard: the table is replaced by a thread that must first wait
  for all handlers; the file and the table change at different moments; the
  server thread comes to its acceptor when it likes, also after the window gave
  it up.
  Correct: what is served is on disk, a rotated token is dead, nobody else
  loses a token, the table never changes under a request.
* **ProtocolHandler 2026-07-28, ToolRegistry**. Stateless checks of one request
  in a fixed order, then the dispatch of a tool call. Hard: over twenty checks
  in three files, the first of which that fails decides the answer. Correct:
  whoever has no token learns nothing; what is announced is what is granted.
* **The parsers**: `ClientProfileRepository`, `AccountRepository::parse`,
  `McpHostConfigurationRepository::parse`. Pure functions from a document to a
  configuration or a refusal. Hard: defaults, numbers converted before they are
  checked, paths that are normalised for one check and not for another.
  Correct: what is accepted is safe to run with.
* **RuntimeLayout, DesktopUiState as the composition root**
  (`RuntimeLayout.cpp`, `DesktopUiState.cpp`). The three files, what was loaded
  from them, the host that serves it. Hard: a template is copied in place and
  may be left half copied; the program writes two files back that the operator
  edits meanwhile. Correct: nothing of the operator's is lost.
* Others: `DesktopController`, `PendingActionsViewModel`, `SecretBuffer`,
  `DpapiProtector`, `SecureRandom`, the 2025-11-25 handler, `apps/`, `tools/`.

How they interact: direct calls downwards; the window and the pool share
`ApprovalService`, `TdTelegramService` and the host's client table; the receive
thread hands answers to pool threads through `RequestRouter`; the three JSON
files and the TDLib directory are all that survives the process.

## 2. The modules

| module | what it is | composed from |
|---|---|---|
| `PolicyEngine` | the decision function | |
| `ActionLifecycle` | abstract: the life of a write action | |
| `ApprovalService` | the approval map with arbitrary callers | extends `PolicyEngine`, implements `ActionLifecycle` |
| `TelegramApplicationService` | workers, operator, port, audit, host restart | extends `ApprovalService`, implements `ActionLifecycle` |
| `RequestRouter` | the router with its callers | |
| `ReadCalls` | `list_chats` and `get_messages`: many requests, one deadline | extends `RequestRouter`, stays within `RouterSpec` |
| `AuthorizationStateMachine` | abstract: which inputs of the operator are accepted, and when | |
| `TdAccount` | owner, receive thread, readers, TDLib | extends `RequestRouter`, implements `RouterSpec` and `AuthorizationStateMachine` |
| `ServedClients` | abstract: what the host promises about its table | |
| `McpHost` | start, stop, rotation, requests, crashes | implements `ServedClients` |
| `AccountStore` | accounts.json, keys, sessions, databases, crashes | |
| `McpRequest` | a request of a client as a pure function, up to the use case | extends `PolicyEngine` |
| `Configuration` | the parsers and writers of the three files | extends `PolicyEngine` |
| `Desktop` | first launch, load, host, window, operator's editor, crashes | extends `McpRequest` and `Configuration` |
| `MCTelegramApplicationService`, `MCDesktop` | values of the constants for TLC | extend the module they are named after |
| `*Proofs` | theorems about the module they are named after; those about `PolicyEngine` are in `ApprovalServiceProofs` | |

### Correspondence

A constant or variable has the name of what it stands for in the code where
TLA+ allows it (`actions` is `actions_`, `clients` is `clients_`,
`auth_input` is `authorization_input_request_id_`).

**One action per critical section.** Code under one mutex is one action; code
that gives up a mutex, waits for another thread or does input or output is cut
there. So `ApprovalService::prepare` is `PrepareStamp` and `PrepareInsert`;
`execute_approved_action` is `CallExecute`, `SendMessage`, `AnswerExecuted`;
`RequestRouter::fulfill` is `FulfillTake` and `FulfillSignal`; `wait` is
`WaitReturn` or `WaitTimeout` and `WaitRetire`; `close` is `CloseTake` and one
`CloseSignal` per ticket; `TdAccount::stop` is `StopSend`, `StopClose`,
`StopJoin`, `StopClear`; a turn of `receive_loop` is `Receive`, `Look`, then
`Fulfill`/`Signal`, `Late` or one of the `Dispatch` actions;
`LocalMcpHttpService::start` is `StopServer`, `JoinServer`,
`LoadConfiguration`, `SaveCredentials`, `Bind`, `Started`, with `GiveUp` and
`StartupFails` as its ways out, and the server thread it makes is `Listen` or
`ListenFails`, at any time from then on; `start_authorization` is
`StartAuthorization`, `EnsureDatabaseKey`, `Save`, `BeginAuthorization`,
`Attach`, with `StepFails`; `RuntimeLayoutBootstrap::ensure` is `Launch` and,
for each file, `LookForFile`, `CopyBegins`, `CopyEnds`, with `EnsureFails`. The
loop of `list_chats` is `StartRead`, then per request `Ask` and one of
`Accepted`, `Refused`, or `TimesOut` and `GivesUp`; `DeadlinePasses` is the one
deadline of the whole read. In `Desktop` a start of the host and a start of an
authorization are one step each: `McpHost` and `AccountStore` cut them.

**A request is a function.** `LocalMcpHttpService::handle` and the protocol
handler touch no state before the use case, so `McpRequest` has them as lists of
checks, each with the status and the JSON-RPC code of its refusal, in the order
of the code: `EnvelopeChecks` (HTTP), `BodyChecks` (JSON-RPC and its headers),
`CallChecks` (the tool). `Desktop.Exchange` applies them under the settings that
the host took from the files.

**Files are documents.** A file is absent, half written, or a document whose
fields have the values the parsers tell apart. Everything that is wrong
whatever the values (no JSON, an unknown or missing field, a wrong type) is the
one value `flaw`. Paths are sequences of components; texts are sequences of the
widths of their characters. Numbers are whole, and are converted to the type of
their field before they are checked, as the JSON library does it (`IntType`,
`UnsignedShort`, `SizeType`).

**Failing steps.** DPAPI, the random generator, the disk and the port fail
whenever they like. A file is replaced by one rename
(`MOVEFILE_REPLACE_EXISTING`), hence by one action; a crash before it leaves
the old file. `Crash` ends the process between any two steps.

**Clocks.** The wall clock (`system_clock`) moves to any time at any moment,
backwards too. Deadlines on the steady clock are a choice: a wait may time out
at any moment and never has to.

**TDLib** is external. It answers requests in any order, with data or an error,
moves through its authorization states as documented by the states the account
handles, may log out by itself, and reports `Closed` after it was asked to
close and has answered what it was asked. Answers the receive loop ignores (Ok)
are left out.

**History variables** (`sends`, `consented`, `withdrawn`, `disclosed`, `seen`,
`drawn`, `revoked`, `returned`, `accounts_edited`) are written and never decide
a step of the program, with two exceptions that stand for the environment: a
client presents action ids it was told (`disclosed`), and the random generator
never draws twice (`drawn`).
In `RequestRouter`, `unanswered` is what TDLib still owes, and a ticket's
`response` holds the ticket its answer was made for, so that a mix-up shows.

### What composes what, and why the parts fit

`TelegramApplicationService.RestartHost` replaces the client table in one step
when no worker is in a call. That is the promise `ServedClients`, and `McpHost`
is shown to keep it with stop, join, load, save, bind and start as separate
steps, a startup that times out, a server that comes up after that, and crashes.
`TdAccount` and `ReadCalls` use
the router's own actions and never leave the protocol under which the router is
proved alone (`UsesRouterProperly`, and the theorems `AccountUsesRouterProperly`
and `ReadsUseRouterProperly`): the router's results carry over to both. The two
are separate because a read of many requests and an account with all its
threads are each large; what `ReadCalls` assumes of the account is that it takes
the authorization away before it closes the router, which is the order of
`stop` and of the `Closed` update in `TdAccount`. `TelegramApplicationService`
begins where `McpRequest` ends, with a tool that the profile lists.

## 3. The runs

Every property has a mutant in `PROJECT.json`: a change of one definition, as a
plausible bug would make it, under which the same run finds the property
violated.

| run | shows | bounds |
|---|---|---|
| `WritePath` | `SingleUse`, `SendsAreConsented`, `PolicyAtSend`, `LockdownIsFinal`, `AuditTellsTheStory`, `ApprovedInTime`, implementation of `ActionLifecycle` | 2 workers, 2 actions, 4 calls, 1 restart, 2 clock readings, lifetime 1 |
| `Calls` | `ReadScope`, `TakenIsAudited` | 2 workers, 1 action, 2 chats, 3 calls of any tool, 1 restart, 4 profiles, 1 clock reading |
| `Reads` | `RequestsMatchWaiters`, `OutcomeIsMine`, `LateAnswersAreRecognised`, `ListIsWhole`, `ReadsAreBounded` | 2 readers, 2 reads, 1 chat per list, 4 tickets and ids, 1 retired id kept |
| `Account` | `OneInputAtATime`, `SecretsLiveWithSession`, `ReadErrorsStayPrivate`, `UsesRouterProperly`, `ImplementsAuthorization`, `OwnerReturns`, `InputGuardLifts`, `StopReleasesReaders` | 1 reader, 2 reads, 2 sessions, 2 inputs, 8 ids, 1 retired id kept |
| `Host` | `SlotsAreBusyThreads`, `ServedIsSaved`, `RotationIsImmediate`, `TokensAreKept`, `KeepsPromise`, `WindowReturns` | 2 clients, 4 tokens, 2 threads, 3 starts or rotations, 2 crashes |
| `Store` | `SavedKeyOpensDatabase`, `RunningKeyIsSaved`, `ReplacedSessionEnds` | 2 accounts, 3 keys, 2 readers, 3 starts, 2 crashes |
| `Desktop` | `BoundaryHolds`, `AnnouncedIsGranted`, `AcceptedIsSafe`, `UserConfigurationKept` | 2 launches, 2 edits, 1 account, a text limit of 4 bytes, the documents and requests of `MCDesktop` |
| `ExpiredApproval`, `LockdownFlag` | findings, see 4 | 1 action, 2 calls |
| `LateServer` | finding, see 4 | 1 client, 2 tokens, 1 thread, 1 start, 1 crash |
| `LostEdit`, `LongMessages` | findings, see 4 | 1 launch, 1 edit |

`WritePath`, `Reads`, `Account`, `Host` and `Store` also check the type invariant
of their modules.

**Why the bounds are enough.** The interesting cases need two of something:
two workers on one action, a caller of the old session and one of the new with
the same id, a second rotation while requests of the first table run, a second
start of an account that is being read, a second launch over what a crash left
of the first. Four calls let an action be prepared, and executed twice, next to
another's preparation. In `Reads` and `Account` one retired id (256 in the code) is
kept, so that two abandoned requests overflow the list and both sides of the
limit are reached; one chat per list makes a read two requests, so that its deadline or
its session can end before, between and after them. A lifetime of one tick puts
the expiry time inside, at, and beyond the clock's readings. The number of
sessions is two because a session shares with its predecessor only what is left
of the one before it. In `Desktop` a request is one that is served, with one
thing changed, and for one of them a second change in who sends it from where:
the checks are independent but for their order, which a pair of failures shows.
A text limit of four bytes is met and cut by characters of up to three. Two
edits let the operator change one file between two steps of the program and
another, or the same again, later.

`CHECK_DEADLOCK FALSE` stands in the runs whose counters (`MaxSessions`,
`MaxOperations`, `MaxStarts`, `MaxLaunches`) end the behaviour: `Account`,
`Host`, `LateServer`, `Store`, `Desktop` and the two violation runs of `Desktop`.
The other runs have no deadlock.

**Symmetry** is used in `WritePath` only, over workers and action ids, none of
which any definition singles out. That run checks action properties and a
refinement without fairness, and no liveness.

### Fairness

* `TelegramApplicationService`: a pool thread goes on with the call it took.
  Nobody has to call, approve or restart.
* `ReadCalls`: a thread that can go on does, and what `close` and `fulfill` took
  is completed. TDLib owes nobody an answer, no session has to end and no
  deadline has to pass; `ReadsAreBounded` speaks of reads whose deadline has.
* `TdAccount`: the threads run, a mutex that is free again and again is
  obtained, and TDLib handles what it is asked and closes when told to. The
  mutex part is an assumption: `receive_loop` holds the account mutex for 0.1 s
  at a time and takes it back at once, and `std::mutex` promises no fairness.
* `McpHost`: the window's thread waits only for the join and, at most five
  seconds, for the server; the server thread comes to its acceptor, or fails to
  open it, at some time, without a bound that the window could know; a handler
  ends because each wait behind the port is bounded. A disjunct that takes the
  window out of the start (`GiveUp`, `StartupFails`) is an alternative, never
  forced. Under this fairness the window need not return: `WindowReturns` excepts
  the one state in which it hangs (`LateServer`, section 4), and no other.
* `AccountStore`: a reader gives its session back, because reads time out.

## 4. Findings

* **An approval has no time limit** (`ExpiredApproval`). `README.md:10` speaks
  of "single-use, time-limited write approvals". `find_and_expire_locked`
  (`ApprovalService.cpp:74`) expires pending actions only: an action approved
  in time can be executed at any later moment. What does hold, and is proved,
  is that the decision itself is in time (`DecisionsAreTimely`).
* **A server that comes late hangs the window** (`LateServer`).
  `SimpleWebHttpHost::start` gives the server five seconds and then calls
  `stop`, which closes an acceptor only if there is one. A server thread that
  has not come that far (lines 130-133 of `SimpleWebHttpHost.cpp` wait for
  nothing) opens its acceptor afterwards: it serves the clients of the start
  that failed, `stop` joins it for ever (line 166), and the answer that the
  code has ready, "HTTP host did not start within 5 seconds" (line 147), never
  reaches the operator. The safety of the host does not suffer: what such a
  server accepts is on disk and not revoked, and its table does not change
  (`ServedIsSaved`, `RotationIsImmediate`, `KeepsPromise`). What Simple-Web-Server
  does in `stop` is modelled from its use here: it stops what has started.
* **The lockdown flag is only shown** (`LockdownFlag`). After `lockdown()` the
  window reads "LOCKDOWN - all write approvals are denied"
  (`DesktopUiState.cpp:101`), and `docs/architecture.md:29` says that write
  registrations are paused and sessions revoked. In the code a new action can
  be prepared and approved as before. What was outstanding at the lockdown is
  gone for good (`LockdownIsFinalHolds`).

* **A long message makes its chat unreadable** (`LongMessages`).
  `sanitize_external_text` cuts a text at byte 8192. Within a character of
  several bytes the rest is no UTF-8; the JSON library refuses to write it, the
  exception is caught far up, and the client reads "Invalid JSON-RPC request"
  for a valid request that the audit log calls ok - for as long as that message
  is among those asked for. `README.md:98` promises the history.
* **An edit of accounts.json is lost** (`LostEdit`). `start_authorization` saves
  the accounts as they were when the window opened. The window itself tells the
  operator to set `api_id` in that file "and enter the API hash below"
  (`DesktopController.cpp:70`); the start that follows uses the old value and
  writes it back. What the program never does, and `UserConfigurationKept`
  shows, is to put a template over a file that is there.

Noticed, with no property of its own: each directory of an account is normalised
for the check that it is under `data`, and compared with the others as it is
written, so that `data/files` and `data/./files` pass as two although the refusal
speaks of "unique safe data directories" (`AccountRepository.cpp:133-135`);
`get_messages` hands on every message the port returns, with the chat it names,
where `list_chats` leaves out what the profile does not list
(`TelegramApplicationService.cpp:88-92, 115-119`), so that for messages the port
is trusted; `docs/architecture.md:25` and
`README.md:9` speak of separate read and write registries, and the program has
one (`add_default_tools`); an `Accept: */*` is answered 406; a refusal to an
allowed origin carries no CORS header, so that a browser cannot read it; a
rotation that fails after the save leaves the row's "copied" label and no error
on that page; a port number is reduced modulo 2^16 before it is checked, so
that 74301 is accepted and means 8765, and an `api_id` modulo 2^32; a code or password typed in the row of
one account goes to the account that was started last.

## 5. The proofs

All theorems hold for every value of the constants that satisfies the named
assumptions of the modules: null values are apart from the values they stand
for, bounds are in `Nat`, `Times` is a set of naturals, there is at least one
account in `AccountStore`, `Clients` and `Threads` are finite in `McpHost`, and
in `Desktop` the requests and the documents that an operator may write have the
fields that the parsers look at, with values of their types (`HttpRequest`,
`Documents`). Each safety theorem rests on an invariant that is inductive; the
large ones (`AccountInv`, `InputInv`, `LateInv`, `StoryInv`, `ErrorInv`,
`DesktopInv`) were tried with TLC on the instances of section 3 before they were
proved. With them every invariant, every action property and every
refinement that the passing runs check is a theorem.

* `ApprovalServiceProofs`: of the policy engine, `NarrowingNeverGrants`, by cases
  on what `Evaluate` distinguishes, and `DefaultDeny`; `ApprovalTypeCorrect`
  (`ApprovalTypeOK` is inductive because it also says that an action in
  preparation is not in the map and that no two have one id); `LifecycleImplemented` (each action of the service makes
  one of the moves of `ActionLifecycle` or none; a lemma per action, then
  `StepMoves`); `DecisionsAreTimely`.
* `TelegramApplicationProofs`: `SingleUseHolds`, `SendsAreConsentedHolds`,
  `PolicyAtSendHolds` and `LockdownIsFinalHolds` from one inductive invariant,
  `WritePathInv`. `SingleUse` is not inductive: nothing in it keeps two workers
  from holding the same action. The invariant adds that a worker about to send
  holds an executed, unsent action (`SendersHold`), that no two hold the same
  (`OneSender`), that what was sent was executed (`SentWasTaken`) and that what
  is approved was consented to (`ApprovedIsConsented`). `PolicyAtSend` needs
  that the table is replaced only while no call runs.
  `CallersAreArbitrary` says that the use cases call the approval service as
  its own module lets anybody call it, so that its theorems carry over; with it
  `ApprovedInTimeHolds` and `ActionLifecycleImplemented`. `ReadScopeHolds` adds
  that a reader at the port was let in by the table still served
  (`ReadersMayRead`); of a list it holds whatever the port returns, of messages it
  says that the chat they were asked of is listed, and nothing of what the port
  sends back. `ServiceTypeCorrect` is the type invariant.
  `AuditTellsTheStoryHolds` rests on `StoryInv`: a client knows an action exactly
  when the log does (`DisclosedAreLogged`), a worker that prepares has an action
  nobody else has or knows of (`PreparersAreAlone`), and one that executes has
  an executed action of its own (`ExecutorsAreAlone`). So the entry a step adds
  is the first of its action or the second, and no other worker will add it too.
* `RequestRouterProofs`: `RequestsMatchWaitersHolds` and `OutcomeIsMineHolds`
  from `RouterInv`. That no waiting caller is an orphan is not inductive alone:
  it needs that a ticket is in one place only - the map, the hand of `fulfill`,
  or that of `close` (`OneHolder`) -, that callers have different tickets, and
  that an answer still owed under an id is owed to the ticket the map holds
  there, if it holds one (`AnswersMatch`).
  `RouterTypeCorrect` and `LateAnswersAreRecognisedHolds` come from `LateInv`. That
  a retired id is in the list of them is not inductive without knowing that it
  is there once: else an eviction would leave a second one behind. It is there
  once because ids grow within a session and an id leaves the map when it is
  retired (`RetiredInv`); and nobody is owed two answers under one id
  (`AnsweredOnce`). What `retire` does to the list is a lemma of its own, for any
  number of ids that `close` retires at once, in any order.
* `ReadCallsProofs`: `ReadsUseRouterProperly` and, by it, `ReadersAreServed`;
  `ListIsWholeHolds`, for every length of the list; `ReadsTypeCorrect` and
  `LateReadsAreRecognised`, from what is proved of the router.
* `TdAccountProofs`: `AccountUsesRouterProperly`. The router wants that an
  answer is handed over at most once and under its own id; the account has
  answers, updates and errors in one queue and one hand. `AccountInv` says that
  the answers on their way are owed and differ (`ReadsComeOnce`), that no other
  request has the id of a read (`OthersAreForeign`, `Spent`), and that between
  two sessions nothing of the old one is left (`SessionsAreApart`). With it
  `AccountServesReaders` and, by following the secrets from thread to thread
  (`SecretsHeld`), `SecretsLiveWithSessionHolds`.
  `OneInputAtATimeHolds` and `AuthorizationImplemented` need more, `InputInv`: `OneTurn`
  says that among everything on its way between TDLib and the receive thread -
  updates, errors, requests, the step that is about to make a request - at most
  one thing belongs to the authorization, and `TurnIsOperators` that the
  operator may submit only when it is nothing. The guard of the input alone does
  not say so: every update lifts it, and an update may be in the queue.
  `ReadErrorsStayPrivateHolds` follows one answer: what reaches the error
  handling has an id of this session that is neither in the map nor in the list,
  which by `LateInv` is full (`Stray`), and that stays so until the next session
  begins. That it lifts no guard follows from `InputIsKnown`: reads and inputs
  draw their ids from one counter. `AccountTypeCorrect` collects the types.
* `McpHostProofs`: `HostTypeCorrect`, `SlotsAreBusyThreadsHolds`,
  `ServedIsSavedHolds` and `RotationIsImmediateHolds` from `HostInv`, which says
  what each step of a start has stopped, loaded and saved so far, and that a
  server thread that has yet to listen will serve what is saved, also when the
  window gave it up (`Phases`), and where each token is (`Secrets`); `TokensAreKeptHolds`; `HostKeepsPromise`, the
  refinement of `ServedClients`.
* `AccountStoreProofs`: `SavedKeyHolds` and `RunningKeyHolds` from `KeyInv`,
  which adds that the keys in memory agree with the database (`LoadedAgrees`),
  and what the window holds between two steps (`WindowAgrees`): a key that is
  not yet saved belongs to an account without a database. `StoreTypeCorrect`,
  from `Ownership`: every session somebody points to exists.
* `DesktopProofs`: the parsers first, each as a lemma: what
  `ParseProfiles`, `ParseAccounts` and `ParseHost` let through fits
  (`ProfilesFit`, `AccountsFit`, `HostFits`), what the program writes is read back
  as what it wrote (`WrittenHostIsRead`), and credentials or secrets are all that
  `Ensured` and a start of an authorization add. The inductive invariant
  `DesktopInv` (`DesktopInvariant`) says that each file is absent, half written or
  a document of its kind, that nothing is in memory while files are staged, that what is in memory was let through by a parser, that the host
  serves the profiles in memory, and that accounts.json, unless the operator
  edited it since, means what is in memory, less secrets that could not be saved
  (`AccountsRemembered`): without the
  last, saving the accounts could change what the operator wrote.
  `UserConfigurationKeptHolds` and `AcceptedIsSafeHolds` follow.
  For requests, `PostFacts` and `PostAnswered` say that the first of the checks
  that fails decides the answer, `StrangersSeeNothing` that without a token the
  rest of the request does not count, `ListTellsTheCalls` that the list of tools
  and the check of a call agree, and `PreflightTellsThePost` that a preflight and
  its POST do. With `ExchangeProper` (`ExchangeInvariant`) - the answer that is there
  was made from the settings that are still in force - they give
  `BoundaryHoldsAlways` and `AnnouncedIsGrantedHolds`.

Model-checked and not proved:

* Liveness, which is beyond the prover used here: `TakenIsAudited`,
  `ReadsAreBounded`, `OwnerReturns`, `InputGuardLifts`, `StopReleasesReaders`,
  `WindowReturns` and `ReplacedSessionEnds`.
* That a conversion of numbers is the library's: `IntType` is the two's
  complement of 32 bits, proved to leave its own results alone, and TLC, whose
  numbers have 32 bits themselves, meets no number that it changes.
* What the recursive functions compute: `lexically_normal` (`Normal`) and the
  number of bytes of a text (`Bytes`) are folds. No theorem depends on their
  values; `AcceptedIsSafe` speaks of the path as `Normal` leaves it.
* The properties that the code violates (section 4).

How the properties are worded: `AuditTellsTheStory` and `Directories` are over the
positions of a sequence and not over a selection or a fold, which would take
induction. `ReadErrorsStayPrivate` has the limit of the router in it: beyond it the
code does let an old answer pass as an error of the account.

## 6. Not modelled

* `DesktopController`: drawing, the input buffers that the rows of the accounts
  share, and the question before a rotation. In the models the operator may
  press anything at any time. `active_account_id` goes with it: the models of
  the account take a code or a password as given to that account.
* The 2025-11-25 handler: only tests use it. `TdTelegramService::detach`:
  nothing calls it.
* Memory wiping, DPAPI and the random generator, except that they fail, and that
  random values do not repeat.
* `send_message` of `TdTelegramService` is a stub that refuses. The write path
  is checked against any port, so it holds for the one that is to come.
* The JSON of results, CORS headers, the wording of messages, the conversion of
  TDLib objects, and which of the fields of a file is at fault.
* What two TdAccounts on one directory do to each other: TDLib's own lock
  decides it.
* In `Desktop` the operator's editor does not save in the very moment in which a
  click of his own is served; at any other moment it may.

The hazards of the code, each at its line with the properties that cover it,
are listed in `PROJECT.json`; those without a property have the reason there.

## 7. Plan

Built, in this order: the write path (`PolicyEngine`, `ApprovalService`,
`TelegramApplicationService`), the read path to TDLib (`RequestRouter`,
`TdAccount`, `ReadCalls`), the host (`McpHost`), the accounts (`AccountStore`),
requests and files (`McpRequest`, `Configuration`, `Desktop`), and the proofs of
section 5. Next:

1. `active_account_id` and the shared input buffers in `AccountStore`, with the
   operator's rows, once the intended behaviour is written down.
2. A refinement between `Desktop`, where a start of the host is one step, and
   `McpHost`, where it is seven, once the two share their configurations.
3. The lemmas behind the liveness properties: for each, a measure that every
   fair step lowers, stated as action properties.
