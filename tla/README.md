# MultiAgentDesk: a TLA+ model of the device daemon

MultiAgentDesk runs coding agents on a user's device. One daemon
(`multidesk daemon serve`) owns a SQLite database, a local endpoint for
clients, and the Provider processes of the Sessions. The hard part of the code
is not what one request does, it is what requests, Provider events, process
exits, the clock and restarts do to each other. This directory models that
part, checks it with TLC and proves its central claims with TLAPS.

## 1. Inventory of the system

| Component | State | Operations | Talks to |
|---|---|---|---|
| Controller lease (`domain/lease.go`, `runtime/manager.go`) | one row per Session: holder, times, revision | acquire, heartbeat, release, require control | every input and stop is fenced by it |
| Fake Provider runtime (`runtime/manager.go`, `process.go`) | processes, event sequence, ring, exit observers | start, resume, stop, kill, handle exit, close | Session rows, a child process |
| Codex RuntimeManager (`providers/codex/runtime.go`) | `runtimes`, `bindings`, `starts`, `workers`, `closed`, per runtime a child and three pumps | start, input, stop, release, fail, finalize, close | credential writer, JSON-RPC client, Session rows |
| Codex turns (`runtime.go`) | thread, active turn, retired threads | input, interrupt, route inbound | app-server notifications |
| Approval dispatch (`runtime.go`, `repository.go`, `session_service.go`) | approvals rows, idempotency rows, pending requests of the binding | arrive, claim, write, complete, fail, recover | app-server, service mutex |
| Session service (`app/session_service.go`) | one mutex, the idempotency ledger | every client method | everything above |
| Credential writer (`codex/materialization.go`) | one private home, one lock file, a quarantine | acquire, refresh, observe and commit, quarantine, release, recover | vault records, the child that rotates its token |
| Vault (`vault/`, `storage/vault_records.go`) | key in memory, sealed items, revocations | unlock, lock, replace (CAS), revoke | credential writer, enrollment |
| Auth enrollment (`storage/enrollment.go`) | enrollment rows and staging homes | begin, claim, await, confirm, finish, expire | vault, accounts |
| Accounts, profiles, previews (`storage/accounts.go`, `session_preview.go`) | rows with revisions | edit, preview, confirm, consume | Session start |
| JSON-RPC client (`codex/protocol.go`) | pending calls, inbound queue, failure | call, respond, read, fail | app-server pipes |
| Device server, authentication and authorization (`device/`, `app/authorization.go`) | Device root, client identities, socket, connection slots, request IDs, nonces | init, rotate, revoke, handshake, authorize, serve, shut down; the client's call and its retry | session service |
| Event log and replay ring, storage set-up, discovery, CLI, scaffolds | | sequential I/O, parsing and printing | |

What makes it hard:

* `withIdempotency` serialises the mutating methods with one mutex, but lease
  heartbeat and release, the pumps, the exit observers and `Close` run beside it.
* Every teardown is "read the row, then compare-and-swap it": someone else may
  win the swap, and the losers ignore the error.
* One Codex child serves all the Sessions of a credential, so a failure of one
  operation is a failure of its neighbours, and answers and notifications of one
  turn arrive at two goroutines in either order.
* An Approval answer is a distributed commit between SQLite and the Provider: the
  daemon may die or the store may fail on either side of the write.
* A token that the app-server refreshed exists only in one file until the daemon has
  sealed it, and the lock that protects this file is rewritten by a goroutine that
  holds no mutex.
* A client confirms what it was shown, starts it later and may have to ask twice:
  rows, the binary and even the alias can change in between.
* A client, a child or a pipe may fall silent at any point; deadlines race the late
  answer.
* The wall clock of the lease can be set back; a crash loses all goroutines and
  keeps all rows.

The full list, with lines and the properties that cover each entry, is
`hazards` in `PROJECT.json`.

## 2. Modules and how they correspond to the code

`map` in `PROJECT.json` gives the source lines of every definition. Names are the
source's where TLA+ allows it; an operator named `Mutant_X` is a plausible bug in
`X`, used only to show that a property would notice it.

| Module | Part | State ↔ code | Granularity of a step |
|---|---|---|---|
| `ControllerLease` | lease and the requests it fences | `lease` = the row, `inputSeq` = `Manager.inputSeq`, `mutex` = `SessionService.mu`, `request` = a handler between `requireLease` and its effect | Acquire, Heartbeat and Release are one step each (`Manager.mu`); an input or a stop is a check step and an effect step |
| `CodexRuntime` | `RuntimeManager` | `owner`, `binding`, `gate`, `workers`, `closed` are its fields, `runtime` its `CredentialRuntime` objects, `writer` and `revision` the credential lock and row, `status` the Session rows, `caller`, the pumps and `closer` the goroutines | one locked region of `RuntimeManager.mu`, one SQLite statement or one Provider call |
| `CodexTurns` (variables and invariants in `CodexTurnState`) | turn and thread routing inside one runtime | `active`, `completed`, `retired` are the binding's fields, `inbound` the client's queue, `server` the app-server (external) | a call, its answer, the routing of one notification |
| `FakeRuntime` (variables and `ChildIsReachable` in `FakeState`) | Fake Provider | `process`, `observer`, `exits` are `Manager.processes` and the exit observer, `child` the process | a compare-and-swap, a signal, an exit |
| `ApprovalContract` | what an Approval promises | `outcome`, `received` | abstract: open, decided as the Provider received it, or unknown |
| `ApprovalDispatch` | Approval dispatch | `row` = approvals rows with the CHECK of migration 0005, `pending` = `SessionBinding.Pending`, `ledger` = idempotency records | one transaction or one write |
| `Enrollment` | login, logout and credentials | `enrollment`, `credential`, `revoking`, `profile`, `account` are rows with their foreign keys, `staging` and `home` directories, `handler` the method inside `SessionService.mu` | one transaction or one directory operation |
| `CredentialWriter` | one credential's home, lock file and Vault row | `lock` is the file with its inode and record, `home` and `quarantine` the directories, `handle` a `MaterializationHandle` with its start and its finalizer, `pump` the lease pump, `child` the app-server | one file operation, one transaction |
| `SessionPreview` | accounts, profiles, previews and the confirmed start | `account`, `profile`, `cred`, `preview`, `session`, `ledger` are tables, `call` the `sessions.start` inside the mutex | one read or one transaction; `sessions.preview` is two reads and an insert |
| `RpcClient` | `codex.Client` | `pending`, `writes`, `done`, `once` are its fields, `wres` and `resp` the channels of a call, `stream` and `written` the two pipes | one channel operation, one frame, one locked region |
| `DeviceServer` | `internal/device` and the CLI's call | `staging` and `root` are what init writes, `row` the identities, `daemon`, `socket`, `accepted`, `conn` the process and its connections, `client` the callers, `ledger` the idempotency records, `registry` a row behind an alias with its revision, `vault` the row of `vault_config` | one accept, one frame, one transaction, one deadline |
| `ControllerLeaseProofs`, `ApprovalDispatchProofs`, `CodexRuntimeProofs`, `RpcClientProofs`, `EnrollmentProofs`, `CredentialWriterProofs`, `SessionPreviewProofs`, `DeviceServerProofs` | theorems about the module each extends, and their proofs; `ControllerLeaseProofs` also extends `FakeState` and instantiates `FakeRuntime` (the rest of `runtime/manager.go`), `CodexRuntimeProofs` extends `CodexTurnState` and instantiates `CodexTurns` (the rest of `codex/runtime.go`): names such as `Init` and `Next` would otherwise collide | | |
| `MC...` | TLC instances | | |

How the parts meet. `ControllerLease` abstracts the Provider to "an effect
reached it", so the two runtimes and `ApprovalDispatch` need no lease of their
own. `CodexRuntime` abstracts turns to "the child is alive" and the credential
writer to a lock and a revision; `CodexTurns` looks inside one live runtime;
`Enrollment` abstracts a runtime to the revision it holds and lets its
finalization run at any moment beside the five auth methods. `CredentialWriter`
opens what `CodexRuntime` calls `writer` and `revision`, and takes logins and
logouts as the single transactions that `Enrollment` details. `SessionPreview` ends
where `CodexRuntime` begins, with a reserved row. `RpcClient` is the client whose
failure is `PumpFails` of `CodexRuntime`; its `WriteOutcomeKnown` is the assumption
`ok => reached` of `Write` in `ApprovalDispatch`.
`DeviceServer` takes what a command does as one step, and keeps how `Handle` runs it.
The CLI sends a command again on its own `idempotent` flag, which it sets for more
methods than `requiresIdempotency` names: those have a record and the mutex
(`Ledgered`); registry updates, enabling, deletion and `control.release` have neither
and rest on the revision they expect (`Revisioned`), `vault.initialize` on the request
that the Vault remembers (`Initializers`); `vault.unlock`, `vault.lock` and
`control.heartbeat` are done again (`Repeated`).
`ApprovalDispatch` refines `ApprovalContract` under the mapping `Outcome` of a row.

Choices that matter:

* A crash (`Restart`) may happen between any two steps; it drops goroutines, maps
  and the Vault key and keeps rows and directories. What start-up recovery does is
  part of the same action because nothing is served before it ends.
* A compare-and-swap that loses is a step that changes nothing, as the code ignores
  the error.
* Times are modelled only where they are compared. The lease has a clock that also
  runs backwards; enrollment expiry is a set of due rows that grows at any moment.
* A file, a login or a JSON payload that may or may not be acceptable is a
  nondeterministic choice.

## 3. Runs

Each takes at most a few minutes. `pass` runs are exhaustive for their bounds.
Every module also states a `TypeOK` that documents its state.

| Run | What it asks | Bounds and why they suffice |
|---|---|---|
| `controller_lease` | `FencedControl`, `InputsInOrder`, `NeverStolen` over clients, clock jumps and restarts | 2 clients, lease of 2 ticks on a clock 0..3, 4 revisions, 3 effects: a grant can expire, be renewed, be taken over and be taken back while a request is in the middle |
| `codex_runtime` | `RegistryConsistent`, `FinalizeOnce`, `SingleWriter`, `DetachedIsTerminal`, `StartExclusive` | 2 runtimes, so that the second overlaps the end of the first, in two scenarios: 2 Sessions on one credential (one reserved), one caller as behind `SessionService.mu` and 1 crash; 2 callers of one reserved Session, and a credential revision that moves |
| `codex_liveness` | `CrashFanout`, `StartSettles`, `CloseReturnsUnlessLeaked` | 2 Sessions, 1 runtime, one caller, under `FairSpec` |
| `codex_turns` | `TurnsAgree`, `OnlyExposedFail` | 2 Sessions, 2 turns each, 3 queued notifications: the queue can hold the end of one turn and the beginning of the next |
| `fake_runtime` | `ChildIsReachable`, `ExitIsRecorded` | 2 Sessions, so that a request on one is in progress while the other exits |
| `approval_dispatch` | `AtMostOneWrite`, `LedgerAgrees`, the CHECK in `TypeOK`, refinement of `ApprovalContract` | 2 Approvals, 3 decisions, 2 keys, 2 callers, 1 restart |
| `enrollment` | `StagingIsOwned`, `OpenHasCredential`, `SealedIsConfirmed`, `BoundIsSealed`, `RevocationHolds`, `LogoutWins` | 2 enrollments, 2 profiles and 2 credentials (symmetric), 3 revisions, 1 registry edit, 1 crash: a credential can be shared by two logins, sealed, refreshed and revoked |
| `credential_writer` | `OneHolder`, `HomeMatchesHandle`, `RotationKept`, `VaultForward` | 2 handles, so that the finalizer and the stale lease pump of one meet the start of the next; 3 tokens: the first, a refresh, and a second refresh or a new login; 1 crash |
| `session_preview` | `OneSessionPerPreview`, `StartedWhatWasConfirmed`, `ConsumedUntouched` | 2 previews of one client, 2 accounts, profiles, aliases and credentials, 4 requests (a retry, another key, a reused key, another client), 2 edits, 1 fault (a crash or a ledger record that is not saved), 1 open preview: an alias can be moved to another profile and the preview replayed |
| `rpc_client` | `AnsweredOnce`, `WriteOutcomeKnown`, `CallsReturn`, `ClientEnds` | the handshake, a call and an answer to a server request, queues of 1, 1 unasked frame (a notification or a repeated answer), under `FairSpec`: the queue is full as soon as one frame waits, and every operation can expire at every point |
| `device_server` | `RetryRunsOnce`, `AnsweredIsDone`, `AuthorizedIsCurrent`, `SlotsReturn` | one command with its retry, of each of the four ways in which `Handle` treats one, or one peer with 2 calls out of 3 requests (permitted, not permitted, unknown) and 2 request IDs, with 2 slots; the recorded command also with 1 slot, which its own first connection may still hold; 1 rotation or revocation; 1 fault (a crash, a failed accept, an unsaved record or another client's change of a row); 2 rows, so that the alias can move between the two attempts; under `FairSpec` |

One run finds a statement of the repository violated by what the code does:

| Run | Statement | What happens |
|---|---|---|
| `enrollment_restart` | selector design, line 186: "Daemon restart expires unconfirmed enrollment staging" | `confirmation_credential_id` still references the unsealed credential, the DELETE in `ExpireAuthEnrollments` is refused, and the daemon does not start |

`CHECK_DEADLOCK FALSE` is set where the system may stop: a closed daemon, a daemon
that failed to start, a client whose calls are over, or a model that has used up its
bounds. `controller_lease` checks deadlock.

**Bounds on behaviours.** `CodexRuntime!Scenarios` and `DeviceServer!Rosters` choose
in `Init` who takes part in a behaviour. They exist because two independent
questions (two callers of one Session, two Sessions of one caller) are each small
and their product is not. The constants keep every combination expressible.

**Fairness.** `CodexRuntime`, `FakeRuntime`, `RpcClient` and `DeviceServer` have a
`FairSpec` that assumes only what the Go runtime and the operating system give: a
goroutine that can take its next step takes it, a timer that was set fires, I/O on a
pipe that this side has closed returns, a child that was killed exits. Callers are
not obliged to start, stop or close anything; a child is not obliged to obey a stop
request, to read its stdin, to answer or to crash; a client need not read or close
its connection; calls may fail every time. `codex_liveness` has one caller because
`SessionService.mu` admits one: with two, a second Session can join a runtime whose
first start then fails and so never launches the pumps, and `CrashFanout` would not
hold.

**What is assumed of the environment.** `CredentialWriter!ChildrenEnded`: after a
crash no child of the old daemon still writes into a home when the next one
recovers; nothing in the code makes sure of it. A token is refreshed only by the
child that runs on the home. In `DeviceServer` a signature verifies exactly when both
sides hold the same key, and one daemon process runs at a time.

## 4. Proofs

Every safety invariant and action property that a run checks is also a theorem
`Spec => []P` (or `Spec => P`), proved with TLAPS for every value of the constants:
any number of clients, Sessions, credentials, requests, turns, restarts. Each proof has the
same shape: an inductive invariant, a lemma that `Init` implies it, one lemma per
action that preserves it, and short steps from it to the properties. The invariants
were checked with TLC on the runs' instances before they were proved. What the proofs
take from the constants is the named `ASSUME` of each module, which TLC evaluates for
every run; it says that special values (`None`, `NoClient`) are none of the others,
that disjoint sets are disjoint, that bounds are naturals, and what is listed below.
An instantiated module gives its assumption to no one: the theorems about `CodexTurns`
have what they need of it, `MaxTurns \in Nat`, as their hypothesis, and those about
`FakeRuntime` need nothing.

**`ControllerLeaseProofs`**, from `LeaseAssumption`. `LeaseInv` is `TypeOK`,
`MutexOwner` (a request between check and effect owns `SessionService.mu`) and
`FencedControl`. `FencedControl` alone is not inductive: without the mutex a second
client's acquire could run in the middle. The interesting actions are `Acquire`, which
needs the mutex and so cannot meet a request, and `Release`, which runs without it and
is the reason for the second disjunct of `FencedControl`. `InputsInOrder` needs
`SeqInv`: while the Provider is bound, `inputSeq[c]` follows the last input of `c` that
reached it, and an input past its check still carries that sequence. `Restart` resets
the counters, which is harmless only because nothing is bound again. Theorems:
`EffectsAreFenced`, `ActiveLeaseNeverStolen` (also: no inactive lease is renewed), `InputsStayInOrder`, `LeaseTypeCorrect`.

The same module, about `FakeRuntime` (`Fake!`). `FakeInv`: a child that is alive is
registered or in the hands of the start past its spawn; an observer that has read a row
still has an exit to account for, an exit that was posted has a dead child, and a
Session without a row has no child. `ChildIsReachable` alone is not inductive, because
`HandleExit` drops an entry and only those facts say that its child is dead. `ExitInv`
is the argument behind `ExitIsRecorded` without its fairness: a clean exit is handled
once, but follows a stop request and so finds a row that can only become terminal; an
unclean one is handled twice, and the first call, if Stop wins the compare-and-swap,
leaves such a row to the second. Theorems: `FakeChildIsReachable`,
`FakeEntryOutlivesChild` (an action property), `FakeExitAccounted`, `FakeTypeCorrect`.
`FakeExitAccounted` says nothing of a start that the store refuses: its child is killed
and never observed, so an exit stays unhandled and the row `starting`.

**`ApprovalDispatchProofs`**, from `ApprovalAssumption`. `IInv` is `TypeOK` (with the
table's CHECK), `Serial` (a goroutine inside `RespondApproval` holds the mutex),
`Phases` (the row is still as that goroutine's last step left it, also when the
completion was stored and only its read-back failed), `History` (an
unclaimed row was never written, a decided one shows what the Provider received) and
`LedgerAgrees`. Theorems: `ProviderAnsweredOnce`, `LedgerRepeatsRow`, `RowsWellFormed`
and `DispatchImplementsContract`, the refinement `Spec => ApprovalContract!Spec`.

**`CodexRuntimeProofs`**, from `RuntimeAssumption`. `RegistryInv` relates the maps to
each runtime's own state, `StartInv` says what a caller in the middle of a start holds
(the gate, the writer, a runtime that is not yet committed), `SettleInv` says who will
still move the row of a Session that lost its binding, and `WorkersCover` counts the
goroutines behind the `WaitGroup`. The registry alone is not inductive, because a
failed start detaches what it has just attached and only its place in the start says
what that is. Theorems: `RegistryAgrees`, `FinalizedOnce`, `OneWriter`,
`StartsExclude`, `DetachedSettles`, `RuntimeTypeCorrect` (the `WaitGroup` never goes
below zero).

The same module, about `CodexTurns` (`Routing!`). `TurnsAgree` speaks of an empty queue
and `OnlyExposedFail` of the event at its head; `RoutingInv` is about all that waits
behind. Per thread, `WireOrder`: the queue holds events of one turn only, the last that
the server began, and the end of that turn behind all others. A turn is open while the
server runs it or its end waits. `BindingFollows`: outside an `Input` the active turn of
a binding is the open turn, or none; while `turn/start` is called there is none; and
between the answer and its handling the binding still has the mark, or what the pump has
made of it, with `CompletedTurnID` telling the two apart. `RetiredAbsorbs`: what a thread
that was released in time still sends is the rest of the interrupted turn under which it
is retired. Nine lemmas say what `Append` and `Tail` do to these, for the thread of the
event and for the others. Theorems: `RoutingTurnsAgree`, `RoutingOnlyExposedFail`,
`RoutingFailsOnExposed` (an action property: it names the thread), `RoutingOneTurn`
(`Input` looks only at its own `ActiveTurnID` and still never starts a second turn),
`RoutingTypeCorrect`.

**`RpcClientProofs`**, from `RpcAssumption`. `SendInv`: a waiter is in `pending` or in
the hands of exactly one of `readerLoop` and `fail`, and in both cases nothing was sent
to it. `WireInv`: where the frame of a write is (queue, writer, pipe) for each outcome
its sender may have seen. Theorems: `CallsAnsweredOnce`, `WriteOutcomesKnown`,
`SendersNeverBlock`, `ClientTypeCorrect`.

**`EnrollmentProofs`**, from `EnrollmentAssumption`. `RowsInv` is about the rows at
rest, with the foreign keys; `HandlerFits` says what the running method has read and
that it is still so, since `SessionService.mu` keeps the other methods out while crashes
and registry edits are not kept out; `StagingInv` follows the directories. Theorems:
`StagingOwned`, `OpenKeepsCredential`, `ItemsAreConfirmed`, `BindingsAreSealed`,
`RevocationsHold`, `LogoutPrevails` (an action property), `EnrollmentTypeCorrect`.

**`CredentialWriterProofs`**, from `BoundsAssumption` (also: `None` is neither a lock
nor a home). The layers are the types, `LifeInv` (the life of a handle), `LockInv` (the
file a handle last saw is the file on disk, or the handle has lost), `OneHolder`,
`ChildInv`, `MatchInv`, `TokenInv` (where each token of the child is), `StartRev` and
`RotInv`. `OneHolder` comes before the home, because only the holder writes it; the
home before the tokens. Theorems: `OneWriterHolds`, `HomesMatch`, `RotationsKept`,
`VaultMovesForward` (an action property), `WriterTypeCorrect`.

**`SessionPreviewProofs`**, from `PreviewAssumption` (also: a request is no more than
its four fields). `FreshInv`: a preview something was changed under, and that is not
consumed, is stale in a way that the comparison in `ConsumeSessionStartPreview` finds.
It rests on `RegStep`: every registry and credential step moves a revision, a snapshot
or a state that never comes back, of each row it touches; thirteen lemmas show that of
the thirteen steps. `Used` and `ClaimInv`: answers, ledger, consumed previews and the
running call name one Session. `ShownInv`: what the running call may start. Theorems:
`OneSessionEach`, `ProviderRunsConfirmed`, `ConsumesOnlyFresh` (an action property),
`PreviewTypeCorrect`.

**`DeviceServerProofs`**, from `DeviceAssumption` (also: finitely many clients, which
`Cardinality` needs, and that the classes of commands are disjoint). `CountInv` makes
`RecordedRunsOnce` an equation: each run of a command with a record is recorded, lost, or
about to be recorded by the one handler that `MuInv` allows. The type of the frames in a
stream carries `AnsweredIsDone` from the handler to the client, and `DirectInv` charges
each run of a peer's request, or of a command that is done again, to a connection that
cannot run it again. `StoreInv` is what the rows know: a command that has changed a row
has left it past the revision that the command expects, and a command that has
initialized the Vault is the one that the Vault remembers; both hold with two handlers
of the command at work, since the comparison and the write are one statement. `KeyOK`
ties a connection's key to its row for as long as the row has the revision that the
handshake read, which holds because every change of a row moves its revision. Theorems:
`CommandsRunOnce` (commands with a record and without), `AnswersAreDone`,
`AuthorizationIsCurrent` (an action property), `ConnectionsBounded`.

**Only model-checked.** Liveness under fairness (`CrashFanout`, `StartSettles`,
`CloseReturnsUnlessLeaked`, `ExitIsRecorded`, `CallsReturn`, `ClientEnds`,
`SlotsReturn`), which is out of the prover's reach. `DeviceServer!TypeOK` is proved only
as far as the argument needs it (`Shape`).

## 5. Known gaps of the code

Met while modelling. The modules contain the behaviour; the properties are stated so
that they say exactly what does hold beside it. The line numbers are in the files
named in `map`.

Codex runtime
* A child crash during a start: `failRuntime` reads `starting`, the start moves the
  row to `running`, the swap is lost, and the Session stays running with no binding
  (phase 2 design, line 296, says a crash fails every binding). `DetachedIsTerminal`
  is stated for Sessions that were already running.
* A first start that fails after `workers.Add(3)` never launches the pumps, and
  `Close` waits for ever (same document, lines 296-297). Hence
  `CloseReturnsUnlessLeaked`.
* `Close` neither drains nor waits for a handler that has already taken its binding
  out of the maps. After a crash nothing reconciles the rows of active Sessions.
* The late answer of a call that timed out has no waiter, fails the client, and with
  it every Session on that child.
* A Session that is released while its `thread/started` or `turn/started` still waits in
  the queue, or while its turn runs on without an interrupt, or more than 30 seconds ago,
  may still send an event that no retired entry absorbs; that event fails the runtime of
  its neighbours (`exposed` in `OnlyExposedFail`).

Controller lease and Fake runtime
* A lease that has expired and that nobody has replaced is active again when the clock
  is set back before its expiry and not before its last heartbeat. `NeverStolen` speaks
  of the clock as it is read.
* A stop the child ignores polls for ever inside `SessionService.mu`; the kill that
  would end it waits for the same mutex. `Kill` records `killed` before the child is
  gone. The event sequence is taken under the lock and persisted after it, so two
  writers may persist out of order.

Login and credentials
* Registry edits do not take the service mutex, and the transaction that seals a
  confirmed login does not compare the revisions again (selector design, line 184,
  says that it cannot race).
* `ExpireDueAuthEnrollments` returns no paths when a later row fails; the homes of the
  rows it has already expired stay until a restart.
* A finalizer that meets a lease refresh under way can neither commit nor quarantine,
  and its `Release` deletes a token that was never sealed (`torn` in `RotationKept`).
  A failed start releases a home whose token the child has already rotated.
* A lock that has expired or was overwritten stays until a restart.
* Quarantine does not block the next start, which uses the Vault's older token
  (phase 2 test plan, line 30, expects it to). The same follows when the Vault is
  locked while a Session runs.

Previews and registry
* The replay of a consumed preview does not compare the fingerprints; after a crash a
  retry may start another binary than the confirmed one (`replayed` in
  `StartedWhatWasConfirmed`).
* The checks of `start` before `failStart` return without moving the reserved row,
  which stays `starting` and blocks a logout; profiles that the registry creates have
  settings `{}`, which `decodeProfileSettings` always refuses. The same happens when an
  alias was moved or disabled between the crash and the retry.
* An account that ever had a credential row cannot be deleted.

Device endpoint
* The listener is closed twice, the second time when `runServe` returns; a daemon
  started in between loses its socket file. After SIGKILL the stale socket blocks every
  start until it is removed by hand.
* Rotating or revoking the owner identity does not update the owner's file: the CLI no
  longer authenticates, and `VerifyIdentityStore` refuses the next start.
* What the CLI repeats without a record is not idempotent in every sense. The repeat of
  a registry change or a release that was done reports a conflict. A target that is an
  alias is resolved in each attempt, so a repeat may change another row that has the
  expected revision: `RetryRunsOnce` is stated for each row. A late or repeated
  `vault.unlock`, `vault.lock` or `vault.initialize` (which locks) may undo what the
  operator did in between, and a late heartbeat renews the lease once more.
* `Serve` does not wait for its handlers; a command may have been carried out and its
  record not saved (`unsaved` in `RetryRunsOnce`).
* A revocation between the authorization and the handling of a request lets that
  request run. `AuthorizedIsCurrent` speaks of the authorization.
* 4096 handshakes within 30 minutes fill the nonce table. A response just below 256 KiB
  is recorded in the ledger and cannot be framed.

## 6. Not modelled, and the plan

Left out for good: cryptography and key derivation, JSON framing and payload
validation, binary discovery, migrations, the Windows endpoint and the probes under
`docs/spikes`, what the commands of the CLI parse and print (the `idempotent` flag with
which they decide that a call may be repeated is in `DeviceServer`), listing and
paging, the replay ring, which nothing decides on, the Vault materializer that only
tests call, and the scaffolds that hold no logic yet. Session attach and resize change
nothing the properties look at. `CodexRuntime` keeps no state of a binding, so that it
allows an input which a stop in progress would refuse; `CodexTurns` has the guard. The
steps of `Bootstrap` in `DeviceServer` say what a root holds when the daemon first
starts; no property is about them alone. Single SQLite errors are modelled where the code
handles them as a case (Approval completion, Session moves, ledger records), not at
every statement.

What is left to prove is `DeviceServer!TypeOK` in full, with the bound on revisions and
keys; no run depends on it.
