# Verification of the Flink SQL Gateway client

This directory models the Go client library `flink-sql-go` in TLA+. TLC checks
the models on small instances, and TLAPS proves the theorems for every value of
the constants. The library is a *client*: it runs in the goroutines of its user
and talks HTTP to one Flink SQL Gateway. What is hard in it is the life of the
things it holds on the server (sessions and operations) and of the goroutines
it starts (heartbeats, monitors, producers), when several goroutines use, end
and clean up the same thing at once.

Paths below are relative to `src/flinksqlgateway/`.

## 1. Inventory

| component | source | state it keeps | operations | hard behaviour |
|---|---|---|---|---|
| activity group | `activity.go` | `active`, `closed`, the `idle` channel | `begin`, `end`, `stop`, `wait` | a waiter holds an old `idle` channel while `begin` makes a new one |
| serialized session | `serialized_session.go` | token channel, set of open streams, `closeOnce`, shared `closeCall` | `ExecuteAndWait`, `ExecuteStream`, `StreamResults`, `Close` | statements of different goroutines, an open stream that holds the token, concurrent `Close` |
| result stream | `result_stream.go` | page token, row position, `cleanupOnce`/`cleanupDone`, the terminal error | `ExecuteStream`, `Next`, `Close`, `finish`, `cleanup` | `Next`, the user's `Close` and `GatewayClient.Close` race for one cleanup |
| managed session | `managed_session.go` | handle, health, runner, `closeErr`, activity group | `OpenManagedSession`, `Execute`, `Stream`, `Close`, the monitor | registration before the runner exists, monitor against `Close`, drain |
| session operations | `session.go` | open sessions, the bounded memory of closed handles, the call in progress per handle | `OpenSession`, `CloseSession`, `ConfigureSession`, `CompleteStatement` | one `DELETE` shared by several callers, later failure and retry, a handle that is issued again |
| session setup | `session_setup.go`, `session_setup_compile.go` | a gate per handle with a reference count | `ApplySessionSetup`, `OpenSessionWithSetup` | gates made, shared, dropped and made again; failure half way |
| client lifecycle | `lifecycle.go`, `client.go` | `clientClosed`, sets of streams, sessions, runners; observer slots | `Close`, `ensureOpen`, `CheckAPIVersion`, `runObserver` | everything that is open at that moment must be closed; the closing client refuses requests that are not its own |
| heartbeat | `heartbeat.go` | registry of runners, failure count, event channel | `StartHeartbeat`, `StopHeartbeat`, the runner loop | start races `Close`; an event that is not read in time is replaced |
| session recipes | `session_recipe.go` | none between calls | `OpenSessionFromRecipe` | failure half way, while somebody else closes the session or the client |
| submissions | `script.go`, `materialized_table.go` | none | `DeployScript`, `RefreshMaterializedTable` | a POST that must not be repeated and whose outcome may be unknown |
| collected execution | `poller.go`, `result.go`, `operation.go` | none between calls | `ExecuteAndWait`, `StreamResults`, fetch, cancel, close | a cleanup on every path; a consumer that stops reading |
| changelog materializer | `changelog/materializer.go` | rows by key, order with tombstones, pending updates | `Apply`, `ApplyUpdate`, `RollbackPending`, `Snapshot` | order index, compaction, updates that arrive in two rows |
| HTTP transport | `transport.go` | none | `doJSON` | the one retry, outcomes that are unknown |
| compatibility | `compatibility.go`, `version.go`, `capability.go`, `snapshot.go` | one shared resolution | `CheckAPIVersion`, `compatibilityForCapability` | an owner that gives up while others wait; a capability looked up before and after the check |
| the rest | `metadata.go`, `decoder.go`, `config.go`, `types.go`, `errors.go`, `security.go`, `../flinkrest/` | none | requests, conversions, validation | |

How they interact: `SerializedSession` and `ManagedSession` each own an
`activityGroup` and track their streams in it. Both close their session with
`GatewayClient.CloseSession`, which single-flights by handle. `ManagedSession`
owns a heartbeat runner, whose events its monitor reads. `GatewayClient.Close`
sets `clientClosed` (after which every request is refused unless its context
is marked as internal cleanup), takes a snapshot of streams, managed sessions
and runners, and closes them. A `ResultStream` owns one operation on the server.

What makes each correct:

- *activity group*: a `Close` that has waited returns only when nothing runs,
  nothing starts afterwards, and it does return.
- *serialized session*: at most one statement at a time, and none after the
  session was deleted; the token is never lost or duplicated; `Close` gets
  everybody out.
- *result stream*: rows exactly once and in order; the end is reported as what it
  was; a clean end means that the operation was released; everybody returns.
- *managed session*: the `DELETE` is sent while nothing runs, and once; `Close`
  reports success only of a session that is gone; a failed opening leaves
  nothing behind; its health is what the heartbeats found, and a session that has
  gone is noticed.
- *client*: after `Close` nothing it owns runs, whatever callbacks do; what it
  remembers of its sessions agrees with the server; a recipe reports what was
  applied and cleans up after itself.
- *session setup*: two flows never configure one session at once; gates are not
  leaked; a waiter is served.
- *materializer*: what a user sees is a table in insertion order, and memory
  stays bounded by the rows held.
- *collected execution*: a consumer gets a prefix of the one right sequence of
  events; the verdict fits what was received; a failed execution leaves no
  operation behind; a `Close` of the client that waited finds nothing running.
- *requests*: an outcome that is unknown is reported as unknown; nothing that is
  reported as not applied is ever processed.
- *compatibility*: the remembered verdict is the right one for the gateway, and
  nobody gets somebody else's cancellation; an operation is refused only where the
  gateway, in the version selected, does not have it.

The hazards, each with its line, are in `PROJECT.json` under `hazards`, with the
properties that watch them, or a note on why none does yet.

## 2. Modules and plan

Modules in the order in which they were written, and which uses which:

    ActivityGroup            the methods of activityGroup, as operators
    ├─ DrainProtocol         goroutines that begin, end and close            + proofs
    │    └─ ClientLifecycle  one client until after its Close, implements it + proofs
    │         └─ Heartbeat
    ├─ SerializedSession     implements ExclusiveSession                     + proofs
    ├─ ManagedSession        opening, closing, monitor, CloseSession         + proofs
    │    └─ Heartbeat        the runners of a client and their registry
    │         └─ SessionRegistry  what the client remembers of its sessions
    └─ Execution             ExecuteAndWait and StreamResults                + proofs
         ├─ ServerOperation  one operation as the server sees it
         └─ ResultPages      its result, page by page, and the limits
    ResultStream             ExecuteStream, Next and Close                   + proofs
    ├─ ServerOperation
    └─ ResultPages
    SessionSetupGate         the gate per session handle
    └─ SessionSetup          the flows that pass it, implements the gate     + proofs of both
         ├─ SessionSetupPlan what a plan is compiled to
         └─ ApiRequest       one call of doJSON
    CompatibilityCheck       the shared detection of the gateway             + proofs
    ├─ ApiRequest
    └─ Submission            the operations that need a capability,
                             implements the check                            + proofs
    Materializer             implements ChangelogTable                       + proofs

`ExclusiveSession` and `ChangelogTable` are abstract specifications: what a user
of the wrapper and of the materializer relies on. `SessionSetupGate` is both a
detailed model of the gate and the abstract specification of the flows, and so are
`DrainProtocol` for `ClientLifecycle` and `CompatibilityCheck` for `Submission`.
Modules `MC*` give constants their values; `MCSessionSetup` also compares the
compiler of plans with what it promises, over 3276 small plans.

Order: the group first, because every `Close` rests on it; then the three objects
a user holds (serialized session, result stream, managed session); then what
configures sessions; then the paths that collect results; then the checks that
come before every operation; then what a client shares between all of these.

What is left, in order:

1. *Proofs*: every safety property that a run checks has its theorem. The types of
   `Execution`, `ResultStream`, `ManagedSession`, `ClientLifecycle` and `Submission` are
   part of the inductive invariants as far as these need them, and not a theorem of their own.
2. *A second reader* of the events of a heartbeat, and with it a weaker promise than
   `GoneIsNoticed`.

## 3. How the models correspond to the code

Everywhere, one action is one critical section, one channel operation, one
request, or one look at a context: between two of them other goroutines run. A
`pc`-like function says where each goroutine is. A mutex does not appear when
nothing that blocks happens under it. `PROJECT.json` maps every definition to
its lines.

**ActivityGroup** (`activity.go`). `idle` is a Go channel that `begin` replaces; the
model numbers channels, so that a waiter can hold an old one. `Begin`, `Refuse`,
`End`, `Stop`, `CaptureIdle`, `Released` are the methods; `wait` is two steps,
since it reads the channel under the mutex and waits without it.

**DrainProtocol**. Workers begin and end up to `MaxRuns` activities; closers call
`stop` and `wait`, which may time out and be retried. It has no run of its own: it is
the specification that `ClientLifecycle` implements.

**SessionRegistry** (`session.go`). The state under `stateMu` that concerns handles, one operator
for each critical section: `sessions`, `closed` with its bounded `closedOrder`, and
`closeCalls`, where a call is named after its owner.

**Heartbeat** (`heartbeat.go`). The registry of runners and the loop of each. A request and what the
loop makes of the answer are one step, since nobody sees what is between. The
modules that extend it say who starts and stops runners and when their context ends.

**ClientLifecycle** (`lifecycle.go`, `session_recipe.go`, `session.go`, `heartbeat.go`). A `flow` runs a recipe:
it opens a session, records it, runs each statement as an activity of `c.executions`
and tells the observer of it, and closes the session when one fails. Users close
sessions by their handle, start heartbeats, and call `Close`; `body` is the place in
the one body of `clientCloseOnce`. A callback takes a slot or is dropped, and may
return, never return, or call `Close`. A gateway may issue a handle again. Streams
and managed sessions, which the same body closes, have their own modules. `cast` says
who takes part in a behaviour: not everybody has to meet everybody else.

A runner that `StartHeartbeat` registers after `Close` took its snapshot survives the
`Close` (`heartbeat.go:56` looks before `:69` locks): it is in `late`, and `CloseLeavesQuiet`
excepts it. Its requests are refused, and it ends with the context of its user.

**SerializedSession** (`serialized_session.go`). `gate` holds the token, `pc` the place
of each caller in `ExecuteAndWait`/`ExecuteStream`, `under` the stream of the
client, `fin` the progress of the `sync.Once` of its wrapper, `todo`/`target` the
snapshot `closeLocal` works through, `closeOwner` and `joined` the shared `closeCall`. Statements
of the client, and its `CloseSession`, are single calls that may succeed or fail;
a `DELETE` may fail after the server has processed it.

**ResultPages**. The result that the server has for a statement: `Ends` says how many rows it has
sent after each page, so that a page may be empty and pages need not be equally long; `RowLimits` and
`PollLimits` are the values of `MaxRows` and `MaxPolls` to consider. A row is its position.

**ServerOperation**. The life of one operation on the server, with `Submitted`,
`CancelAnswered`, `CloseAnswered` and, for each, a lost request: it was processed
or not, and the client sees an error. `faulty` is history: some request was lost.

**ResultStream** (`result_stream.go`). `npc` is the reader, `kpc` the closers (users, and
`GatewayClient.Close` as one more), `finish` the arguments of the cleanup that has
won `cleanupOnce`. Where `Next` looks at a context (before a fetch, on its error, in `waitContext`)
the context may have ended or not.

**ManagedSession** (`managed_session.go`, `session.go`, `lifecycle.go`). Three single-flight
structures are stacked: `shutdownOnce`, `m.closeCall` and `c.closeCalls`. `pc` says
where each closer is in them. The opener registers the session before it assigns
the runner, as `OpenManagedSession` does, and `GatewayClient.Close` may come in
between; its read of `m.runner` is a data race with that assignment, and a step of
its own here, so that it finds the old value or the new one.

The runner publishes events into a channel of one, where the next replaces one
that has not been read (`event`); the monitor reads them and sets `health`. When a success is replaced
by a failure before the monitor reads it, a DEGRADED session stays DEGRADED although
it has failed once in a row (`managed_session.go:218`), which neither the declaration of `SessionDegraded` (line 18)
nor `docs/releases/v0.1.2.md` mentions. `HealthHonest` therefore says of
DEGRADED only that the last heartbeat failed. A session closed by its handle, or
whose heartbeat was stopped by it, keeps its last health. The `Serialize` option is
`SerializedSession`.

**SessionSetupGate** (`session_setup.go`). A gate is an object with a token channel and a
reference count, found through `setupGates`. It is dropped by the last to leave
and made again by the next to come; `Gates` bounds how many are made.

**SessionSetupPlan** (`session_setup_compile.go`). `Compile` is the order of steps, `Rejected` what is
refused; a name is a value or `NoName`, which stands for every text that is not a
valid identifier.

**SessionSetup** (`session_setup.go`, `session.go`). A flow of `ConfigureSession`,
`ApplySessionSetup` or `OpenSessionWithSetup`: `task` is its position and its
report. Each POST is one call of `ApiRequest`, whose exchanges say what became of it on
the server: nothing, processed, or to be processed after the client has given up.

**ApiRequest** (`transport.go`, `operation.go`). The sequences of exchanges that one call of
`doJSON` may make, with its single retry of idempotent requests, and
`OutcomeIsUnknown` (`nonIdempotentOutcomeIsUnknown`).

**Execution** (`poller.go`, `result.go`). `runExecution` from `begin` to the deferred `end`:
`next`, `polls`, `received` are those of `consumeResults`; `events`, `err` and their
`…Shut` flags are the two channels. An error of an execution goes through
`cleanupOperation`, whose context is marked as internal cleanup; the close of one that
succeeded has no such mark, and the model keeps the difference.

**CompatibilityCheck** (`client.go`, `compatibility.go`). `versionCall` is the call in flight,
named by its owner; the owner asks `/info` and `/api_versions` without the lock,
selects a version and settles. Versions are numbers in the order the code gives
them; the code sorts those that are common to both sides and scans them from the
top, which is to take the `Highest` of them, or of those up to the stable one.

**Submission** (`script.go`, `materialized_table.go`, `capability.go`, `CompleteStatement`). Before its
check a caller looks at the capabilities of the version that is configured, if the
configuration fixes one (`RefuseEarly`), and after it at those of the version that
was selected (`RefuseLate`). Then it sends one request to that version. A POST is one
of the `UnsafeCalls` of `ApiRequest`; what the gateway makes of it is counted in
`processed`, also when it comes `late`.

**Materializer** (`changelog/materializer.go`). `rows`, `order`, `orderIndex`, `tombstones`
and `pending` are the fields of the struct; each operation holds the mutex
throughout and is one action, compaction included. `Kept` is the loop over the order that both
`Snapshot` and the compaction run: the entries that are in a set, in their order.

## 4. Runs

| run | instance | what it shows |
|---|---|---|
| `client_lifecycle` | three casts: a recipe, a `CloseSession` and a `Close`; two heartbeats, a `CloseSession` and a `Close`; a recipe, two `Close`s and a slot for callbacks. 2 handles, 1 remembered, 2 statements, 2 recipes in a row | what is quiet after `Close`, what is remembered of sessions, what a recipe reports, every `Close` returns |
| `serialized_session` | 2 callers, 2 closers | refinement of `ExclusiveSession`, the token, streams created while closing, liveness of all |
| `session_setup` | 2 callers, 2 sessions (one known to both), 2 gates, a plan of 3 steps | exclusion and accounting of gates, the truth of the report and of what may remain, cleanup after a failed opening, every flow ends |
| `materializer` | 4 keys, 2 values, 3 rows, compaction above 1 tombstone | refinement of `ChangelogTable`, bounded order |
| `result_stream` | 1 user, 2 pages of a row, `MaxRows` 1 or 2, 3 polls | rows once and in order, the verdict, release, every call returns |
| `managed_session` | a user, a `CloseSession` or `StopHeartbeat` by handle, the client, the opener, a caller, the heartbeat with threshold 2 and its monitor | order of the drain and the `DELETE`, honesty of shared results and of the health, no leak, a gone session is noticed |
| `execution` | 2 pages of a row, `MaxRows` 1 or 2, 3 polls, a channel of one event | order of events, verdict, release, drain, termination |
| `submission` | 3 callers in 6 environments, each with a few choices of operations; the contexts of the impatient ones may end | the verdict, the single flight, no foreign cancellation, permission, what a POST is told, every call returns |

Four more runs end in a violation and are the findings of section 7.

Why these bounds are enough to meet the interesting cases:

- Two callers and two closers are the smallest numbers with a caller that waits
  while another holds, and a `Close` that joins another.
- Two handles of which one is remembered let a handle be forgotten for another, and
  be issued again; two recipes in a row let the second have the handle of the first.
  Two runners compete for one session. Two `Close`s are one that owns `sync.Once` and
  one that waits, and a single slot is one that a callback may keep for ever.
- `FailureThreshold` 2 tells the first failure from the one that degrades.
- Two pages make a `nextResultUri` matter, one of them is the last; `MaxRows` 2
  is met exactly, 1 is exceeded by one row. Three polls are one more than needed:
  one `NOT_READY` fits and two do not.
- A channel of one event makes the producer wait for its consumer.
- Two gates let a gate be dropped and made again once while both callers are
  about; more generations repeat the same states.
- Three rows with a threshold of one tombstone compact on most paths; the code's
  threshold of 1024 is a constant of the model. Four keys are one more than fit.
- Three callers of the check: an owner that gives up, one that starts over and
  becomes the owner, one that waits for both.
- The environments of the check cover every policy, automatic detection and
  none, a gateway with a version above the stable one, one with nothing else,
  an unknown release line, and an explicit version that the release lacks.

`CHECK_DEADLOCK FALSE` stands where a behaviour may really end (every goroutine has
returned). `Materializer` has no end and is checked for deadlock. Symmetry is used
only in `Materializer`, where no liveness is checked. Type invariants are in no
run: those of `DrainProtocol`, `SerializedSession`, `SessionSetupGate`, `SessionSetup`, `CompatibilityCheck`
and `Materializer` are proved, the others (`TypeOK` of `ResultStream`, `Execution` and `ManagedSession`,
`LifecycleTypeOK`, `SubmissionTypeOK`) hold on the same instances and stand in
their modules as the documentation of the state. What they bounded is now part of
`OutcomeHonest` and `VerdictHonest`, which also limit the number of polls.

## 5. Fairness

Properties that something must happen assume only what the code itself does.

- Weak fairness of the library's own steps. Requests are bounded by
  `RequestTimeout`, executions by `MaxPolls` and `ExecutionTimeout`, and every such step is
  enabled until it is taken.
- *No* fairness for users: nobody has to call `Close`, to read a stream, to call
  `Next` again, to cancel a context. `ExecutionEnds` has to except a consumer that
  stops reading and lets its context live: that is what the code promises.
- `Execution`: a consumer that is reading reads on, and `lifecycleCtx` ends once the
  client is closed (`lifecycle.go` cancels it in `Close`).
- The setup gate has strong fairness of `TakeToken`: a Go channel hands a value to
  the goroutine that has waited longest, so a waiter is not passed over for ever.
- `ManagedSession`: the heartbeat beats on (`Beats`) and its monitor reads. Nothing makes a
  request fail or a session expire.
- `ClientLifecycle`: the observer's timer fires (`MayGoOn`), while nothing obliges a callback to
  return; nobody has to start a heartbeat, to close a session or to call `Close`.
- `Submission`: the library's steps only. A lost request need not be processed.
- `SerializedSession` needs no strong fairness: after `Close` a waiter is woken by the
  closed channel and not only by the token.

## 6. Proofs

All theorems hold for any sets of goroutines, sessions and gates, any plans, results, limits and
environments. The `ASSUME`s they rest on say only what the code guarantees or what a name means:
sets of goroutines are finite where they are counted; `None` and the tombstone are none of the
things they stand beside (`rowKey` never returns the empty string); `MaxRows` of the materializer,
the capacity of the channel of events, the failure threshold and the memory of closed handles are positive, as their constructors make them;
the goroutine that runs the body of `Close` is one that closes (`ClientIsCloser`); the plan of a flow is
one that compiles (`PlanCompiles`); the pages of a result follow each other (`PagesAreOrdered`);
and a profile lists its stable version and a configuration has one of the three policies (`EnvironmentsAreValid`). TLC evaluates each of them in a run.

- **ClientLifecycleProofs**, first for the drain protocol. `DrainSafe`: `[]DrainSound`. `DrainSound` is not inductive: that
  `wait` was released says only that the channel the waiter *read* is closed. `IInv`
  adds that the current channel is closed exactly while nothing is active, that
  channels are numbered in order, and `WaiterInv`: a waiter came after `stop`, so that
  `closed` holds, nothing begins any more, and the channel it holds is the
  current one.
  Then for the client. `LifecycleUsesDrain`: a step of a flow is a step of its worker or leaves the activities alone,
  the body of `Close` is the one closer, so `LifecycleSpec => Spec` of the drain protocol. `CloseQuiet`:
  `[]CloseLeavesQuiet`, of which `DrainSafe` gives the part about executions. For the heartbeats `RunnerInv` adds
  that a live runner is the registered one of some session (so that no snapshot can
  miss it), that from the snapshot on it is still to be stopped, being waited for or
  `late`, and that nobody is left to stop when the body goes on to wait.
  `RegistryIsSound`: `[]RegistrySound`, and `RecipesAreHonest`: `[]RecipeHonest`. `RegistrySound` is not inductive:
  that a remembered handle is closed follows from what a `CloseSession` knew when it settled.
  `MemoryInv`: the list of closed handles lists their set, each once, also when one is forgotten for another;
  `CallsInv`: an entry of `c.closeCalls` belongs to an owner that is busy with that handle, and whoever joined waits for such
  a one; `ClosedInv`: a handle that is remembered, or about to be, is open on the server only while the flow it was
  issued to again has not recorded it; `RecipeInv`: the statements a recipe has counted are those that were processed, and
  its close is of its own session; `BeatInv`: a registered runner beats for that session.
- **SerializedSessionProofs.** `TokenSafe`: `[]TokenConserved`, and `Refinement`: `Spec => ImplementsExclusive`. `IInv` consists of
  `TokenInv` (one token, one holder), `StreamInv` (where the stream of a caller can be given the
  progress of its once), `ActivityInv` (the counter is the number of callers that have begun
  and not ended, and it is at most one), `CloserInv` (what a closer knows: the channel it holds is the current
  one, and from the join on nothing is active). The refinement maps the owner to the
  one caller whose statement is in use; the lemmas `Starts`, `Ends` and `Deletes` treat
  the actions that change it, `Invisible` shows that all others stutter.
  `SuccessIsTrue`: `[]CloseOkMeansClosed`. `NoStreamEscapes`: `[]NoOrphanStream`. `OwnerInv`: one goroutine is in the
  local close, between the stop and the last stream of its snapshot; `CoveredInv`: before the stop every open
  stream is registered, after it every unfinished one is still on the owner's list.
- **ManagedSessionProofs.** `DeleteIsQuiet`: `[]QuietDelete`, `DeleteIsSingle`: `[]SingleDelete`, `CloseTellsTheTruth`:
  `[]CloseIsHonest`. `GroupInv`: the counter is the number of calls that run, and the current channel is closed exactly
  at zero. `ManagerInv`: whoever waits holds the current channel, and past the wait nothing runs.
  `CallInv`: inside `CloseSession` one owns its entry of `c.closeCalls`. `BeatInv`: users and callers by handle come
  only after the runner was started, it is registered while it lives, and so they find it and
  have seen it end when they delete; the client's close may come before, but then
  `lifecycleCtx` has ended. `TrueInv`: no success without a session that has gone.
  `FailedOpenLeavesNothing`: `[]NoLeakAfterFailedOpen`, from `LeakInv`: an opener that fails has seen the session go, or
  has joined the only other goroutine that can know its handle, which is in the middle of closing it.
  `HealthIsHonest`: `[]HealthHonest`, from `HealthInv`: an event that the monitor has not read says as much of
  the runner as those that it has replaced, and the last word of a runner is that the session has gone.
- **SessionSetupProofs**, first for the gate: `Exclusion`, `Accounting`, `ReturnIsImmediate`: a holder's gate is the one that is
  registered for its handle (`GateInv`), a gate has at most one holder and then an empty
  channel (`TokenInv`), and the reference count is the number of its users (`RefInv`), so it
  is dropped only when nobody refers to it.
  Then for the flows: `FlowsUseTheGate`: each step of a flow is a step of the gate or leaves it alone,
  so `SetupSpec => Spec`; `FlowsExclusive` and `FlowsAccount` follow from the theorems of the gate.
  `ReportIsTrue`: `[]ReportHonest`, and `FailedOpenIsClosed`: `[]FailedOpenCloses`, for any plan that compiles. Besides the types
  and the place at the gate, `FlowInv` says that nothing was requested before the gate was passed (`FlowFresh`), that the steps
  that were reached are the first ones (`FlowOrder`), that the report of each is what the server did (`FlowTrue`), and what a
  failure leaves behind (`FlowRemains`, `FlowCloses`). The work is `OneExchange`: a POST is one exchange,
  and what its caller is told agrees with what became of it. That nothing is created inside an object whose creation failed
  follows from the order in which `Compile` puts catalogs, databases and tables.
- **ExecutionProofs**, for results of any number of pages, any limits and any capacity of the channel. `NothingLostOrRepeated`:
  `[]EventsInOrder`, `VerdictIsHonest`: `[]VerdictHonest`, `FailedExecutionReleases`: `[]FailureReleases`, `CloseWaits`:
  `[]ClientCloseWaits`. The heart is `ProgressInv`: how many rows and events have been delivered follows from the page the
  execution is at and, while it delivers, from the place in the batch of that page; what is pending is the
  rest of the batch. With it `OrderInv` (what was sent is a prefix) is inductive: lemmas about `FlattenSeq` place each
  batch in the transcript. `ReleaseInv`, `ReportInv` and `LimitsInv` carry what the end needs to know of the server, of the
  channels and of the limits to the end; `GroupInv` says that the execution is the one activity.
- **ResultStreamProofs**, for any results, limits and number of goroutines that close. `RowsAreInOrder`: `[]RowsInOrder`,
  `OutcomeIsHonest`: `[]OutcomeHonest`, `CloseIsHonest`: `[]CloseHonest`. `RowInv`: the rows returned and those pending are, one
  after the other, those of the pages up to the token. `OutcomeInv`: what a reader proposes as the end is true when it
  proposes it and stays true, because it does not read on, whoever wins the cleanup. `CleanupInv`
  and `OnceInv`: the cleanup runs once and reports a close that did not reach the server, and a stream is in `c.streams`
  exactly from the moment its caller has it to the end of its cleanup. So a `GatewayClient.Close` that finds no stream
  has come after that end, or before `registerStream`, which then refuses the stream.
- **SubmissionProofs**, first for the check. `OneAsks`: `[]SingleFlight`, and `CancellationIsOwn`: `[]NoForeignCancellation`. `OwnerInv`: the callers that ask are
  exactly the owner of the call in flight, and there is none once the verdict is known.
  `CancelInv`: a cancellation is never remembered, and a finished call that was
  cancelled tells its waiters to ask again unless the client was closed. `VerdictIsTrue`: `[]VerdictTrue`; `VerdictInv`: whoever
  resolves the call brings a right verdict or a passing failure, and whoever was told a verdict finds it remembered.
  Then for the operations. `PermissionIsTrue`: `[]PermissionTrue`, from `VerdictTrue`. `SubmissionUsesCheck`: `SubmissionSpec => Spec` of the check; `SubmissionsShareTheCheck` follows from `OneAsks` and
  `CancellationIsOwn`. `SubmissionsAreHonest`: `[]SubmissionHonest`, which is inductive with the types of its variables; the
  work is `PostTellsTheTruth`, about one POST: it makes one exchange, and what its caller is
  told agrees with what became of that exchange.
- **MaterializerProofs**, for any keys, values, limits and changelog. `PendingHasRow`: `[]PendingPresent`. `IndexIsConsistent`:
  `[]IndexConsistent`, and `OrderIsBounded`: `[]OrderBounded`. `OrderInv`: the array and the index describe each other (`Describes`), the array has
  a place for each row and each tombstone (`Counted`), and not too many tombstones (`Compact`). A deletion blots out one
  place (`OrderBlot`); a compaction keeps each live key once (`OrderCompacted`).
  `TableIsImplemented`: `Spec => ImplementsTable`, the refinement of `ChangelogTable` under the mapping of `table` to `Snapshot`.
  An `INSERT` appends (`TableAppend`), an update replaces in place (`TableReplaced`), and a `DELETE`, whether it compacts or not, takes
  out one row (`TableDelete`), because to blot out a place is to drop one entry of what the loop keeps (`KeptBlot`) and
  the loop keeps all of what it has kept (`KeptWhole`).

What `Kept` computes in a loop, and what `FlattenSeq` makes of a sequence of batches, is proved for arrays of any
length by induction in the form of `SetInduction`: a set of naturals with 0 and with `n + 1` for each of its `n` is `Nat`, which
follows from the least element of a set. (The induction rules of the library take an operator as their parameter, which the installed provers
cannot instantiate.) The two lemmas stand in `ExecutionProofs` and in `MaterializerProofs`.

Only model-checked: liveness (`ClientCloseReturns`, `EverybodyLeaves`, `FlowEnds`, `CallsReturn` of streams and of
submissions, `CloseReturns`, `GoneIsNoticed`, `ExecutionEnds`), because fairness and `ENABLED` are out of the
prover's reach; and what the compiler of plans promises, which `MCSessionSetup` compares over small plans.

## 7. Findings

1. `stream_client_close_leak`: a user's `Close` of a stream wins the cleanup, the client is
   closed, and `ensureOpen` refuses the user's requests because their context is not
   marked as internal cleanup. `GatewayClient.Close` finds the cleanup taken. The
   operation stays on the server (`result_stream.go:251`).
2. `stream_close_without_cancel`: `Close` ends the context of the stream before it enters the cleanup;
   a concurrent `Next` takes this for the end of its context, wins the cleanup and, by
   default, does not cancel the operation, which the comment of `Close` promises
   (`result_stream.go:104`, `249`).
3. `managed_client_close_leak`: the cleanup of `GatewayClient.Close`, which may send the `DELETE`, joins a user's
   `CloseSession`, which may not any more; both get `ErrClientClosed` and the session stays
   (`session.go:236`).
4. `execution_close_leak`: the close of an execution that has succeeded is not marked as internal
   cleanup, while that of a failed one is; a client that is closed at that moment
   leaves the operation on the server (`poller.go:144`).

Each needs no lost request. The properties in the passing runs state what does hold:
`CloseHonest`, `CloseIsHonest`, `FailureReleases`.

## 8. Not modelled

- Columns, field values, SQL text, formatting of errors, redaction, metrics: data
  that no property tells apart. A page is valid or not; a key of a row is a key or
  an error.
- `decoder.go`, `config.go`, `types.go`, `errors.go`, `security.go`: conversions, declarations and validation, without
  state or order.
- `metadata.go`: each query is one read-only statement through `ExecuteAndWait` (`Execution`) and a
  conversion of its rows.
- `../flinkrest/`: a client of another service. Each of its calls is one bounded request,
  it shares nothing with the gateway client, and its only state is a flag that says it is
  closed.
- The SQL text of the steps of a plan; parsing of version strings; the registry of
  releases.
- A second reader of the events of a heartbeat: `StartHeartbeat` on the handle of a managed
  session returns the runner of that session, and whoever reads its events takes them
  from the monitor (`heartbeat.go:70`).
- A panic of a callback, which the client recovers from, and idle connections.
- Time. A timeout is an event that may come at any moment, before or after the
  answer it waits for.

Assumption on the gateway: it leaves `nextResultUri` out of a `NOT_READY` answer only
before the first page. The client then asks for token 0 again, which would repeat rows
later in a result (`result_stream.go:211`, `result.go:52`).
