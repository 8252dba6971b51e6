# Riffology: a TLA+ development

Riffology is a local workbench in which a modelling agent writes simulation
Projects, runs them as batch or visual Runs, and shows their outputs. This
directory holds TLA+ modules of the parts of its backend (`src/backend/src`)
where order, concurrency and failure matter, the TLC configurations that check
them on small instances, and proofs of the safety properties for instances of
any size. `PROJECT.json` maps every definition that models code to the lines it
models, lists the hazards of the code with the properties that guard them, and
names for every property a plausible bug (a *mutant* of one definition) that the
property catches.

## 1. The system

The repository holds two products over one code base. The *Project-only* product is
the one served today: `index.ts` opens the Store through
`project-only-server-factory.ts` and hands it to `server.ts`. The *historical* product
(`product-store-v2.ts`, `product-run-dispatcher.ts`, `agent-workspace-service.ts`, ...)
is the larger one: Models and Projects with their own lifecycles, a dispatcher with
recovery, Agent turns with a journal, guides, frames and visual Agent calls.
`server.ts` serves whichever stores and services it is given; the local browser broker
belongs to both, the browser agent authority only to the historical one. Both are
modelled. Milestone demonstrators beside them are not.

The backend is one Node.js process. JavaScript runs to completion between two
`await`s and SQLite is called synchronously, so the interleaving of the system is
that of the stretches between awaits: HTTP handlers, agent tool calls, supervisor
hooks, continuations. Everything durable is in SQLite and in a tree of object files;
everything else is lost when the process ends, except the processes it launched, which
live on, and OpenCode, a server of its own.

| Component | State | Operations | Talks to | What makes it hard, what makes it correct |
|---|---|---|---|---|
| Project-only Store, operations (`project-only-store.ts`, `-operations.ts`, `-schema.ts`) | Projects, files, Experiments, Runs, execution locks, completion records, outputs, receipts | admit a Run, transition it, commit a result, fail a start, write files, edit an Experiment, reconcile at startup | everything calls it, synchronously | lock, Run row and evidence change together; a replayed command has no second effect; a restart leaves nothing active |
| Batch and visual runtime (`project-only-batch-runtime.ts`, `-visual-runtime.ts`) | `#active` attempts with an AbortController, health, the promise a start waits on | start, cancel, stop, close, supervisor hooks | Store, supervisors, browser broker | a cancel or a stop races with the supervisor's answer; a broker must never reach a process whose Run is over |
| Agent service (`project-only-agent-service.ts`) | turn and session rows, pending turns, recorded actions, capabilities | submit and run a turn, execute tools, close | OpenCode, Store, runtimes, test-user access | seven awaits with timeouts; tools run while a turn is being aborted; the report must match the effects |
| Test-user access (`test-user-access.ts`) | accounts, reservations, sessions, login attempts | create, raise, revoke, reserve, settle, release, reconcile, log in | agent service | a second database: a crash between the two commits; retried request keys |
| Project-only HTTP API (`project-only-http-api.ts`) | none | maps requests to the above | all | digests compared before an await and used after it |
| Local browser broker (`local-browser-broker.ts`) | a session per Conversation: page, target, history, page generation, control mode and epoch, recovery state; a tail of operations | open, reload, back, close, restart, reconnect; claim, release, act; takeover, return | Playwright, authority, `server.ts` | two operations act before they join the tail; every other one may find another session than the one it was asked on |
| Browser agent authority (`browser-agent-authority.ts`, `browser-agent-tools.ts`) | a grant per Turn: state, epoch, budget, approved and pending operations | prepare, await, approve, reject, execute, revoke, take over | broker, Turn runtime, MCP tools | a call awaits up to five answers, and its grant may be revoked in each; one decision pays for one execution |
| Dispatcher, recovery (`product-run-dispatcher.ts`, `product-run-recovery.ts`) | two lanes, an execution per Run, a latched failure, a generation | drain, claim, mark, cancel, stop, finalize; recover leases, processes, Runs | Store, supervisors, the operating system | dies between any two transactions while its processes live on; recovery must find all of them |
| Supervisors (`generic-batch-supervisor.ts`, `generic-visual-supervisor.ts`, `restricted-process.ts`) | workers, process groups behind launch gates, scratch directories, receipts | supervise, terminate, clean up | dispatcher or runtimes, the operating system | deadlines, aborts and exits in any order; a cleanup that fails |
| Historical Store (`product-store-v2.ts`, `product-schema.ts`) | Models, Projects, Conversations, workspaces, Experiments, Runs, attempts, leases, manifests, processes, journal, receipts, cards | hundreds of synchronous transactions behind triggers | everything | a repeated command must be answered with what it did; a token must name what was shown; triggers and statements must agree |
| Mutation coordinator, object files (`mutation-coordinator.ts`, `object-store.ts`) | object tree, staging directory, manifest, writer lock | stage, publish, commit, promote, roll back, recover | the Store, other processes of the machine | a failure or a death at any file operation, also during recovery |
| Agent workspace, sessions, journal (`agent-workspace-service.ts`, `agent-session-manager.ts`, `agent-turn-runtime.ts`) | turns, sessions, action records | run, stop, resume, retry a turn; execute a tool | OpenCode, grants, Store | the effect of a tool, its journal row and its evidence are three commits |
| Scoped grants (`agent-mcp.ts`, `workspace-bootstrap-mcp.ts`) | capabilities, budgets, allow-once commitments | grant, authorize, handle, revoke | turns, OpenCode | a retried or competing permission must not widen authority |
| OpenCode adapter (`opencode-adapter.ts`) | boundaries and rules of sessions, bindings | prompt and poll, snapshot, answer a permission | OpenCode, an external server | every read is answered at one moment and used at a later one |
| Guides (`runWorkspaceBootstrapTurn`, workspaces) | unbound workspaces, bindings, guide turns | ask, bind, create, delete | users, OpenCode | a chain of awaits beside users who move and delete what it builds on |
| Frames and visual authority (`browser-frame-capability.ts`, `browser-websocket-bridge.ts`, `agent-visual-authority.ts`, ...) | app sessions, frames, routes, sockets; grants and audit facts | mint, redeem, proxy, relay, revoke; observe, interact | visual Runs, Store | capabilities outlive what they name; the port may be another process's |
| Planning and protocol (`experiment-planner.ts`, `execution-protocol-v2.ts`, `canonical-json-v2.ts`) | none | pure functions | operations, supervisors, clients | numeric edges, bounded decoding |
| Schema migration, legacy cutover, demonstrators, `mesa_service`, `web` | their own | - | - | not modelled |

`PROJECT.json` lists all of them with their status.

## 2. The modules

| Module | Models | Kind |
|---|---|---|
| `ProjectRuns` | Project-only Store, operations, both runtimes and the lifecycle of the server, as far as Runs, locks, evidence and workspace writes go | state machine, properties |
| `ExclusiveRuns` | what those together promise about Runs | abstract specification |
| `TokenQuota` | the token ledger of `test-user-access.ts` | component |
| `ConversationTurns` | turns, sessions, capabilities and evidence of the Project-only agent service, with `TokenQuota` (EXTENDS) | state machine, properties |
| `BrowserBroker` | the local browser broker: one session and its tail | component |
| `BrowserControl` | the browser agent authority, the workbench's browser routes and the Turns, with `BrowserBroker` (EXTENDS) | state machine, properties |
| `RunSchema` | what the triggers of `product-schema.ts` permit of Runs, attempts, leases, manifests, processes | abstract specification |
| `RunStore`, `Supervision`, `BatchSupervisor`, `VisualSupervisor` | the transactions that move those rows; what both supervisors share; the one and the other | components |
| `DispatchedRuns` | dispatcher, process and recovery, with all of the above | state machine, properties |
| `RunRecords` | commands on Experiments and Runs, receipts, trash, completion cards, output streams, event cursors | state machine, properties |
| `WriterLock`, `ObjectMutations` | the writer lock of the object store; journaled mutations over it | state machine, properties |
| `AtomicObjects` | what a mutation promises | abstract specification |
| `AgentJournal`, `McpGrants` | rows of turns, sessions and actions; capabilities and approvals | components |
| `AgentTurns` | a turn of the historical workspace from its request to its end, stop, resume, retry, tool calls, with both (EXTENDS) | state machine, properties |
| `OpenCodePrompts` | one OpenCode session as the adapter drives it: prompts, polls, snapshots, an approval | state machine, properties |
| `ModelWorkspace` | files, description, checks, change sets and attachments of a Model | state machine, properties |
| `OwnedResources`, `WorkspaceBindings` | lifecycles, ownership and deletion; workspaces and their bindings | components |
| `GuidedWorkspaces` | guide turns beside the users, with both (EXTENDS) | state machine, properties |
| `VisualTargets`, `FrameCapabilities`, `VisualAgentAuthority` | visual Runs and who listens at their port; frames; the Agent's visual calls | components |
| `VisualAccess` | the three together | state machine, properties |
| `ProjectRunsProofs`, `ConversationTurnsProofs`, `BrowserControlProofs`, `ObjectMutationsProofs`, `DispatchedRunsProofs`, `AgentTurnsProofs`, `WorkspacesProofs`, `VisualAccessProofs` | - | theorems |
| `MC*` | instances | model checking |

Several state machines that never meet may be checked in one run: the MC module
EXTENDS both, and a variable `story` says whose behaviour this is. The other one stays
in a single initial state.

### ProjectRuns

Durable variables: `workspace` (the digest stands for files, run mode and
execution description), `experiment`, `status`, `frozen` (what a Run row froze at
admission), `completion`, `outputs`, `lock`, `receipt`. In memory: `stage` (how
far the attempt of `#active` has come), `abort` (the reason of its AbortSignal),
`outcome` (what the supervisor reported), `healthy`, `ready` (the promise a visual
start awaits). `backend` is the process, `intent` what a caller of a write wants,
`stops` only bounds the model.

| Action | Code |
|---|---|
| `StartBatchRun`, `StartVisualRun` | `startRunAdmission` and the synchronous prefix of the runtime's `start` and `#execute` |
| `RetryStart` | the same command again: replayed admission, the runtime joins or refuses, the caller's `failRunStart` |
| `RegisterProcess`, `RecordHealth` | the hooks the visual supervisor calls |
| `SupervisorSettles` | the supervisor's promise settles, whatever way |
| `PublishResult` | the rest of `#execute`: status, outputs, completion, lock, readiness, one transaction |
| `AttemptEnds` | the finally that removes the attempt from `#active` |
| `StartRejected` | the tool call that waited for a visual start |
| `CancelRun` | `cancel` and `stop`, with and without an attempt |
| `UpdateExperiment`, `PrepareWrite`, `SubmitWrite` | edits; a write is prepared against what its caller read and submitted at any later time, again and again |
| `Crash`, `CloseBatch`, `CloseVisual`, `CloseStore`, `Startup` | the process: a crash at any point, the order of `close`, and `reconcileInterruptedExecutions` |

`SupervisorSettles` and `PublishResult` are two actions because there is an await
between them: that is the window in which a cancel meets a result. The paths for a
Run no attempt works on (`CancelDetached`, the `failRunStart` of a retried start)
are modelled; `NoOrphanedRun` and the theorem `RetryStartChangesNothing` show that
they are never taken.

`ExclusiveRuns` says it without processes: a Project belongs to at most one open
Run and does not change meanwhile; verdict, evidence and outputs appear in one
step, agree and never change. `ProjectRuns` implements it (`KeepsPromise`) with
the active statuses drawn together to "open".

### ConversationTurns and TokenQuota

`TokenQuota` holds the accounts and one reservation per request key; each of its
operations is one transaction. `ConversationTurns` holds the turn rows, the
session columns of the conversations, and for each turn the `phase` in which
`runTurn` awaits: discovering, resuming, creating, binding, prompting, aborting,
returning (also: rejected). OpenCode is an environment that answers, fails, times
out, loses sessions and calls tools whenever it has a capability. Tool calls come
in two kinds, because the code treats them differently: `ChangeCall` (files,
Experiments, Run starts) records its action in the same stretch as its effect,
`CancelCall` awaits the end of a Run in between (`CancelAnswered`). `evidence` is
what the turn row reports in the end, `effects` what really happened.

Startup is two steps, `ReconcileTurns` in the product database and
`ReconcileQuota` in the other, with a crash possible between them and between any
two rows of the second. `RefreshProviders` is the same reconciliation in a serving
backend, which `providers()` triggers whenever discovery has to be repeated.

### BrowserBroker and BrowserControl

`session` is the `BrowserSession`, `tail` the operations `#serialized` runs one at a
time, `step` how far the first of them is, `answers` what an operation told its
asker. An operation checks the session when its turn comes (`Begin`), may wait for
the target resolver (`Resolve`) and for Playwright (`Rebuild`, `Perform`), and an
Agent's operation checks its epoch again afterwards (`Checked`). `Released` and
`Preempted` are what `releaseAgent` and `takeHuman` do before they join the tail; the
caller takes them in its own step, because there is no await in between.

| Action | Code |
|---|---|
| `Prepare`, `EndTurn`, `GrantDue`, `GrantExpires` | the life of a grant: `prepareDormant`, `revokeTurn`, its time to live and the places that notice it |
| `Call`, `Approve`, `Activated`, `Reject` | `#awaitPending`, the human's decision, and the claim that the first approval waits for |
| `Start`, `Opened`, `ClaimTaken`, `Stated`, `Acted`, `Projected` | `execute`, cut at its awaits |
| `Left`, `CallCloses` | the catch and the finally of `execute`, which revoke and wait, or project the budget |
| `Request`, `RequestClose`, `RequestCloseGoesOn`, `RequestTakeover`, `Answered` | the mutating browser routes of `server.ts` |
| `PageNavigates`, `PageLeaves`, `BrowserLost`, `SessionDue` | framenavigated, leaving the origin, Chromium's disconnect, the session's time to live |

What is particular to Node: once a promise settles, everything that hangs on settled
promises runs before the next event. `Settled` is that drain, in any order but one:
claims are taken in the order of their answers (`Claiming`, `Earliest`), because each
took its place in the queue of microtasks when its answer came. Everything else waits
for `Drained`. Without this the model would take a release and the next event in orders
the event loop cannot produce. Only `GrantDue`, the passing of time, may come in between.

`balance` and `refused` are history: decisions less executions, and whether a takeover
was refused after it had already removed the grants (below). The properties that say an
Agent's control has an owner make that exception, and only that.

### DispatchedRuns

Rows are those of `RunStore` (`status`, `cancel`, `outputs`, `attempt`, `owner`,
`generation`, and per unit `lease`, `manifest`, `process`, `healthy`, `exitOk`; `recovery`
per Run). A batch Run has a unit per sample, a visual Run one. The machine is `os` (a
process: gated, working, dying, gone), `dir` and `receipt`; the memory of the backend is
`server`, `boot`, `fatal`, and per Run and unit how far its execution and its supervision
are. `Crash` may come between any two transactions and leaves the machine as it is; `Boot`
starts a backend that goes through `Recovery` (planned, created and active leases,
recorded processes, exits, scratch, then the Run) before it dispatches
(`ActivateDispatcherGeneration`). Before that it holds every success on record against its
rows (`AuditedBatchSuccess`, `AuditedVisualSuccess`) and gives the start up if one does not
stand up; `RefusalsAreRecorded` says that this never happens. `Quiet` is the event loop: a handler runs to its next
real wait before another starts. Every step of the whole is one that `RunSchema`'s
triggers permit (`SchemaSpec`).

### RunRecords

What commands do to Experiments and Runs as the Store records them. A command has an id;
what it committed is its receipt. `ReadExperiment`, `ReadLifecycle` are what the caller
saw before (`seen`), and the command that follows is refused if it is not so any more.
`ReceiptsStandUp` says that every comparison a repetition makes (`#frozenRunStartReceipt`,
`#frozenRunCancelReceipt`, `#runLifecycleCommandReceipt`, the Experiment's receipts)
succeeds. Completion cards, the streams of outputs with their fence, and the cursors of
event pages are settled in the same steps. How a Run gets from the queue to its end is
`DispatchedRuns`' subject and here a single step.

### ObjectMutations and WriterLock

Every step is one file operation or one transaction, also of the cleanup (`CleanFile`,
`CleanDirectory`, `CleanManifest`: `rmSync` may be cut short after any file) and of the
catch of a failed preparation (`PrepareThrows`, `AbortManifest`, `AbortDirectory`). A
mutation stages the next and the prior bytes, publishes a manifest, deletes and promotes,
and commits the rows with a receipt that decides in which direction a recovery goes
(`Outcome`). Each step may fail (`Throws`, `Poison`, `AbortFails`, `OpenFails`), the process
may die, the next one recovers what it finds: the manifest of the last mutation
(`TakeUp`), those a failed preparation left behind (`left`, `RecoverLeft`, `CleanLeft`) and
directories without one (`DropUnpublished`). `CanForward` and `Restorable` are the checks
that `#rollForward` and `#rollBack` make of an object before they touch it.

The code does not keep every promise one would like here, and the properties say exactly
which. An object that is changed while a manifest left by a failed preparation names it
(`contested`) is rolled back by the next start; and a committed delete whose cleanup was cut
short may not be recoverable, although nothing is left to do for it. Both are stated as the
exceptions of `FilesMatchRows` and `AlwaysRecoverable`, and described in section 3.

`WriterLock` is the lock file with its stale-lock path. Processes start and race for it as
they like. `WriterKeepsLock` is what `acquireWriterLock` does guarantee: while no other
process is past its look at the lock, a writer that holds it stays the only one, whoever
comes and goes. That one process at a time owns the store is not true of the code (section
3). One coordinator is open at a time in `ObjectMutations`: what two would do to each other
is not modelled. `AtomicObjects` is the promise: all objects in one step, or none.

### AgentTurns, AgentJournal, McpGrants

`AgentJournal` has the rows of turns, sessions and actions with their transactions and
the reconciliation after a crash; `McpGrants` the capabilities and allow-once approvals.
`AgentTurns` follows `runTurn` by its awaits (`pc`), one tool call beside it (`call`), the
mutex of the process-global registration (`mcpTail`), and a user who stops, resumes,
retries or archives. The tool's kinds differ in how many commits it takes for an effect to
be evidence. History variables record what was executed for which approval.

### OpenCodePrompts

OpenCode's side is a `log` of messages (steps) of each prompt with their tool calls; the
adapter's side is the poll (what it read, and when), the boundary of a failed attempt that
the poll shares with the snapshots, the rules it gave, and the answer to a permission.
Each read is taken at one moment and used at a later one.

### ModelWorkspace; OwnedResources, WorkspaceBindings, GuidedWorkspaces

`ModelWorkspace` is synchronous but for the checker, which works on what a Model was when
the check began. `OwnedResources` has the lifecycles, ownership and permanent deletion
with its preview and token (every action names the rows it touches, so that a token is
good only while none of them changed); `WorkspaceBindings` the workspaces that are bound
once; `GuidedWorkspaces` the guide's turn, cut at its awaits, and its tool call, which may
be in progress after the turn has failed.

### VisualAccess

`VisualTargets` is what the Store says of the visual Runs and which process listens at
their port. `FrameCapabilities` mints, redeems and uses frames; every use awaits an
inspection (the Store has the target, the listener is its process, the Store still has
it). `VisualAgentAuthority` records the facts of each grant: its mint, its use, its end.
`VisualAccess` adds the steps of Runs that revoke both, deletion and restart.

## 3. The runs

| Run | Instance | Question |
|---|---|---|
| `project_runs` | 1 Project, 2 start commands, 1 write, 2 workspaces (one declares both kinds, the other one), 2 configurations, 1 stop, fair | do lock, Run row, attempt, evidence and frame target stay in step; is `ExclusiveRuns` implemented; does every Run end, is every start answered |
| `commands` | ProjectRuns with 3 writes, 1 Run, 1 stop; or RunRecords with an Experiment, 2 updates, a Run, 2 cancellations, 2 trashes (one an Agent's), a restoration | does each write apply once, to what its caller read, although content recurs (ABA); does every receipt stand up |
| `conversation_turns` | 2 turns, 1 user, 2 conversations, 2 sessions, 1 stop, quota for two turns, fair | ledger, evidence, capabilities, sessions; do turns and reservations end |
| `browser_calls` | 1 Turn, 2 tool calls (all tools), 1 request (open, reload, close, takeover), 2 targets, budget 1, fair | one decision per execution; does every call end |
| `browser_takeover` | 2 Turns, 1 call (open, act), 2 requests (all but reload and close), budget 2, 1 fault | who may work on the page, is human control published ready and kept, does a request end on the page it named, no success without a grant |
| `dispatched_runs` | a batch Run with one sample and a visual Run, one worker, 2 boots, fair | what a crash leaves is found; ends are true; the triggers permit every step; every Run ends |
| `agent_turns` | AgentTurns: one conversation, a turn to its end and a second up to its start, all tools, 2 boots, fair; or OpenCodePrompts: two prompts, or one with an approval | effects in scope, one approval one execution, a stop wins, turns end; is a prompt reported as it went |
| `agent_access` | AgentTurns: two conversations, three turns, whose tool is the one that runs on after its call (a technical check); or VisualAccess: a Run, a frame with a request and a socket, or a call | one registration at a time, a retry repeats nothing; what is seen is the Run's |
| `object_mutations` | 2 objects, 2 contents, 2 processes that race for the lock one of which may recover what the other left | files and rows agree, or a recovery makes them agree; is a writer left alone; is `AtomicObjects` implemented |
| `workspaces` | ModelWorkspace: 2 commands, 2 files and the description, an attachment; or GuidedWorkspaces: 2 guide turns, a workspace, a Model, a Project, 2 Conversations | what is executable was checked, changes are as reviewed; a workspace is bound once, a deletion takes what was shown |
| `unpaid_turn`, `detached_socket` | small | disagreements between code and repository, below |

Some properties gather several claims under one name, each a definition of its own:
`StoreAgrees` (TypeOK, LockMatchesRun, FrozenWhileActive, TerminalEvidence),
`AttemptsAgree` (NoOrphanedRun, LiveTargetIsRunning, AttemptsCoherent, CleanStop),
`ResultsAreFinal` (CancelWins, TerminalIsFinal), `LedgerIsTrue` (LedgerBalanced,
OnlyCompleteTurnsPay), `TurnsAgree` (EvidenceIsComplete, GrantsAreCurrent, NothingHangs),
`TurnsAreFinal` (NoLateEffects, GenerationsNameSessions), `AgentControlIsSound`
(AgentControlIsHeld, AgentPageIsItsOwn, BudgetShownIsLeft), `HumanControlIsSound`
(HumanControlIsKept, HumanControlIsReady, RequestsFinishOnTheirPage), `NothingIsLost`
(GateBeforeWork, NothingUnleased, LatchLeavesEvidence, OneOwner, RefusalsAreRecorded),
`ObjectsAreSafe` (FilesMatchRows, AlwaysRecoverable), `EndsAreTrue`
(EndedRunsAreClean, OutputsOnlyOfSuccess), `RecordsAgree` (TrashAgrees, CardAgrees,
StreamsAgree), `ReceiptsStandUp` (UpdateStands, StartStands, CancelStands, MoveStands),
`TurnsAreTrue` (JournalIsTrue, CompletedIsSettled, ApprovedOnce), `TurnsAreApart`
(RetryRepeatsNothing, OneLiveRegistration), `ActsWhileAllowed` (EffectsInScope,
StopWins), `PromptsEndAsTheyWent` (AnswersAreWhole, FailuresAreReal),
`PromptsActAsAllowed` (RulesAreOurs, ApprovalsAreAnswered, RanAsApproved).

Why these bounds are enough to be interesting: two start commands are what a lock,
a unique index and a retry need to conflict; a third Run could only queue behind
them. Two workspaces with different run modes are the least for which a change of
workspace can invalidate a Run, and three writes the least for which a content
recurs while an older write is still to come (A to B, B to A, and the late one). Two
turns are the least for which a submission is rejected while another runs; the first
submission names the first conversation (`Submissions`), since they are interchangeable.
On the browser side two calls are the least that can share a pending permission, two
requests the least for a takeover and its return; a fault is one navigation, departure,
disconnect or expiry, and each already hits every waiting operation at every step. Two
boots (`MaxBoots`) are a crash and what finds it; two processes (`MaxProcesses`), after one that died before, are the least
that race for a lock, and the second recovers whatever state the first may leave, a
recovery that was cut short included. Two cancellations are a first and one that comes second,
two trashes what a restoration comes between (`MaxTrashes`). A single worker and sample
suffice for the order of rows and processes; that units do not disturb each other needs
more of them, and so does everything else beyond these instances: the proofs do not
depend on any of these numbers.

All bounds are constants or sizes of sets: `MaxStops`, `MaxSessions`, `MaxBoots`,
`MaxTurns`, `MaxProcesses`, `MaxFaults`, `MaxPrompts`, `MaxSteps`, `MaxIoFailures`,
`MaxDownloads` (two in the code), `MaxTrashes`, `MaxDrafts`, `Handled` and `Worked` (which
resources users move and work in), `Edits`, `Interruptions`; `MaxQuota` stands for the
code's own limit of 10^9. Five constraints cut instances: `OneTurnThrough` (the second
turn gets no further than its start), `SmallPrompts` (what the poll need not see again),
`OneUser` (a call, or a request and a socket, not both), `OneLeftBehind` (failed
preparations leave manifests of one object at most), and the one on `story`.
Symmetry is used only where no liveness is checked.

The runs of Runs and Turns check for deadlock: a stopped backend can always be started.
The others do not: their commands, calls, boots or processes are used up in the end.

### What the runs found

* **An unpaid turn** (`unpaid_turn`). `reserveTurn` accepts any request key that
  has a reservation row, whatever its state. If a submission is rejected because
  another turn runs in the conversation, its reservation is released; the same key
  submitted again runs without one, and is never charged.
* **A detached socket** (`detached_socket`). When an inspection fails, `proxy` deletes
  only the frame's route. Its open WebSockets go on relaying, and no later revocation,
  which looks in `#routes`, finds them; `docs/adr/0003-websocket-forwarding-and-revocation.md:103`
  excludes a live connection detached from its capability.

Met while modelling, and kept in the model as the code has it:

* A takeover removes the Conversation's grants, without releasing Agent control, before
  the Broker may refuse it (`browser-agent-authority.ts:413`): a Stop then finds no grant
  and the action in flight completes after it. A disconnect of Chromium ends control but
  revokes no grant (`local-browser-broker.ts:937`;
  `docs/riffology-openchamber-stage-5.md:89` says a new Turn is required).
* `riff_cancel_run` records its action only after it has waited for the Run's end; if the
  turn fails first, the turn reports no effect (`project-only-agent-service.ts:982`, against
  the comment at 937).
* The Agent's tool moves a Run to the trash without `beforeCommit`
  (`agent-workspace-service.ts:437`), so active output streams stay open;
  `docs/backend-api.md:523` says that revocation comes first. A Run trashed over HTTP and
  restored by the Agent stays fenced until a restart.
* Two starters that both read the lock of a dead process may both own the store: the
  second renames the fresh lock of the first to its quarantine (`object-store.ts:563`; TLC
  refutes that `Owners` has at most one member). `docs/architecture.md:141` relies on the
  lock as the boundary between processes. A crash between creating the lock file and
  writing it leaves one that refuses every start (552).
* A crash, or an error, in the cleanup of a committed delete after its staged file is
  unlinked and before its directory is gone makes every later recovery throw "Staged delete
  bytes are missing" (`mutation-coordinator.ts:294`), so the store does not open again;
  `docs/milestone-a4-shared-product-shell-design.md:483` says that such a recovery "has no
  target or staging bytes left to infer".
* The catch of `#prepare` (`mutation-coordinator.ts:255`) may throw itself. The coordinator
  stays ready, and a manifest may stay behind whose mutation never began. The next start
  rolls it back: over a later commit to the same objects, or it fails and the store does not
  open.
* A batch Run may end with planned or created leases that nobody closes; a crash between
  the removal of an unlaunched lease's directory and the finalization makes recovery fail
  closed for good; a visual Run cancelled while its helper waits for a receipt latches a
  failure of the whole dispatcher; the wall timer does not stop a sample launched after a
  sibling failed.
* An Agent cannot start a visual Run: it always names a completion conversation, which a
  visual Run may not have. `updateExperimentConfiguration` may leave its action in
  "proposed" or "staging".
* A stop of a turn that waits for the process-global registration returns only when the
  other conversation's turn has ended. Two retries of one turn under different keys both
  run. After a failed prompt the adapter takes its rules away although OpenCode may still
  be working.
* The checker's result may find its Model gone on (`StartTechnicalCheck` captured it); an
  adoption during a check leaves the Model in "checking". The guide reports that nothing
  was written also when its tool committed. A replayed creation command never matches,
  since its intent digests `createdAt`.
* In the Project-only product the WebSocket recheck compares the peer's local port with
  the target's (`project-only-visual-runtime.ts:91`), so it never passes.

## 4. Fairness

Safety properties are checked without any. Liveness assumes:

* `ProjectRuns`: a supervision settles (`SupervisorSettles`): the supervisors enforce the
  wall-clock limits of a Run and escalate to kill; what follows a settled promise runs
  (`PublishResult`, `AttemptEnds`): the event loop is not starved; a backend that crashed
  is started again: the deployment units say `Restart=on-failure`. Nothing starts a
  backend that was stopped in order, so liveness is claimed only up to the stop.
* `ConversationTurns`: every wait on OpenCode ends: `boundedOperation` bounds the set-up
  and the prompt, the adapter's request timeout bounds abort and unbind; and the same
  restart.
* `BrowserControl`: a drain of the event loop ends (`Settled`); the target resolver
  answers and Playwright's waits end by their timeouts (`PlaywrightAnswers`); time passes
  (`GrantDue`), and a grant with a pending permission has a timer that notices.
* `DispatchedRuns`: one weak fairness for all that the event loop, the operating system
  and the service manager do (`Progress`) and for models that end by themselves (`Exits`).
* `AgentTurns`: the steps of some turn, some call, some stop, and of the startup; the
  adapter puts a deadline on every request. `FairMC` says the same of the run that has two
  stories.

Nothing is assumed about users, retries, cancels, tool calls, or new requests. Liveness of
the form "in the end nothing is open" is stated as `[]<>` with the states in which the
code itself gives up named in it (`Halted` in `DispatchedRuns`: a latched failure, a
recovery that refused, no further start).

## 5. What is proved

Every theorem holds for all values of the constants: any number of Runs, turns, commands,
calls, processes, objects, contents, stops or boots. An inductive invariant was first
checked by TLC on the instance of the run, then proved with a lemma per action.

| Module | Theorems | Argument |
|---|---|---|
| `ProjectRunsProofs` | `StoreAgreement`, `AttemptAgreement`, `FinalResults`, `WritesOnce`, `Refinement`, `RetryStartChangesNothing` | `IInv`, below |
| | `RecordsAgreeTheorem`, `ReceiptsStandUpTheorem`, `HistoryStandsTheorem` | `RecordsInv` |
| `ConversationTurnsProofs` | `TurnsAgreeTheorem`, `TurnsAreFinalTheorem` | `IInv` |
| | `LedgerIsTrueTheorem` | `LedgerInv` |
| `BrowserControlProofs` | `DecisionsCover` | `DecisionsInv` |
| | `AgentControlIsSoundTheorem`, `HumanControlIsSoundTheorem`, `ActionsNeedTheirGrantTheorem` | `IInv` |
| `DispatchedRunsProofs` | `NothingIsLostTheorem`, `EndsAreTrueTheorem`, `SchemaTheorem` | `IInv` |
| `ObjectMutationsProofs` | `ObjectsSafeTheorem`, `AtomicTheorem`, `WriterKeepsLockTheorem` | what each phase has behind it |
| `AgentTurnsProofs` | `TurnsAreTrueTheorem`, `TurnsAreApartTheorem`, `ActsWhileAllowedTheorem` | `IInv` |
| | `PromptsEndAsTheyWentTheorem`, `PromptsActAsAllowedTheorem` | `PromptsInv` |
| `WorkspacesProofs` | `StatusIsTrueTheorem`, `ChangesAreAsMadeTheorem` | `ModelInv` |
| | `WorkspacesAgreeTheorem`, `ActsOnWhatWasShownTheorem` | `ResourcesOK /\ BindingsOK /\ GuidesOK` |
| `VisualAccessProofs` | `SeenIsTheTargetTheorem`, `NothingOutlivesItsRunTheorem`, `AuditIsTrueTheorem` | `FramesOK /\ CallsOK /\ FactsOK` |

**Runs of a Project.** The invariant `IInv` is the conjunction of the checked invariants
except `LiveTargetIsRunning`, which follows from it. None of them is inductive alone. That
a held lock names an active Run (`LockMatchesRun`) is preserved by `PublishResult`
only because an attempt that settles works on an active Run (`NoOrphanedRun`); that
in turn needs `AttemptsCoherent` (what settled has an outcome, only a live backend
has attempts) and, at a restart, that every active Run still holds its lock;
`FrozenWhileActive` needs the lock for a write to be refused; `CleanStop` needs
`NoOrphanedRun` when the Store is closed; `TerminalEvidence` needs to know that a
queued Run without an attempt, whose cancel would leave no record, does not exist
while the backend is up. The action properties and the refinement follow from `IInv`
case by case. Assumed: `None` is not a Run, `RunMode` and `ConfigKind` are functions
to kinds, `MaxStops` is a natural number.

**Records.** `RecordsInv` adds to the checked invariants what a repeated command relies on:
the updates of an Experiment form a chain, each having read what the one before it wrote,
and what a command read was committed (so two can never have replaced the same revision,
although contents recur); a Run has a row exactly if its start has a receipt; the first
cancellation that took effect has a receipt; a cursor was given for a success before any
trash entry that came later. `CommandsAssumption` says that commands of different kinds and
the values of rows are different things.

**Turns of a conversation.** `IInv` says of each turn what its phase has behind it
(`Driven`): who drives a running turn, which session it prompts in, that a capability is
held only by it; that a conversation has one running turn (`OneRuns`); and that the
actions in memory cover the effects while the process that holds them is up (`Reported`),
which is what makes the evidence complete after it died. For the ledger, the sums over a user's
reservations have to be compared: `TotalIsCount` shows that the sum the model folds over
a finite set is the number of tokens it counts, so that facts about cardinalities can be
used; its uniqueness is by the least counterexample, without induction over an
operator. `LedgerInv` adds that there are finitely many rows and that a key that was not
submitted has none (`Unopened`). `NothingHangs` says that nobody waits for a turn that is not
driven; that it ends is liveness. Assumed: `MaxSessions`, `MaxStops` natural, `Tools` among
the effects, quota and estimates positive, `NoUser` not a user.

**Browser control.** For `DecisionsCover` the invariant adds only that grants are records
and balances integers: all actions but two can only take approvals from a grant, and
`StartCovers` says that the execution removes the approval in the step in which it spends the
decision, before its first await. The other three need the whole protocol in `IInv`: every
asker has at most one operation in the tail or one answer, of the kind it waits for
(`InFlight`); what was asked for before a Turn began comes before what the Turn asks for
(`OrderOK`); claims are answered one after the other, and the last one has the session until
its caller takes it (`ClaimsOK`); and what the operation at work found when it began is
still so (`WorkOK`). Turns,
calls, requests and leases are all callers in one sense: they only append operations
and take answers (`CallerStep`), so one lemma (`CallerKeeps`) serves them all, another
(`BrokerKeepsAll`) the Broker. `ActionsNeedTheirGrant` holds but for a takeover that was
refused, as the code has it (section 3).

**Dispatched Runs.** `IInv` has three parts for each unit. `RowsAgree`: what its lease, manifest
and process row say of each other, of the process group and of the directory, whoever is
there to see it; this is what survives a crash. `SupervisionAgrees`: what each state of a
supervision has behind it; a supervision exists only in a serving backend. `UnitOfRun`: a unit
with a lease belongs to an attempt that got beyond "claimed", an open process to a live one,
and a unit still at work to a Run whose `#execute` has not gone on to record the exits. That
last clause is the one the code does not say anywhere: after `supervise` rejected, other
samples of a batch Run go on while `#execute` may end the Run, and it is right only because it
does so when no process was registered and no later one can be. `RunOK` relates Run,
attempt, owner and generation with where `#execute` stands, `BackendOK` the lanes, the
latch and refused starts. `AuditsPass` says that the audits of a start find what the commit
of a success found. Every family of actions is shown to keep `IInv` and, in the same lemma, to be
`Permitted`; so the refinement of `RunSchema` needs nothing more. Assumed
(`DispatchAssumption`): batch and visual Runs differ, samples are finitely many numbers, and
there is at least one worker and one start.

**Objects.** For each phase of a mutation, what it has backed up, staged, removed and
published; one more statement that a manifest without a receipt can be undone from any point
of an undo. A directory in cleanup may hold any part of what it had; that a roll-back is
still possible then is because cleanup starts only from a receipt or from files that are
restored already (`AtCleaning`, `AtTidying`). None of the theorems assumes anything about
how many processes start or when. `WriterKeepsLockTheorem` needs only the types of the lock:
whoever reads the record of a live process gives up, and whoever finds the path taken
creates nothing.

**Agent turns.** `IInv` relates each turn's phase, its call, its action row and its
capability (`TurnAgrees`); `OneAtATime` says that what runs without an await is alone;
`TailAgrees` that the queue of registrations has no turn twice and that only its head is
past waiting, so that the capability that is live and bound is the head's. That a retry
repeats nothing needs to know for good what was true of the turn it repeats
(`RetryAgrees`): it failed, and was retryable when it did.

**OpenCode prompts.** What the poll holds is older than what OpenCode has written since, so
the invariant says what stands of a view whatever is written next (`Precedes`: a failure
stays a failure, a denied call denied), that a session seen idle has written its last word
(`IdleOK`), and that a boundary is a failed message (`BoundariesOK`). That a view has one
last failure is `GreatestIsThere`. `OneInput` follows an approval: whoever approved
it, one input is approved for the current prompt.

**Models, workspaces, guides.** That a status is true needs that a check saw the attachments
come in and not go (`CheckAgrees`). For the guides, resources are live or deleted with what
they own, bindings name what exists, and a guide in progress knows the generation it was asked
for. `WorkspacesAgreeTheorem` and `ActsOnWhatWasShownTheorem` have the hypothesis that the ids
of different kinds differ (`NamesDiffer`) and `None` is no guide; the MC module
assumes it, so TLC evaluates it.

**Visual access.** A use of a frame knows that its Run had been seen to listen; a process
whose Run is in progress keeps the port, and after it stopped someone else may have it: hence
the clause that whoever answered is the Run's process *or* that process has stopped for good.

What remains to TLC alone:

* Liveness (`RunsEnd`, `TurnsEnd`, `EveryCallEnds`, `EverythingEnds` and
  what they gather): no backend of the prover handles fairness.
* Whether the actions can be taken at all: that is what the runs show.

## 6. What is assumed, abstracted, left out

* A Node process that meets an unhandled rejection ends. `mkdtempSync` in
  `#execute` and a failing second commit in its catch lie outside any try: they
  are covered by `Crash`.
* Handlers in flight when the server closes finish while the listener is drained,
  before the runtimes are closed; so a start cannot follow `CloseBatch`.
* The check of the workspace against the frozen digest in `#execute` is part of
  `Launch`; within one stretch it cannot fail.
* Time: a deadline is a nondeterministic outcome. The 30 minutes a capability
  lives are longer than any turn, so its expiry is left out.
* Text, files, digests and ids are model values. `estimatedTurnTokens` is a
  constant function of the request key, since the texts it counts are stored.
* The rejection of a submission and the release that follows are two actions,
  although only microtasks separate them: more interleavings than the code has.
* A turn is submitted by a signed-in user with the quota feature on; without it the
  ledger is simply never called.
* In `ConversationTurns` a tool's effect is one element of a set of two kinds;
  `ProjectRuns` says what the tools do. Reading tools have no effect.
* In `BrowserBroker` there is one Conversation of one generation; a refusal has one of
  two codes, depending on whether `CONTROL_LOSS_CODES` has it; a missing session is a
  closed one; the page generation starts at 0. A page closed because its session
  expired goes in the step that notices. A request names the page generation of now
  or of one change ago.
* In `BrowserControl` "act" stands for the six tools that await Playwright and keep
  the page. A grant's scope, workspace and tool set always match: nothing here changes
  them. The commitment of an operation is the operation.
* `agentBack` shows the other page before it checks its epoch again; revoked in
  between, it leaves that page under the generation of the one before, and `agentClose`
  leaves a session that is ready without a page. The model has both. A former Turn's call
  whose budget is spent revokes its grant once more, and the release that follows is
  scope-wide: it can take Agent control from a new Turn. The model shows it; nothing says
  it must not be, so no property does.
* In `DispatchedRuns` "cleanup_unverified", heartbeat timestamps and the contents of
  diagnostic events are left out.
* In `RunRecords` "failed" stands for "timed_out" too, "active" for "archived"
  Conversations, and the command that wrote an Experiment for its `updated_at`; a command
  reads a lifecycle only where it may act on it.
* In `AgentTurns` "completed" stands for a turn that needs user input too; one action is
  journaled per turn; restoring a Conversation is not modelled, and the queue in `runTurn`
  is abstracted.
* In `OpenCodePrompts` OpenCode counts as busy from the moment it accepts a prompt; an idle
  session stays idle until the next; a request that timed out is not executed later.
  Questions, discovery and the event stream, which only wakes the poll, are left out.
* In `VisualAccess` an inspection is its three looks; connection limits, frame sizes,
  header rules and the headless browser's isolation are left out.
* Hazards without a model, beside those `PROJECT.json` lists: the replay of a Project
  creation (`project-only-http-api.ts:142`), the provider PATCH that compares before an
  await (552), a bounded operation that completes after its timeout
  (`project-only-agent-service.ts:264`), the migration chain under a crash
  (`project-only-schema.ts:401`).
* Not modelled: migration and legacy cutover, planner and protocol decoding, templates,
  the demonstrators and installers, the Mesa service, the web client (its retries are
  repeated commands). Each has its reason in `PROJECT.json`.

## 7. Plan

Done: the Project-only runtime and its abstract specification; the turns and the ledger;
the broker and browser control; the dispatcher, recovery and supervisors with the schema's
triggers; the object mutations; Agent turns, grants and OpenCode; Models, workspaces and
guides; frames and visual calls; the records of the Store; and the theorems of section 5.

To come, in this order:

1. The planner and the cursor encoding as operators, checked against a reference
   definition.
2. The migration chain under a crash at each of its statements; Project creation and
   provider binding of the Project-only API.
3. Newer generations of a Conversation in `BrowserBroker`, several samples and workers
   in one run of `DispatchedRuns`.
