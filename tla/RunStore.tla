------------------------------- MODULE RunStore -------------------------------
(***************************************************************************)
(* The durable side of the dispatched Runs: the statements of              *)
(* product-store-v2.ts that move a Run, its attempt and the scratch lease, *)
(* launch manifest and process rows of its units.  Each operation is one   *)
(* transaction; its guard is what the transaction compares before it       *)
(* commits, so an operation that is not enabled throws.                    *)
(***************************************************************************)
EXTENDS Integers, FiniteSets

CONSTANTS
  BatchRuns,    \* Runs of the batch lane
  VisualRuns,   \* Runs of the visual lane: one unit each
  Samples       \* samples of a batch Run, a set of numbers

Runs == BatchRuns \cup VisualRuns
BatchUnits == BatchRuns \X Samples
VisualUnits == VisualRuns \X {0}
Units == BatchUnits \cup VisualUnits
UnitRun(u) == u[1]

VARIABLES
  status, cancel, outputs,     \* the Run row
  attempt, owner, generation,  \* its attempt; the activated dispatcher generation
  lease, manifest, process,    \* rows of a unit
  healthy, exitOk,             \* health receipt and exit code 0 of a process row
  recovery                     \* the Run's recovery action

runRow == <<status, cancel, outputs>>
attemptRow == <<attempt, owner, generation>>
unitRows == <<lease, manifest, process>>
evidence == <<healthy, exitOk>>
rowVars == <<runRow, attemptRow, unitRows, evidence, recovery>>

INSTANCE RunSchema

\* #assertCurrentDispatcherGeneration with the compare-and-set on the attempt.
Fenced(r) == owner[r] = generation

OpenProcess == {"blocked", "released", "running"}
LeaseClean(u) == lease[u] \in {"none", "cleanup_complete"}
ExitedIsClean(u) == process[u] \in {"none", "exited", "cleanup_complete"}
ProcessClean(u) == process[u] \in {"none", "cleanup_complete"}
Registered(r) == {u \in UnitsOf(r) : process[u] # "none"}
CancelledQueue == {r \in Runs : status[r] = "queued" /\ cancel[r]}

-----------------------------------------------------------------------------
(* Runs and attempts. *)

InsertRun(r) ==
  /\ status[r] = "absent"
  /\ status' = [status EXCEPT ![r] = "queued"]
  /\ UNCHANGED <<cancel, outputs, attemptRow, unitRows, evidence, recovery>>

RequestCancel(r) ==
  /\ status[r] \in {"queued", "running"} /\ ~cancel[r]
  /\ cancel' = [cancel EXCEPT ![r] = TRUE]
  /\ UNCHANGED <<status, outputs, attemptRow, unitRows, evidence, recovery>>

EndCancelledQueued(r) ==
  /\ r \in CancelledQueue /\ attempt[r] \notin LiveAttempt
  /\ status' = [status EXCEPT ![r] = "cancelled"]
  /\ UNCHANGED <<cancel, outputs, attemptRow, unitRows, evidence, recovery>>

ClaimRun(r, gen) ==
  /\ generation = gen
  /\ status[r] = "queued" /\ ~cancel[r] /\ attempt[r] \notin LiveAttempt
  /\ status' = [status EXCEPT ![r] = "running"]
  /\ attempt' = [attempt EXCEPT ![r] = "claimed"]
  /\ owner' = [owner EXCEPT ![r] = gen]
  /\ UNCHANGED <<cancel, outputs, generation, unitRows, evidence, recovery>>

ClaimNextQueuedBatchRun(r, gen) == r \in BatchRuns /\ ClaimRun(r, gen)
ClaimNextQueuedVisualRun(r, gen) == r \in VisualRuns /\ ClaimRun(r, gen)

TransitionAttempt(r, from, to) ==
  /\ Fenced(r) /\ attempt[r] = from
  /\ attempt' = [attempt EXCEPT ![r] = to]
  /\ UNCHANGED <<runRow, owner, generation, unitRows, evidence, recovery>>

MarkRunAttemptStarting(r) == TransitionAttempt(r, "claimed", "starting")
MarkRunAttemptRunning(r) == TransitionAttempt(r, "starting", "running")

\* Every way to end a Run that was claimed.
EndRun(r, runStatus, attemptState) ==
  /\ Fenced(r) /\ status[r] = "running" /\ attempt[r] \in LiveAttempt
  /\ status' = [status EXCEPT ![r] = runStatus]
  /\ attempt' = [attempt EXCEPT ![r] = attemptState]
  /\ UNCHANGED <<cancel, owner, generation, unitRows, evidence>>

ReportedAnyway(r, otherwise) == otherwise
\* A committed cancellation wins against every other end.
CancelWonOr(r, otherwise) == IF cancel[r] THEN "cancelled" ELSE otherwise

\* A batch Run ends when its processes are clean; its leases are not looked at.
FinalizeBatchRunTerminal(r, reported) ==
  /\ r \in BatchRuns /\ \A u \in UnitsOf(r) : ProcessClean(u)
  /\ EndRun(r, CancelWonOr(r, reported), CancelWonOr(r, reported))
  /\ UNCHANGED <<outputs, recovery>>

FinalizeVisualRunTerminal(r, reported) ==
  /\ r \in VisualRuns /\ \A u \in UnitsOf(r) : ProcessClean(u) /\ LeaseClean(u)
  /\ EndRun(r, CancelWonOr(r, reported), CancelWonOr(r, reported))
  /\ UNCHANGED <<outputs, recovery>>

\* Outputs, attempt and Run in one transaction, against the complete evidence.
CommitSuccess(r) ==
  /\ ~cancel[r] /\ attempt[r] = "running"
  /\ EndRun(r, "succeeded", "succeeded")
  /\ outputs' = [outputs EXCEPT ![r] = TRUE]
  /\ UNCHANGED recovery

\* One process per frozen sample, each gone, clean and exited with 0.
BatchEvidence(r) == \A u \in UnitsOf(r) : process[u] = "cleanup_complete" /\ exitOk[u]
VisualEvidence(r) ==
  \A u \in UnitsOf(r) : process[u] = "cleanup_complete" /\ exitOk[u] /\ healthy[u]

CommitBatchRunSuccess(r) == r \in BatchRuns /\ BatchEvidence(r) /\ CommitSuccess(r)
CommitVisualRunSuccess(r) == r \in VisualRuns /\ VisualEvidence(r) /\ CommitSuccess(r)
-----------------------------------------------------------------------------
(* Units: lease, manifest and process.  The store has each of these operations  *)
(* twice, for a batch sample and for the one unit of a visual Run.              *)

\* The lease and the manifest are planned before anything exists on disk.
PrepareLaunch(u) ==
  LET r == UnitRun(u) IN
  /\ Fenced(r) /\ attempt[r] \in {"starting", "running"}
  /\ lease[u] = "none"
  /\ lease' = [lease EXCEPT ![u] = "planned"]
  /\ manifest' = [manifest EXCEPT ![u] = "planned"]
  /\ UNCHANGED <<runRow, attemptRow, process, evidence, recovery>>

PrepareBatchProcessLaunch(u) == u \in BatchUnits /\ PrepareLaunch(u)
PrepareVisualProcessLaunch(u) == u \in VisualUnits /\ PrepareLaunch(u)

\* The attempt's state is not looked at.
RegisterDirectory(u) ==
  /\ Fenced(UnitRun(u)) /\ lease[u] = "planned"
  /\ lease' = [lease EXCEPT ![u] = "created"]
  /\ UNCHANGED <<runRow, attemptRow, manifest, process, evidence, recovery>>

RegisterBatchScratchDirectory(u) == u \in BatchUnits /\ RegisterDirectory(u)
RegisterVisualScratchDirectory(u) == u \in VisualUnits /\ RegisterDirectory(u)

\* Lease, manifest and process row are bound to one launch receipt.
BindReceipt(u) ==
  /\ lease[u] = "created" /\ manifest[u] = "planned" /\ process[u] = "none"
  /\ process' = [process EXCEPT ![u] = "blocked"]
  /\ lease' = [lease EXCEPT ![u] = "active"]
  /\ manifest' = [manifest EXCEPT ![u] = "registered"]
  /\ UNCHANGED <<runRow, attemptRow, evidence, recovery>>

RegisterAttempt(u) ==
  /\ Fenced(UnitRun(u)) /\ attempt[UnitRun(u)] \in {"starting", "running"}
  /\ BindReceipt(u)

RegisterBatchProcessAttempt(u) == u \in BatchUnits /\ RegisterAttempt(u)
RegisterVisualProcessAttempt(u) == u \in VisualUnits /\ RegisterAttempt(u)

\* Recovery registers the process of a receipt that its owner did not live to register.
AdoptRecoveredLaunchReceipt(u) ==
  /\ Fenced(UnitRun(u)) /\ attempt[UnitRun(u)] \in LiveAttempt
  /\ BindReceipt(u)

\* Every later move compares the exact process, its state and the generation.
MoveProcess(u, from, to) ==
  /\ Fenced(UnitRun(u)) /\ process[u] \in from
  /\ process' = [process EXCEPT ![u] = to]
  /\ UNCHANGED <<runRow, attemptRow, healthy, recovery>>

TransitionBatchProcess(u, from, to) == u \in BatchUnits /\ MoveProcess(u, from, to)
TransitionVisualProcess(u, from, to) == u \in VisualUnits /\ MoveProcess(u, from, to)

ReleaseManifest(u) ==
  /\ manifest[u] = "registered"
  /\ manifest' = [manifest EXCEPT ![u] = "released"]
  /\ UNCHANGED <<lease, exitOk>>

MarkBatchProcessGateReleased(u) ==
  TransitionBatchProcess(u, {"blocked"}, "released") /\ ReleaseManifest(u)
MarkVisualProcessGateReleased(u) ==
  TransitionVisualProcess(u, {"blocked"}, "released") /\ ReleaseManifest(u)

MarkBatchProcessStarted(u) ==
  TransitionBatchProcess(u, {"released"}, "running") /\ UNCHANGED <<lease, manifest, exitOk>>
MarkVisualProcessStarted(u) ==
  TransitionVisualProcess(u, {"released"}, "running") /\ UNCHANGED <<lease, manifest, exitOk>>

\* The one health receipt: of a running process of a running Run nobody cancelled.
RecordVisualProcessHealth(u) ==
  LET r == UnitRun(u) IN
  /\ u \in VisualUnits /\ Fenced(r) /\ process[u] = "running" /\ ~healthy[u]
  /\ status[r] = "running" /\ attempt[r] = "running" /\ ~cancel[r]
  /\ healthy' = [healthy EXCEPT ![u] = TRUE]
  /\ UNCHANGED <<runRow, attemptRow, unitRows, exitOk, recovery>>

\* The exit of a registered process, with code 0 (ok) or not.
ExitManifest(u, ok) ==
  /\ manifest' = [manifest EXCEPT ![u] = "exited"]
  /\ exitOk' = [exitOk EXCEPT ![u] = ok]
  /\ UNCHANGED lease

RecordBatchProcessExit(u, ok) ==
  TransitionBatchProcess(u, OpenProcess, "exited") /\ ExitManifest(u, ok)
RecordVisualProcessExit(u, ok) ==
  TransitionVisualProcess(u, OpenProcess, "exited") /\ ExitManifest(u, ok)

CleanManifest(u) ==
  /\ lease' = [lease EXCEPT ![u] = "cleanup_complete"]
  /\ manifest' = [manifest EXCEPT ![u] = "cleanup_complete"]
  /\ UNCHANGED exitOk

FinalizeBatchProcessCleanup(u) ==
  TransitionBatchProcess(u, {"exited"}, "cleanup_complete") /\ CleanManifest(u)
FinalizeVisualProcessCleanup(u) ==
  TransitionVisualProcess(u, {"exited"}, "cleanup_complete") /\ CleanManifest(u)

CloseLease(u) ==
  /\ process[u] = "none"
  /\ lease' = [lease EXCEPT ![u] = "cleanup_complete"]
  /\ UNCHANGED <<runRow, attemptRow, manifest, process, evidence, recovery>>

FinalizeUnlaunchedScratchLease(u) == lease[u] \in {"planned", "created"} /\ CloseLease(u)

FinalizeUnlaunchedVisualScratchLease(u) ==
  /\ u \in VisualUnits /\ Fenced(UnitRun(u)) /\ manifest[u] = "planned"
  /\ FinalizeUnlaunchedScratchLease(u)
-----------------------------------------------------------------------------
(* Recovery and the next generation. *)

\* A started action is adopted, a failed one is repeated for the new generation.
BeginRecovery(r) ==
  /\ attempt[r] \in LiveAttempt /\ recovery[r] # "completed"
  /\ recovery' = [recovery EXCEPT ![r] = "started"]
  /\ UNCHANGED <<runRow, attemptRow, unitRows, evidence>>

FailRecovery(r) ==
  /\ recovery[r] = "started"
  /\ recovery' = [recovery EXCEPT ![r] = "failed"]
  /\ UNCHANGED <<runRow, attemptRow, unitRows, evidence>>

CompleteRecovered(r) ==
  /\ recovery[r] = "started"
  /\ \A u \in UnitsOf(r) : ProcessClean(u) /\ LeaseClean(u)
  /\ EndRun(r, CancelWonOr(r, "failed"), CancelWonOr(r, "interrupted"))
  /\ recovery' = [recovery EXCEPT ![r] = "completed"]
  /\ UNCHANGED outputs

NobodyLive ==
  /\ \A r \in Runs : attempt[r] \notin LiveAttempt
  /\ \A u \in Units : ProcessClean(u)

ActivateGeneration(gen) ==
  /\ NobodyLive
  /\ generation' = gen
  /\ UNCHANGED <<runRow, attempt, owner, unitRows, evidence, recovery>>
=============================================================================
