---------------------------- MODULE DispatchedRuns ----------------------------
(***************************************************************************)
(* The Runs of the historical product: one dispatcher with a batch and a   *)
(* visual lane (product-run-dispatcher.ts), the two supervisors            *)
(* (BatchSupervisor, VisualSupervisor), the rows they commit (RunStore) and *)
(* the recovery of what an earlier process left behind                     *)
(* (product-run-recovery.ts).                                              *)
(***************************************************************************)
EXTENDS BatchSupervisor, VisualSupervisor

CONSTANT MaxBoots      \* bound: starts of the backend

ASSUME DispatchAssumption ==
  /\ BatchRuns \cap VisualRuns = {}
  /\ Samples \subseteq Nat /\ IsFiniteSet(Samples)
  /\ Workers \in Nat \ {0} /\ MaxBoots \in Nat \ {0}

Lane(r) == IF r \in BatchRuns THEN BatchRuns ELSE VisualRuns
-----------------------------------------------------------------------------
(* The initial state: an empty product, its first backend not started yet. *)

Init ==
  /\ SchemaInit
  /\ os = [u \in Units |-> "none"]
  /\ dir = [u \in Units |-> FALSE] /\ receipt = [u \in Units |-> FALSE]
  /\ server = "down" /\ boot = 0 /\ fatal = FALSE
  /\ exec = [r \in Runs |-> "idle"] /\ aborted = [r \in Runs |-> FALSE]
  /\ failure = [r \in Runs |-> "none"] /\ rejected = [r \in Runs |-> FALSE]
  /\ sup = [u \in Units |-> "idle"]
-----------------------------------------------------------------------------
(* Commands of users. *)

CreateFrozenRun(r) ==
  /\ status[r] = "absent" /\ server = "up" /\ Quiet /\ InsertRun(r)
  /\ UNCHANGED <<machine, backend, perRun, sup>>

\* requestCancellation follows the committed cancellation at once.
CancelRun(r) ==
  /\ ~cancel[r] /\ server = "up" /\ Quiet /\ RequestCancel(r)
  /\ Abort({r})
  /\ UNCHANGED <<backend, exec, sup>>
-----------------------------------------------------------------------------
(* The two lanes. *)

LaneIdle(r) == \A x \in Lane(r) : exec[x] = "idle"
Draining == server = "up" /\ ~fatal

\* Either lane ends the cancelled queued Runs of both kinds first.
FinalizeCancelledQueued(r) ==
  /\ r \in CancelledQueue
  /\ \/ Draining /\ Quiet /\ \E x \in Runs : LaneIdle(x)
     \/ server = "recovering"
  /\ EndCancelledQueued(r)
  /\ UNCHANGED <<machine, backend, perRun, sup>>

Claimed(r) ==
  /\ Draining /\ LaneIdle(r) /\ CancelledQueue = {} /\ Quiet
  /\ ExecGoes(r, "claimed") /\ UNCHANGED <<machine, backend, sup>>

DrainBatch(r) == ClaimNextQueuedBatchRun(r, boot) /\ Claimed(r)
DrainVisual(r) == ClaimNextQueuedVisualRun(r, boot) /\ Claimed(r)

MarkStarting(r) ==
  /\ exec[r] = "claimed" /\ MarkRunAttemptStarting(r) /\ ExecGoes(r, "starting")
  /\ UNCHANGED <<machine, backend, sup>>

MarkRunning(r) ==
  /\ exec[r] = "starting" /\ MarkRunAttemptRunning(r) /\ ExecGoes(r, "supervising")
  /\ UNCHANGED <<machine, backend, sup>>

\* projectExecutionCapability finds the Project's tree changed.
CapabilityFails(r) ==
  /\ exec[r] = "starting" /\ ExecGoes(r, "rejected")
  /\ UNCHANGED <<rowVars, machine, backend, sup>>

\* The lease heartbeat cannot be written: the supervisor is aborted, and whatever it
\* answers, the Run fails.
HeartbeatFails(r) ==
  /\ exec[r] = "supervising" /\ Quiet
  /\ aborted' = [aborted EXCEPT ![r] = TRUE]
  /\ FailAndStop(r, "failed") /\ UNCHANGED sup
-----------------------------------------------------------------------------
(* A failure that cannot be unwound. *)

Unproved(r) == BatchUnproved(r) \/ VisualUnproved(r)

\* #latchFatal: the unwind cannot prove that everything is gone.  Nothing is
\* dispatched any more, the other lane is aborted, the rows stay for recovery.
LatchFatal(r) ==
  /\ Unproved(r)
  /\ fatal' = TRUE
  /\ Abort(Runs)
  /\ exec' = [exec EXCEPT ![r] = "idle"]
  /\ UNCHANGED <<rowVars, server, boot, sup>>
-----------------------------------------------------------------------------
(* Stop, crash, start. *)

ForgetMemory ==
  /\ exec' = [r \in Runs |-> "idle"] /\ aborted' = [r \in Runs |-> FALSE]
  /\ failure' = [r \in Runs |-> "none"] /\ rejected' = [r \in Runs |-> FALSE]
  /\ sup' = [u \in Units |-> "idle"]

StopDispatcher ==
  /\ server = "up" /\ Quiet
  /\ server' = "stopping"
  /\ Abort(Runs)
  /\ UNCHANGED <<rowVars, boot, fatal, exec, sup>>

\* stop() returns once both lanes are done; the process ends.
ProcessEnds ==
  /\ server = "stopping" /\ Quiet /\ \A r \in Runs : exec[r] = "idle"
  /\ server' = "down"
  /\ ForgetMemory
  /\ UNCHANGED <<rowVars, machine, boot, fatal>>

\* The machine kills the backend, or an operator restarts one that is stuck.
Crash ==
  /\ server # "down" /\ boot < MaxBoots
  /\ server' = "down"
  /\ ForgetMemory
  /\ UNCHANGED <<rowVars, machine, boot, fatal>>

\* Before a prior process is looked at, every success on record is held against its
\* rows; one that does not stand up gives the start up.
AuditedBatchSuccess(r) ==
  r \in BatchRuns /\ status[r] = "succeeded" =>
    attempt[r] = "succeeded" /\ outputs[r] /\ BatchEvidence(r)

AuditedVisualSuccess(r) ==
  r \in VisualRuns /\ status[r] = "succeeded" =>
    /\ attempt[r] = "succeeded" /\ outputs[r] /\ VisualEvidence(r)
    /\ \A u \in UnitsOf(r) : manifest[u] = "cleanup_complete" /\ lease[u] = "cleanup_complete"

Boot ==
  /\ server = "down" /\ boot < MaxBoots
  /\ boot' = boot + 1 /\ fatal' = FALSE
  /\ server' = IF \A r \in Runs : AuditedBatchSuccess(r) /\ AuditedVisualSuccess(r)
                 THEN "recovering" ELSE "recovery_only"
  /\ UNCHANGED <<rowVars, machine, perRun, sup>>
-----------------------------------------------------------------------------
(* Recovery, before the new generation is activated and before anybody can     *)
(* send a command: one prior attempt after the other.                          *)

BeginRunRecovery(r) ==
  /\ server = "recovering" /\ CancelledQueue = {} /\ \A x \in Runs : exec[x] = "idle"
  /\ BeginRecovery(r)
  /\ ExecGoes(r, "recovering") /\ UNCHANGED <<machine, backend, sup>>

Recovering(u) == server = "recovering" /\ exec[UnitRun(u)] = "recovering"
PendingLaunches(r) == {u \in UnitsOf(r) : process[u] = "none" /\ lease[u] \in {"planned", "created"}}
ReceiptReadable(u) == dir[u] /\ receipt[u]

\* The directory of a planned lease must not exist; a created one must have its
\* receipt, or a spawn cannot be excluded.
InDoubt(u) ==
  /\ process[u] = "none"
  /\ \/ lease[u] = "planned" /\ dir[u]
     \/ lease[u] = "created" /\ ~ReceiptReadable(u)

RecoverPlannedLease(u) ==
  /\ Recovering(u) /\ lease[u] = "planned" /\ ~InDoubt(u)
  /\ FinalizeUnlaunchedScratchLease(u)
  /\ UNCHANGED <<machine, backend, perRun, sup>>

RecoverCreatedLease(u) ==
  /\ Recovering(u) /\ ~InDoubt(u) /\ AdoptRecoveredLaunchReceipt(u)
  /\ UNCHANGED <<machine, backend, perRun, sup>>

ExitOf(u) == RecordBatchProcessExit(u, FALSE) \/ RecordVisualProcessExit(u, FALSE)

TerminateRecordedProcess(u) ==
  /\ Recovering(u) /\ PendingLaunches(UnitRun(u)) = {}
  /\ process[u] \in OpenProcess /\ os[u] \in {"gated", "working"}
  /\ os' = [os EXCEPT ![u] = "dying"]
  /\ UNCHANGED <<rowVars, dir, receipt, backend, perRun, sup>>

RecoverExitUnseen(u) ==
  /\ Recovering(u) /\ PendingLaunches(UnitRun(u)) = {} /\ ExitOf(u)
  /\ UNCHANGED <<machine, backend, perRun, sup>>

RecoverExit(u) ==
  /\ Recovering(u) /\ PendingLaunches(UnitRun(u)) = {}
  /\ os[u] \in Gone /\ ExitOf(u)
  /\ UNCHANGED <<machine, backend, perRun, sup>>

CleanupDurableScratch(u) ==
  /\ Recovering(u) /\ process[u] = "exited" /\ dir[u]
  /\ dir' = [dir EXCEPT ![u] = FALSE]
  /\ receipt' = [receipt EXCEPT ![u] = FALSE]
  /\ UNCHANGED <<rowVars, os, backend, perRun, sup>>

RecoverCleanup(u) ==
  /\ Recovering(u) /\ ~dir[u]
  /\ FinalizeBatchProcessCleanup(u) \/ FinalizeVisualProcessCleanup(u)
  /\ UNCHANGED <<machine, backend, perRun, sup>>

CompleteRecoveredRun(r) ==
  /\ server = "recovering" /\ exec[r] = "recovering" /\ CompleteRecovered(r)
  /\ Unwound(r)

\* The start is given up; the backend serves nothing but its recovery status.
FailRunRecovery(r) ==
  /\ server = "recovering" /\ exec[r] = "recovering"
  /\ \E u \in UnitsOf(r) : InDoubt(u)
  /\ FailRecovery(r)
  /\ server' = "recovery_only"
  /\ ExecGoes(r, "idle") /\ UNCHANGED <<machine, boot, fatal, sup>>

ActivateDispatcherGeneration ==
  /\ server = "recovering" /\ CancelledQueue = {} /\ \A r \in Runs : exec[r] = "idle"
  /\ ActivateGeneration(boot)
  /\ server' = "up"
  /\ UNCHANGED <<machine, boot, fatal, perRun, sup>>
-----------------------------------------------------------------------------
(* Processes. *)

WriteReceipt(u) ==
  /\ os[u] = "gated" /\ ~receipt[u]
  /\ receipt' = [receipt EXCEPT ![u] = TRUE]
  /\ UNCHANGED <<rowVars, os, dir, backend, perRun, sup>>

OsStep(u, from, to) ==
  /\ os[u] \in from
  /\ os' = [os EXCEPT ![u] = to]
  /\ UNCHANGED <<rowVars, dir, receipt, backend, perRun, sup>>

\* The gate closes because the supervisor gave up, or died.
GateCloses(u) == sup[u] \in {"idle", "closing"} /\ OsStep(u, {"gated"}, "ended")
ProcessExits(u) == \E to \in Gone : OsStep(u, {"working"}, to)
GroupDies(u) == OsStep(u, {"dying"}, "ended")
-----------------------------------------------------------------------------
Commands == StopDispatcher \/ \E r \in Runs : CreateFrozenRun(r) \/ CancelRun(r)

\* What can go wrong on its own: deadlines, I/O, validation.
Mishaps ==
  \/ \E u \in BatchUnits : BatchMishaps(u)
  \/ \E u \in VisualUnits : VisualMishaps(u)
  \/ \E r \in Runs : CapabilityFails(r) \/ HeartbeatFails(r)

Dispatch ==
  \/ \E r \in Runs :
       \/ FinalizeCancelledQueued(r) \/ DrainBatch(r) \/ DrainVisual(r) \/ MarkStarting(r)
       \/ MarkRunning(r) \/ LatchFatal(r)
  \/ ProcessEnds

Handlers == Dispatch \/ BatchHandlers \/ VisualHandlers

Recovery ==
  \/ \E r \in Runs : BeginRunRecovery(r) \/ CompleteRecoveredRun(r) \/ FailRunRecovery(r)
  \/ \E u \in Units :
       \/ RecoverPlannedLease(u) \/ RecoverCreatedLease(u)
       \/ TerminateRecordedProcess(u) \/ RecoverExit(u) \/ CleanupDurableScratch(u)
       \/ RecoverCleanup(u)
  \/ ActivateDispatcherGeneration

Kills == \E u \in Units : WriteReceipt(u) \/ GateCloses(u) \/ GroupDies(u)
Exits == \E u \in Units : ProcessExits(u)

Next == Commands \/ Mishaps \/ Handlers \/ Recovery \/ Kills \/ Exits \/ Crash \/ Boot

Spec == Init /\ [][Next]_vars

\* The event loop goes on, the operating system delivers signals, and a service
\* manager starts a backend that is down; models end by themselves.
Progress == Handlers \/ Recovery \/ Kills \/ Boot
FairSpec == Spec /\ WF_vars(Progress \/ Exits)
-----------------------------------------------------------------------------
(* Properties. *)

SupState == {"idle", "gated", "closing", "draining"} \cup InCall \cup Active \cup Ended

TypeOK ==
  /\ status \in [Runs -> {"absent", "queued", "running"} \cup Terminal]
  /\ cancel \in [Runs -> BOOLEAN] /\ outputs \in [Runs -> BOOLEAN]
  /\ attempt \in [Runs -> {"none", "interrupted"} \cup LiveAttempt \cup Terminal]
  /\ owner \in [Runs -> 0..MaxBoots] /\ generation \in 0..MaxBoots
  /\ lease \in [Units -> {"none", "planned", "created", "active", "cleanup_complete"}]
  /\ manifest \in [Units -> {"none", "planned", "registered", "released", "exited",
                             "cleanup_complete"}]
  /\ process \in [Units -> {"none", "exited", "cleanup_complete"} \cup OpenProcess]
  /\ healthy \in [Units -> BOOLEAN] /\ exitOk \in [Units -> BOOLEAN]
  /\ recovery \in [Runs -> {"none", "started", "failed", "completed"}]
  /\ os \in [Units -> {"none", "gated", "working", "dying"} \cup Gone]
  /\ dir \in [Units -> BOOLEAN] /\ receipt \in [Units -> BOOLEAN]
  /\ server \in {"down", "recovering", "recovery_only", "up", "stopping"}
  /\ boot \in 0..MaxBoots /\ fatal \in BOOLEAN
  /\ exec \in [Runs -> {"idle", "claimed", "starting", "supervising", "rejected", "exits",
                        "cleanup", "recovering"}]
  /\ aborted \in [Runs -> BOOLEAN] /\ rejected \in [Runs -> BOOLEAN]
  /\ failure \in [Runs -> {"none", "failed", "timed_out"}]
  /\ sup \in [Units -> SupState]

\* A model computes only while its process row says that its gate was opened, its
\* scratch lease is active and its Run has a live attempt (registerProcess, gate
\* release and start are committed in that order): whatever dies, recovery finds it.
GateBeforeWork ==
  \A u \in Units : os[u] \in {"working", "dying"} =>
    /\ process[u] \in OpenProcess /\ lease[u] = "active"
    /\ attempt[UnitRun(u)] \in LiveAttempt /\ status[UnitRun(u)] = "running"

\* A helper that waits at its gate, or a scratch directory, always has a lease row
\* that is not closed yet (the lease is planned before mkdir and closed after rm).
NothingUnleased ==
  \A u \in Units : os[u] = "gated" \/ dir[u] =>
    lease[u] \in {"planned", "created", "active"}

\* A Run ends only when every process it registered is gone and clean; a visual
\* Run also leaves no open lease.
EndedRunsAreClean ==
  \A r \in Runs : status[r] \in Terminal =>
    \A u \in UnitsOf(r) :
      /\ os[u] \notin {"working", "dying"} /\ process[u] \in {"none", "cleanup_complete"}
      /\ r \in VisualRuns => lease[u] \in {"none", "cleanup_complete"} /\ ~dir[u]

\* A Run publishes outputs exactly if it succeeded, and it succeeds only if nobody
\* cancelled it and every unit's process exited with 0 (a visual one after it was
\* healthy).
OutputsOnlyOfSuccess ==
  \A r \in Runs :
    /\ outputs[r] = (status[r] = "succeeded")
    /\ outputs[r] => /\ ~cancel[r]
                     /\ \A u \in UnitsOf(r) : exitOk[u] /\ (r \in VisualRuns => healthy[u])

\* While the backend dispatches, every live attempt is its own, and each lane has
\* at most one, executing or left behind by a latched failure.
OneOwner ==
  server \in {"up", "stopping"} =>
    /\ generation = boot
    /\ \A r \in Runs : attempt[r] \in LiveAttempt =>
         /\ owner[r] = boot
         /\ exec[r] # "idle" \/ fatal
         /\ \A x \in Lane(r) : attempt[x] \in LiveAttempt => x = r

\* A latched failure leaves a live attempt behind, so the next start recovers it
\* before anything is dispatched again.
LatchLeavesEvidence ==
  fatal /\ server \in {"up", "stopping"} =>
    \E r \in Runs : attempt[r] \in LiveAttempt /\ exec[r] = "idle"

\* A start is given up only over a Run whose recovery is recorded as failed, never over
\* a success the Store let through: the audits of a start find in the rows of such a
\* Run what its commit found there.
RefusalsAreRecorded ==
  server = "recovery_only" => \E r \in Runs : recovery[r] = "failed"

\* Whatever dies between two transactions, a recovery can find it: no computation
\* and no scratch directory without its rows, a live attempt of every failure that
\* was latched, and one owner of every live attempt; a start that is refused says why.
NothingIsLost ==
  /\ TypeOK /\ GateBeforeWork /\ NothingUnleased /\ LatchLeavesEvidence /\ OneOwner
  /\ RefusalsAreRecorded

\* A Run that ended left nothing behind but what its status says.
EndsAreTrue == EndedRunsAreClean /\ OutputsOnlyOfSuccess

\* Every Run that was accepted ends, unless the dispatcher latched a failure,
\* recovery refused to start it, or somebody stopped the backend for good.
Halted == fatal \/ server = "recovery_only" \/ (server = "down" /\ boot = MaxBoots)
RunsEnd == []<>(Halted \/ \A r \in Runs : status[r] \notin {"queued", "running"})
=============================================================================
