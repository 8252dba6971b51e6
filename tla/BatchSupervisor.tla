---------------------------- MODULE BatchSupervisor ----------------------------
(***************************************************************************)
(* GenericBatchSupervisor.supervise and cleanup: a pool of workers that    *)
(* take the frozen samples one after the other, each in a scratch          *)
(* directory and a process group of its own, behind a launch gate; and the *)
(* part of the dispatcher's #execute that records what it answers.         *)
(***************************************************************************)
EXTENDS Supervision

NextSample(r) == CHOOSE u \in Idle(r) : \A x \in Idle(r) : u[2] <= x[2]

\* planScratch: the lease and the manifest are planned before anything exists.
PlanSample(r) ==
  /\ WorkerFree(r)
  /\ LET u == NextSample(r) IN
     PrepareBatchProcessLaunch(u) /\ Commits(u, "idle", "planned")

\* Every worker takes its first sample before any of them goes on.
MakeSampleScratch(u) ==
  /\ Launches(u, "planned", "made") /\ ~WorkerFree(UnitRun(u))
  /\ MakeDirectory(u)

\* mkdir fails: runSample throws before its try, so supervise rejects without a
\* failure, while the other workers go on; #execute aborts a signal nobody hears.
SampleScratchFails(u) ==
  LET r == UnitRun(u) IN
  /\ Goes(u, "planned", "failed") /\ ~WorkerFree(r)
  /\ rejected' = [rejected EXCEPT ![r] = TRUE]
  /\ aborted' = [aborted EXCEPT ![r] = TRUE]
  /\ os' = KillActive({r}, os)
  /\ exec' = [exec EXCEPT ![r] = IF @ = "supervising" THEN "rejected" ELSE @]
  /\ UNCHANGED <<rowVars, dir, receipt, backend, failure>>

RegisterSampleScratch(u) == Commits(u, "made", "listed") /\ RegisterBatchScratchDirectory(u)

\* The helper is spawned; it will run the model only once its gate is opened.
SpawnSample(u) == Launches(u, "listed", "gated") /\ GroupBecomes(u, "gated")

\* The copy of the Project fails, or differs from the frozen digest.
SampleNotSpawned(u) ==
  /\ Goes(u, "listed", "failed")
  /\ FailAndStop(UnitRun(u), "failed") /\ UNCHANGED aborted

\* The helper wrote its receipt: the process row is registered, in a handler that
\* goes on to open the gate.
RegisterSample(u) ==
  /\ Commits(u, "gated", "registered")
  /\ receipt[u] /\ os[u] = "gated" /\ ~aborted[UnitRun(u)] /\ Quiet
  /\ RegisterBatchProcessAttempt(u)

ReleaseSample(u) == Commits(u, "registered", "released") /\ MarkBatchProcessGateReleased(u)

OpenSampleGate(u) == Launches(u, "released", "starting") /\ GroupBecomes(u, "working")

\* No receipt in time, or an abort: the gate is closed without being opened.
SampleLaunchFails(u) == Launches(u, "gated", "closing") /\ Quiet /\ UNCHANGED machine

SampleLaunchClosed(u) ==
  /\ Goes(u, "closing", "failed") /\ os[u] = "ended" /\ Quiet
  /\ FailAndStop(UnitRun(u), "failed") /\ UNCHANGED aborted

StartSample(u) ==
  /\ Commits(u, "starting", "running")
  /\ os[u] # "dying" /\ ~aborted[UnitRun(u)] /\ Quiet
  /\ MarkBatchProcessStarted(u)

\* The wait for the started signal ends badly, by its deadline or an abort.
StopSample(u) ==
  /\ Launches(u, "starting", "terminating") /\ Quiet
  /\ GroupBecomes(u, IF os[u] = "working" THEN "dying" ELSE os[u])

SampleTerminated(u) ==
  /\ Goes(u, "terminating", "failed") /\ os[u] \in Gone /\ Quiet
  /\ FailAndStop(UnitRun(u), "failed") /\ UNCHANGED aborted

\* appendStream: a sample writes more than the Run may.
StreamLimit(u) ==
  /\ sup[u] \in {"starting", "running"} /\ os[u] = "working" /\ Quiet
  /\ failure[UnitRun(u)] = "none"
  /\ FailAndStop(UnitRun(u), "failed") /\ UNCHANGED <<aborted, sup>>

\* The sample's process group is gone: its outputs count only if nothing failed
\* before, ...
CompletesCleanly(u) == failure[UnitRun(u)] = "none" /\ os[u] = "finished"

\* ... it left no descendant, changed nothing of its copy, and its outputs pass
\* validation (valid).
SampleCompletes(u, valid) ==
  LET good == CompletesCleanly(u) /\ valid IN
  /\ Goes(u, "running", IF good THEN "succeeded" ELSE "failed")
  /\ os[u] \in Gone /\ Quiet
  /\ UNCHANGED aborted
  /\ IF good THEN UNCHANGED <<rowVars, machine, backend, exec, failure, rejected>>
             ELSE FailAndStop(UnitRun(u), "failed")

\* The wall timer of the Run.
BatchWallTimeout(r) ==
  /\ exec[r] = "supervising" /\ failure[r] = "none" /\ Quiet
  /\ FailAndStop(r, "timed_out") /\ UNCHANGED <<aborted, sup>>
-----------------------------------------------------------------------------
(* After supervise: one synchronous block that records exits, removes the     *)
(* scratch directories, records the cleanup and then ends the Run.            *)

BatchReturns(r) ==
  /\ Settled(r) /\ ExecGoes(r, "exits")
  /\ UNCHANGED <<rowVars, machine, backend, sup>>

RecordSampleExit(u) ==
  /\ exec[UnitRun(u)] = "exits" /\ RecordBatchProcessExit(u, os[u] = "finished")
  /\ UNCHANGED <<machine, backend, perRun, sup>>

RemoveDirectories(r) ==
  /\ dir' = [u \in Units |-> UnitRun(u) # r /\ dir[u]]
  /\ receipt' = [u \in Units |-> UnitRun(u) # r /\ receipt[u]]
  /\ ExecGoes(r, "cleanup") /\ UNCHANGED <<rowVars, os, backend, sup>>

RemoveBatchScratch(r) ==
  /\ exec[r] = "exits"
  /\ \A u \in Registered(r) : process[u] \notin OpenProcess
  /\ RemoveDirectories(r)

RecordSampleCleanup(u) ==
  /\ exec[UnitRun(u)] = "cleanup" /\ FinalizeBatchProcessCleanup(u)
  /\ UNCHANGED <<machine, backend, perRun, sup>>

PublishBatch(r) ==
  exec[r] = "cleanup" /\ failure[r] = "none" /\ CommitBatchRunSuccess(r) /\ Unwound(r)

\* The Run failed, a cancellation won against its success, its success could not be
\* published; or #execute threw before anything was registered.
EndBatch(r) ==
  /\ exec[r] = "cleanup" \/ (exec[r] = "rejected" /\ Registered(r) = {})
  /\ FinalizeBatchRunTerminal(r, IF failure[r] = "timed_out" THEN "timed_out" ELSE "failed")
  /\ Unwound(r)

\* #bestEffortUnwind cannot prove that every registered process is gone.
BatchUnproved(r) == r \in BatchRuns /\ exec[r] = "rejected" /\ Registered(r) # {}
-----------------------------------------------------------------------------
\* What can go wrong on its own: I/O, deadlines, limits.
BatchMishaps(u) ==
  \/ SampleScratchFails(u) \/ SampleNotSpawned(u) \/ SampleLaunchFails(u) \/ StopSample(u)
  \/ StreamLimit(u)

\* Nothing ends the wait for a launch receipt.
WaitsForReceipt(u) ==
  (aborted[UnitRun(u)] \/ failure[UnitRun(u)] # "none") /\ StopSample(u)

\* What an aborted or failed Run's unit must do at its next wait.
BatchReacts(u) ==
  \/ aborted[UnitRun(u)] /\ SampleLaunchFails(u)
  \/ (aborted[UnitRun(u)] \/ failure[UnitRun(u)] # "none") /\ StopSample(u)

BatchHandlers ==
  \/ \E r \in BatchRuns :
       \/ PlanSample(r) \/ BatchWallTimeout(r) \/ BatchReturns(r) \/ RemoveBatchScratch(r)
       \/ PublishBatch(r) \/ EndBatch(r)
  \/ \E u \in BatchUnits :
       \/ MakeSampleScratch(u) \/ RegisterSampleScratch(u) \/ SpawnSample(u)
       \/ RegisterSample(u) \/ ReleaseSample(u) \/ OpenSampleGate(u)
       \/ SampleLaunchClosed(u) \/ StartSample(u) \/ SampleTerminated(u)
       \/ \E valid \in BOOLEAN : SampleCompletes(u, valid)
       \/ RecordSampleExit(u) \/ RecordSampleCleanup(u) \/ BatchReacts(u)
=============================================================================
