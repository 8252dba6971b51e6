---------------------------- MODULE VisualSupervisor ----------------------------
(***************************************************************************)
(* GenericVisualSupervisor.supervise and cleanup: one process that serves  *)
(* a page, launched behind a gate, watched until it listens and is         *)
(* healthy, and then until it ends; and the part of the dispatcher's       *)
(* #executeVisual that records what it answers.  A visual Run has one      *)
(* unit, and each of its waits looks at the abort signal itself.           *)
(***************************************************************************)
EXTENDS Supervision

VisualUnitOf(r) == <<r, 0>>

PlanVisual(r) ==
  /\ WorkerFree(r)
  /\ LET u == VisualUnitOf(r) IN
     PrepareVisualProcessLaunch(u) /\ Commits(u, "idle", "planned")

MakeVisualScratch(u) == Launches(u, "planned", "made") /\ MakeDirectory(u)

\* mkdir fails before the try: supervise rejects with a lease planned.
VisualScratchFails(u) ==
  LET r == UnitRun(u) IN
  /\ Goes(u, "planned", "failed")
  /\ rejected' = [rejected EXCEPT ![r] = TRUE]
  /\ aborted' = [aborted EXCEPT ![r] = TRUE]
  /\ exec' = [exec EXCEPT ![r] = "rejected"]
  /\ UNCHANGED <<rowVars, machine, backend, failure>>

RegisterVisualScratch(u) == Commits(u, "made", "listed") /\ RegisterVisualScratchDirectory(u)

\* The abort signal is looked at once more before anything is spawned.
SpawnVisual(u) ==
  /\ Launches(u, "listed", "gated") /\ ~aborted[UnitRun(u)]
  /\ GroupBecomes(u, "gated")

VisualFails(u, from) ==
  /\ Goes(u, from, "failed") /\ Fail(UnitRun(u), "failed")
  /\ UNCHANGED <<rowVars, machine, backend, exec, aborted, rejected>>

VisualNotSpawned(u) == VisualFails(u, "listed")

RegisterVisual(u) ==
  /\ Commits(u, "gated", "registered")
  /\ receipt[u] /\ os[u] = "gated" /\ ~aborted[UnitRun(u)] /\ Quiet
  /\ RegisterVisualProcessAttempt(u)

ReleaseVisual(u) == Commits(u, "registered", "released") /\ MarkVisualProcessGateReleased(u)

OpenVisualGate(u) == Launches(u, "released", "starting") /\ GroupBecomes(u, "working")

VisualLaunchFails(u) == Launches(u, "gated", "closing") /\ Quiet /\ UNCHANGED machine

VisualLaunchClosed(u) == VisualFails(u, "closing") /\ os[u] = "ended" /\ Quiet

StartVisual(u) ==
  /\ Commits(u, "starting", "running")
  /\ os[u] # "dying" /\ ~aborted[UnitRun(u)] /\ Quiet
  /\ MarkVisualProcessStarted(u)

\* It listens on its port and nowhere else, and its health path answered once.
RecordHealth(u) ==
  /\ Commits(u, "running", "serving")
  /\ os[u] = "working" /\ ~aborted[UnitRun(u)] /\ Quiet
  /\ RecordVisualProcessHealth(u)

\* A wait ends badly: an abort, a start or health deadline, a stream limit, a
\* listener that changed, the wall deadline.
StopVisual(u) ==
  /\ \E from \in {"starting", "running", "serving"} : Launches(u, from, "terminating")
  /\ Quiet
  /\ GroupBecomes(u, IF os[u] = "working" THEN "dying" ELSE os[u])

VisualTerminated(u) == VisualFails(u, "terminating") /\ os[u] \in Gone /\ Quiet

\* A healthy process exits; from here on nobody listens to the signal.
ServingEnds(u) ==
  Launches(u, "serving", "draining") /\ os[u] \in Gone /\ Quiet /\ UNCHANGED machine

\* The exit code, the copied tree and the outputs decide.
VisualCompletes(u) ==
  Launches(u, "draining", "succeeded") /\ os[u] = "finished" /\ Quiet /\ UNCHANGED machine
VisualIsRefused(u) == VisualFails(u, "draining") /\ Quiet

\* The wall deadline of a waiting unit is the reason its wait ends (StopVisual).
VisualWallTimeout(r) ==
  /\ exec[r] = "supervising" /\ failure[r] = "none" /\ Quiet
  /\ sup[VisualUnitOf(r)] \in {"starting", "running", "serving"}
  /\ Fail(r, "timed_out")
  /\ UNCHANGED <<rowVars, machine, backend, exec, aborted, rejected, sup>>
-----------------------------------------------------------------------------
(* After supervise. *)

VisualReturns(r) ==
  /\ Settled(r) /\ ExecGoes(r, "exits")
  /\ UNCHANGED <<rowVars, machine, backend, sup>>

RecordVisualExit(u) ==
  /\ exec[UnitRun(u)] = "exits" /\ RecordVisualProcessExit(u, os[u] = "finished")
  /\ UNCHANGED <<machine, backend, perRun, sup>>

\* A process that was spawned but never registered cannot be accounted for.
Unaccounted(r) == Registered(r) = {} /\ os[VisualUnitOf(r)] # "none"

RemoveVisualScratch(r) ==
  /\ exec[r] = "exits" /\ ~Unaccounted(r)
  /\ \A u \in Registered(r) : process[u] \notin OpenProcess
  /\ LET u == VisualUnitOf(r) IN
     dir' = [dir EXCEPT ![u] = FALSE] /\ receipt' = [receipt EXCEPT ![u] = FALSE]
  /\ ExecGoes(r, "cleanup") /\ UNCHANGED <<rowVars, os, backend, sup>>

RecordVisualCleanup(u) ==
  /\ exec[UnitRun(u)] = "cleanup" /\ FinalizeVisualProcessCleanup(u)
  /\ UNCHANGED <<machine, backend, perRun, sup>>

RecordUnlaunched(u) ==
  /\ exec[UnitRun(u)] = "cleanup" /\ FinalizeUnlaunchedVisualScratchLease(u)
  /\ UNCHANGED <<machine, backend, perRun, sup>>

PublishVisual(r) ==
  exec[r] = "cleanup" /\ failure[r] = "none" /\ CommitVisualRunSuccess(r) /\ Unwound(r)

\* The Run failed, a cancellation won, its success could not be published; or
\* #executeVisual threw before anything was planned.
EndVisual(r) ==
  /\ exec[r] = "cleanup" \/ (exec[r] = "rejected" /\ lease[VisualUnitOf(r)] = "none")
  /\ FinalizeVisualRunTerminal(r, IF failure[r] = "timed_out" THEN "timed_out" ELSE "failed")
  /\ Unwound(r)

\* #bestEffortVisualUnwind cannot prove that every launch is gone and clean.
VisualUnproved(r) ==
  /\ r \in VisualRuns
  /\ \/ exec[r] = "rejected" /\ lease[VisualUnitOf(r)] # "none"
     \/ exec[r] = "exits" /\ Unaccounted(r)
-----------------------------------------------------------------------------
VisualMishaps(u) ==
  VisualScratchFails(u) \/ VisualNotSpawned(u) \/ VisualLaunchFails(u) \/ StopVisual(u)

\* What an aborted or timed out unit must do at its next wait.
VisualReacts(u) ==
  \/ aborted[UnitRun(u)] /\ (VisualNotSpawned(u) \/ VisualLaunchFails(u))
  \/ (aborted[UnitRun(u)] \/ failure[UnitRun(u)] # "none") /\ StopVisual(u)

VisualHandlers ==
  \/ \E r \in VisualRuns :
       \/ PlanVisual(r) \/ VisualWallTimeout(r) \/ VisualReturns(r) \/ RemoveVisualScratch(r)
       \/ PublishVisual(r) \/ EndVisual(r)
  \/ \E u \in VisualUnits :
       \/ MakeVisualScratch(u) \/ RegisterVisualScratch(u) \/ SpawnVisual(u)
       \/ RegisterVisual(u) \/ ReleaseVisual(u) \/ OpenVisualGate(u)
       \/ VisualLaunchClosed(u) \/ StartVisual(u) \/ RecordHealth(u) \/ VisualTerminated(u)
       \/ ServingEnds(u) \/ VisualCompletes(u) \/ VisualIsRefused(u)
       \/ RecordVisualExit(u) \/ RecordVisualCleanup(u) \/ RecordUnlaunched(u)
       \/ VisualReacts(u)
=============================================================================
