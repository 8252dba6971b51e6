------------------------ MODULE DispatchedRunsProofs ------------------------
(***************************************************************************)
(* Proofs about the dispatched Runs: what a death between any two          *)
(* transactions leaves behind can be found, a Run that ended is as its     *)
(* status says, and every step is one that the triggers permit.            *)
(***************************************************************************)
EXTENDS DispatchedRuns, WellFoundedInduction, TLAPS

Serving == server \in {"up", "stopping"}
Live(r) == attempt[r] \in LiveAttempt
AtRest(u) == sup[u] \in {"idle"} \cup Ended

(* What the rows of a unit say of its process group and its directory. *)

RowsAgree(u) ==
  /\ lease[u] = "none" => manifest[u] = "none" /\ process[u] = "none" /\ os[u] = "none"
  /\ lease[u] = "planned" => manifest[u] = "planned" /\ process[u] = "none" /\ os[u] = "none"
  /\ lease[u] = "created" =>
       manifest[u] = "planned" /\ process[u] = "none" /\ os[u] \in {"none", "gated", "ended"}
  /\ lease[u] = "active" => process[u] \in OpenProcess \cup {"exited"}
  /\ lease[u] = "cleanup_complete" =>
       /\ os[u] \in {"none"} \cup Gone
       /\ \/ process[u] = "none"
          \/ process[u] = "cleanup_complete" /\ manifest[u] = "cleanup_complete"
  /\ process[u] = "blocked" => manifest[u] = "registered" /\ os[u] \in {"gated", "dying", "ended"}
  /\ process[u] = "released" => manifest[u] = "released" /\ os[u] # "none"
  /\ process[u] = "running" => manifest[u] = "released" /\ os[u] \in {"working", "dying"} \cup Gone
  /\ process[u] = "exited" => manifest[u] = "exited" /\ os[u] \in Gone
  /\ dir[u] => lease[u] \in {"planned", "created", "active"}
  /\ receipt[u] => os[u] # "none"

\* Where the supervision of a unit stands, the rows and the process group are.
SupervisionAgrees(u) ==
  /\ sup[u] = "idle" => (Serving /\ Live(UnitRun(u)) => lease[u] = "none")
  /\ sup[u] \in {"planned", "made"} => lease[u] = "planned"
  /\ sup[u] = "listed" => lease[u] = "created" /\ os[u] = "none"
  /\ sup[u] = "gated" => lease[u] = "created" /\ os[u] = "gated"
  /\ sup[u] = "registered" => process[u] = "blocked" /\ os[u] = "gated"
  /\ sup[u] = "released" => process[u] = "released" /\ os[u] = "gated"
  /\ sup[u] = "starting" => process[u] = "released" /\ os[u] # "gated"
  /\ sup[u] \in {"running", "serving"} => process[u] = "running"
  /\ sup[u] = "draining" => os[u] \in Gone
  /\ sup[u] \in Ended => os[u] \in {"none"} \cup Gone
  /\ sup[u] # "idle" => Serving /\ lease[u] # "none"

\* A unit and its Run.
UnitOfRun(u) ==
  LET r == UnitRun(u) IN
  /\ lease[u] # "none" => attempt[r] \notin {"none", "claimed"}
  /\ process[u] \in OpenProcess \cup {"exited"} => Live(r)
  /\ outputs[r] => process[u] = "cleanup_complete" /\ exitOk[u] /\ (r \in VisualRuns => healthy[u])
  /\ status[r] \in Terminal /\ r \in VisualRuns => LeaseClean(u)
  /\ ~AtRest(u) => exec[r] = "supervising" \/ (r \in BatchRuns /\ exec[r] \in {"rejected", "idle"})
  /\ exec[r] = "cleanup" => ~dir[u]

UnitOK(u) == RowsAgree(u) /\ SupervisionAgrees(u) /\ UnitOfRun(u)

\* A Run, its attempt, and where #execute stands.
RunOK(r) ==
  /\ status[r] = "running" <=> Live(r)
  /\ status[r] \in {"absent", "queued"} => attempt[r] = "none"
  /\ status[r] = "succeeded" => attempt[r] = "succeeded"
  /\ Live(r) => owner[r] = generation
  /\ outputs[r] = (status[r] = "succeeded")
  /\ outputs[r] => ~cancel[r]
  /\ exec[r] # "idle" => Live(r)
  /\ exec[r] = "claimed" => attempt[r] = "claimed"
  /\ exec[r] = "starting" => attempt[r] = "starting"
  /\ exec[r] \in {"supervising", "exits", "cleanup"} => attempt[r] = "running"
  /\ exec[r] = "rejected" => attempt[r] \in {"starting", "running"}
  /\ Serving => exec[r] # "recovering"
  /\ ~Serving => exec[r] \in {"idle", "recovering"} /\ ~rejected[r]
  /\ Serving /\ Live(r) => exec[r] # "idle" \/ fatal
  /\ rejected[r] => exec[r] \in {"rejected", "idle"} /\ attempt[r] # "none"

\* The backend: one generation, one live attempt in a lane, a latch with its reason.
BackendOK ==
  /\ Serving => generation = boot
  /\ Serving => \A r, x \in Runs : Live(r) /\ Live(x) /\ x \in Lane(r) => r = x
  /\ Serving /\ fatal => \E r \in Runs : Live(r) /\ exec[r] = "idle"
  /\ server = "recovering" => ~fatal
  /\ RefusalsAreRecorded

IInv == TypeOK /\ (\A u \in Units : UnitOK(u)) /\ (\A r \in Runs : RunOK(r)) /\ BackendOK
-----------------------------------------------------------------------------
LEMMA UnitsHaveRuns ==
  /\ \A u \in Units : UnitRun(u) \in Runs
  /\ \A u \in BatchUnits : u \in Units /\ UnitRun(u) \in BatchRuns /\ UnitRun(u) \in Runs
  /\ \A u \in VisualUnits : u \in Units /\ UnitRun(u) \in VisualRuns /\ UnitRun(u) \in Runs
  /\ \A r \in BatchRuns : r \in Runs /\ r \notin VisualRuns
  /\ \A r \in VisualRuns : r \in Runs /\ r \notin BatchRuns
BY DispatchAssumption DEF Units, BatchUnits, VisualUnits, UnitRun, Runs

LEMMA UnitsOfRuns ==
  ASSUME NEW r \in Runs
  PROVE  UnitsOf(r) = {u \in Units : UnitRun(u) = r}
BY DEF UnitsOf, UnitRun

LEMMA OneVisualUnit ==
  ASSUME NEW r \in VisualRuns
  PROVE  /\ VisualUnitOf(r) \in VisualUnits /\ UnitRun(VisualUnitOf(r)) = r
         /\ \A u \in Units : UnitRun(u) = r <=> u = VisualUnitOf(r)
BY DispatchAssumption DEF VisualUnitOf, VisualUnits, UnitRun, Units, BatchUnits

\* What the triggers permit of a Run, and of a unit.
RunPermitted(r) ==
  /\ StatusTransition(r) /\ CancelIntent(r) /\ CancelPrecedence(r) /\ VerifiedCleanup(r)
  /\ CancelledQueueNoLaunch(r) /\ SuccessContext(r) /\ OutputContract(r)
  /\ AttemptOwner(r) /\ AttemptGeneration(r) /\ AttemptBinding(r)
  /\ AttemptTransition(r) /\ AttemptCancelPrecedence(r)
  /\ RecoveryOwner(r) /\ RecoveryTransition(r)

UnitPermitted(u) ==
  /\ LeaseTransition(u) /\ ManifestOwner(u) /\ ManifestTransition(u)
  /\ ProcessGeneration(u) /\ ProcessTransition(u) /\ RequiresLaunchReceipt(u)
  /\ ExitEvidence(u) /\ HealthTransition(u)

LEMMA Lanes ==
  ASSUME NEW r \in Runs, NEW x \in Runs
  PROVE  x \in Lane(r) <=> r \in Lane(x)
BY UnitsHaveRuns DEF Lane, Runs

LEMMA OneUnit ==
  ASSUME NEW u \in VisualUnits, NEW w \in Units, UnitRun(w) = UnitRun(u)
  PROVE  w = u
BY DispatchAssumption DEF VisualUnits, UnitRun, Units, BatchUnits

USE UnitsHaveRuns
USE DEF machine, backend, perRun, rowVars, runRow, attemptRow, unitRows, evidence
USE DEF RefusalsAreRecorded
USE DEF OpenProcess, Gone, Ended, Terminal, LiveAttempt, InCall, Active
USE DEF Ends, Moves, StatusTransition, CancelIntent, CancelPrecedence, VerifiedCleanup,
  CancelledQueueNoLaunch, SuccessContext, OutputContract, AttemptOwner, AttemptGeneration,
  AttemptBinding, AttemptTransition, AttemptCancelPrecedence, RecoveryOwner, RecoveryTransition,
  LeaseTransition, ManifestOwner, ManifestTransition, ProcessGeneration, ProcessTransition,
  RequiresLaunchReceipt, ExitEvidence, HealthTransition
-----------------------------------------------------------------------------
(* Every step keeps the invariant. *)

LEMMA UsersKeep ==
  ASSUME IInv, NEW r \in Runs,
         \/ CreateFrozenRun(r)
         \/ CancelRun(r)
  PROVE  IInv' /\ Permitted
<1> USE DEF CreateFrozenRun, CancelRun, InsertRun, RequestCancel, Abort, Stopped,
     KillActive, IInv, TypeOK, Serving, Live
<1>1. TypeOK'
  <2>1. CASE CreateFrozenRun(r)
    BY <2>1, DispatchAssumption DEF SupState
  <2>2. CASE CancelRun(r)
    BY <2>2, DispatchAssumption DEF SupState
  <2> QED BY <2>1, <2>2
<1>2. ASSUME NEW w \in Units PROVE UnitOK(w)'
  BY DEF UnitOK, RowsAgree, SupervisionAgrees, UnitOfRun, RunOK, LeaseClean, AtRest
<1>3. ASSUME NEW x \in Runs PROVE RunOK(x)'
  BY DEF UnitOK, SupervisionAgrees, UnitOfRun, RunOK, AtRest
<1>4. BackendOK'
  BY DEF RunOK, BackendOK, Lane
<1>5. ASSUME NEW x \in Runs PROVE RunPermitted(x)
  BY DEF UnitOK, RowsAgree, UnitOfRun, RunOK, RunPermitted
<1>6. ASSUME NEW w \in Units PROVE UnitPermitted(w)
  BY DEF UnitOK, RowsAgree, UnitOfRun, RunOK, UnitPermitted, UnitRun
<1> QED BY <1>1, <1>2, <1>3, <1>4, <1>5, <1>6 DEF Permitted, RunPermitted, UnitPermitted

LEMMA StopKeeps ==
  ASSUME IInv, StopDispatcher
  PROVE  IInv' /\ Permitted
<1> USE DEF StopDispatcher, Abort, Stopped, KillActive, IInv, TypeOK, Serving, Live
<1>1. TypeOK'
  BY DispatchAssumption DEF SupState
<1>2. ASSUME NEW w \in Units PROVE UnitOK(w)'
  BY DEF UnitOK, RowsAgree, SupervisionAgrees, UnitOfRun, RunOK, LeaseClean, AtRest
<1>3. ASSUME NEW x \in Runs PROVE RunOK(x)'
  BY DEF UnitOK, SupervisionAgrees, UnitOfRun, RunOK, AtRest
<1>4. BackendOK'
  BY DEF RunOK, BackendOK, Lane
<1>5. ASSUME NEW x \in Runs PROVE RunPermitted(x)
  BY DEF UnitOK, RowsAgree, UnitOfRun, RunOK, RunPermitted
<1>6. ASSUME NEW w \in Units PROVE UnitPermitted(w)
  BY DEF UnitOK, RowsAgree, UnitOfRun, RunOK, UnitPermitted, UnitRun
<1> QED BY <1>1, <1>2, <1>3, <1>4, <1>5, <1>6 DEF Permitted, RunPermitted, UnitPermitted

LEMMA LanesKeep ==
  ASSUME IInv, NEW r \in Runs,
         \/ FinalizeCancelledQueued(r)
         \/ DrainBatch(r)
         \/ DrainVisual(r)
  PROVE  IInv' /\ Permitted
<1> USE UnitsOfRuns DEF FinalizeCancelledQueued, EndCancelledQueued, CancelledQueue,
     DrainBatch, DrainVisual, Claimed, Draining, LaneIdle, Lane, ExecGoes, Fenced, ClaimRun,
     ClaimNextQueuedBatchRun, ClaimNextQueuedVisualRun, IInv, TypeOK, Serving, Live
<1>1. TypeOK'
  <2>1. CASE FinalizeCancelledQueued(r)
    BY <2>1, DispatchAssumption DEF SupState
  <2>2. CASE DrainBatch(r)
    BY <2>2, DispatchAssumption DEF SupState
  <2>3. CASE DrainVisual(r)
    BY <2>3, DispatchAssumption DEF SupState
  <2> QED BY <2>1, <2>2, <2>3
<1>2. ASSUME NEW w \in Units PROVE UnitOK(w)'
  BY DEF UnitOK, RowsAgree, SupervisionAgrees, UnitOfRun, RunOK, LeaseClean, AtRest
<1>3. ASSUME NEW x \in Runs PROVE RunOK(x)'
  BY DEF UnitOK, SupervisionAgrees, UnitOfRun, RunOK, AtRest
<1>4. BackendOK'
  <2>1. CASE FinalizeCancelledQueued(r)
    BY <2>1 DEF RunOK, BackendOK, Lane
  <2>2. CASE DrainBatch(r)
    BY <2>2 DEF RunOK, BackendOK, Lane
  <2>3. CASE DrainVisual(r)
    <3>1. \A x \in Lane(r) : x \in Runs => ~Live(x)
      BY <2>3 DEF RunOK, BackendOK
    <3>2. \A x \in Runs : Live(x)' <=> (Live(x) \/ x = r)
      BY <2>3 DEF Live
    <3>3. \A x, y \in Runs : Live(x)' /\ Live(y)' /\ y \in Lane(x) => x = y
      BY <2>3, <3>1, <3>2, Lanes DEF BackendOK
    <3> QED BY <2>3, <3>2, <3>3 DEF RunOK, BackendOK, Lane
  <2> QED BY <2>1, <2>2, <2>3
<1>5. ASSUME NEW x \in Runs PROVE RunPermitted(x)
  <2>1. CASE FinalizeCancelledQueued(r)
    BY <2>1 DEF UnitOK, RowsAgree, UnitOfRun, RunOK, RunPermitted
  <2>2. CASE DrainBatch(r)
    BY <2>2 DEF UnitOK, RowsAgree, UnitOfRun, RunOK, RunPermitted
  <2>3. CASE DrainVisual(r)
    BY <2>3 DEF UnitOK, RowsAgree, UnitOfRun, RunOK, RunPermitted
  <2> QED BY <2>1, <2>2, <2>3
<1>6. ASSUME NEW w \in Units PROVE UnitPermitted(w)
  BY DEF UnitOK, RowsAgree, UnitOfRun, RunOK, UnitPermitted, UnitRun
<1> QED BY <1>1, <1>2, <1>3, <1>4, <1>5, <1>6 DEF Permitted, RunPermitted, UnitPermitted

LEMMA ExecutionKeeps ==
  ASSUME IInv, NEW r \in Runs,
         \/ MarkStarting(r)
         \/ MarkRunning(r)
         \/ CapabilityFails(r)
         \/ HeartbeatFails(r)
  PROVE  IInv' /\ Permitted
<1> USE DEF MarkStarting, MarkRunning, CapabilityFails, HeartbeatFails, FailAndStop, Fail,
     KillActive, ExecGoes, Fenced, TransitionAttempt, MarkRunAttemptStarting,
     MarkRunAttemptRunning, IInv, TypeOK, Serving, Live
<1>1. TypeOK'
  <2>1. CASE MarkStarting(r)
    BY <2>1, DispatchAssumption DEF SupState
  <2>2. CASE MarkRunning(r)
    BY <2>2, DispatchAssumption DEF SupState
  <2>3. CASE CapabilityFails(r)
    BY <2>3, DispatchAssumption DEF SupState
  <2>4. CASE HeartbeatFails(r)
    BY <2>4, DispatchAssumption DEF SupState
  <2> QED BY <2>1, <2>2, <2>3, <2>4
<1>2. ASSUME NEW w \in Units PROVE UnitOK(w)'
  BY DEF UnitOK, RowsAgree, SupervisionAgrees, UnitOfRun, RunOK, LeaseClean, AtRest
<1>3. ASSUME NEW x \in Runs PROVE RunOK(x)'
  BY DEF UnitOK, SupervisionAgrees, UnitOfRun, RunOK, AtRest
<1>4. BackendOK'
  <2>1. CASE MarkStarting(r)
    BY <2>1 DEF RunOK, BackendOK, Lane
  <2>2. CASE MarkRunning(r)
    BY <2>2 DEF RunOK, BackendOK, Lane
  <2>3. CASE CapabilityFails(r)
    BY <2>3 DEF RunOK, BackendOK, Lane
  <2>4. CASE HeartbeatFails(r)
    BY <2>4 DEF RunOK, BackendOK, Lane
  <2> QED BY <2>1, <2>2, <2>3, <2>4
<1>5. ASSUME NEW x \in Runs PROVE RunPermitted(x)
  BY DEF UnitOK, RowsAgree, UnitOfRun, RunOK, RunPermitted
<1>6. ASSUME NEW w \in Units PROVE UnitPermitted(w)
  BY DEF UnitOK, RowsAgree, UnitOfRun, RunOK, UnitPermitted, UnitRun
<1> QED BY <1>1, <1>2, <1>3, <1>4, <1>5, <1>6 DEF Permitted, RunPermitted, UnitPermitted

LEMMA LatchKeeps ==
  ASSUME IInv, NEW r \in Runs, LatchFatal(r)
  PROVE  IInv' /\ Permitted
<1> USE DEF LatchFatal, Unproved, BatchUnproved, VisualUnproved, Unaccounted, Abort,
     Stopped, KillActive, IInv, TypeOK, Serving, Live
<1>1. TypeOK'
  BY DispatchAssumption DEF SupState
<1>2. ASSUME NEW w \in Units PROVE UnitOK(w)'
  BY DEF UnitOK, RowsAgree, SupervisionAgrees, UnitOfRun, RunOK, LeaseClean, AtRest
<1>3. ASSUME NEW x \in Runs PROVE RunOK(x)'
  BY DEF UnitOK, SupervisionAgrees, UnitOfRun, RunOK, AtRest
<1>4. BackendOK'
  BY DEF RunOK, BackendOK, Lane
<1>5. ASSUME NEW x \in Runs PROVE RunPermitted(x)
  BY DEF UnitOK, RowsAgree, UnitOfRun, RunOK, RunPermitted
<1>6. ASSUME NEW w \in Units PROVE UnitPermitted(w)
  BY DEF UnitOK, RowsAgree, UnitOfRun, RunOK, UnitPermitted, UnitRun
<1> QED BY <1>1, <1>2, <1>3, <1>4, <1>5, <1>6 DEF Permitted, RunPermitted, UnitPermitted

\* What a commit found in the rows of a success, the audit of a start finds there.
LEMMA AuditsPass ==
  ASSUME IInv, NEW r \in Runs
  PROVE  AuditedBatchSuccess(r) /\ AuditedVisualSuccess(r)
<1> USE DEF IInv, RunOK
<1>1. \A u \in UnitsOf(r) : outputs[r] =>
        /\ process[u] = "cleanup_complete" /\ exitOk[u] /\ (r \in VisualRuns => healthy[u])
        /\ manifest[u] = "cleanup_complete" /\ lease[u] = "cleanup_complete"
  BY UnitsOfRuns DEF UnitOK, UnitOfRun, RowsAgree, TypeOK
<1> QED BY <1>1 DEF AuditedBatchSuccess, AuditedVisualSuccess, BatchEvidence, VisualEvidence

LEMMA DeathKeeps ==
  ASSUME IInv,
         \/ ProcessEnds
         \/ Crash
         \/ Boot
  PROVE  IInv' /\ Permitted
<1> USE DEF ProcessEnds, Crash, Boot, ForgetMemory, Quiet, IInv, TypeOK, Serving, Live
<1>1. TypeOK'
  <2>1. CASE ProcessEnds
    BY <2>1, DispatchAssumption DEF SupState
  <2>2. CASE Crash
    BY <2>2, DispatchAssumption DEF SupState
  <2>3. CASE Boot
    <3>1. boot + 1 \in 0..MaxBoots
      BY <2>3, DispatchAssumption DEF TypeOK
    <3> QED BY <2>3, <3>1 DEF SupState
  <2> QED BY <2>1, <2>2, <2>3
<1>2. ASSUME NEW w \in Units PROVE UnitOK(w)'
  BY DEF UnitOK, RowsAgree, SupervisionAgrees, UnitOfRun, RunOK, LeaseClean, AtRest
<1>3. ASSUME NEW x \in Runs PROVE RunOK(x)'
  BY DEF UnitOK, SupervisionAgrees, UnitOfRun, RunOK, AtRest
<1>4. BackendOK'
  <2>1. Boot => server' = "recovering"
    BY AuditsPass
  <2> QED BY <2>1 DEF RunOK, BackendOK, Lane
<1>5. ASSUME NEW x \in Runs PROVE RunPermitted(x)
  BY DEF UnitOK, RowsAgree, UnitOfRun, RunOK, RunPermitted
<1>6. ASSUME NEW w \in Units PROVE UnitPermitted(w)
  BY DEF UnitOK, RowsAgree, UnitOfRun, RunOK, UnitPermitted, UnitRun
<1> QED BY <1>1, <1>2, <1>3, <1>4, <1>5, <1>6 DEF Permitted, RunPermitted, UnitPermitted

LEMMA RecoveryKeeps ==
  ASSUME IInv, NEW r \in Runs,
         \/ BeginRunRecovery(r)
         \/ CompleteRecoveredRun(r)
         \/ FailRunRecovery(r)
  PROVE  IInv' /\ Permitted
<1> USE UnitsOfRuns DEF BeginRunRecovery, BeginRecovery, CompleteRecoveredRun,
     CompleteRecovered, CancelWonOr, EndRun, Unwound, FailRunRecovery, FailRecovery,
     ExecGoes, Fenced, ProcessClean, LeaseClean, IInv, TypeOK, Serving, Live
<1>1. TypeOK'
  <2>1. CASE BeginRunRecovery(r)
    BY <2>1, DispatchAssumption DEF SupState
  <2>2. CASE CompleteRecoveredRun(r)
    BY <2>2, DispatchAssumption DEF SupState
  <2>3. CASE FailRunRecovery(r)
    BY <2>3, DispatchAssumption DEF SupState
  <2> QED BY <2>1, <2>2, <2>3
<1>2. ASSUME NEW w \in Units PROVE UnitOK(w)'
  BY DEF UnitOK, RowsAgree, SupervisionAgrees, UnitOfRun, RunOK, LeaseClean, AtRest
<1>3. ASSUME NEW x \in Runs PROVE RunOK(x)'
  BY DEF UnitOK, SupervisionAgrees, UnitOfRun, RunOK, AtRest
<1>4. BackendOK'
  BY DEF RunOK, BackendOK, Lane
<1>5. ASSUME NEW x \in Runs PROVE RunPermitted(x)
  BY DEF UnitOK, RowsAgree, UnitOfRun, RunOK, RunPermitted
<1>6. ASSUME NEW w \in Units PROVE UnitPermitted(w)
  BY DEF UnitOK, RowsAgree, UnitOfRun, RunOK, UnitPermitted, UnitRun
<1> QED BY <1>1, <1>2, <1>3, <1>4, <1>5, <1>6 DEF Permitted, RunPermitted, UnitPermitted

LEMMA ActivationKeeps ==
  ASSUME IInv, ActivateDispatcherGeneration
  PROVE  IInv' /\ Permitted
<1> USE DEF ActivateDispatcherGeneration, ActivateGeneration, NobodyLive, IInv, TypeOK,
     Serving, Live
<1>1. TypeOK'
  BY DispatchAssumption DEF SupState
<1>2. ASSUME NEW w \in Units PROVE UnitOK(w)'
  BY DEF UnitOK, RowsAgree, SupervisionAgrees, UnitOfRun, RunOK, LeaseClean, AtRest
<1>3. ASSUME NEW x \in Runs PROVE RunOK(x)'
  BY DEF UnitOK, SupervisionAgrees, UnitOfRun, RunOK, AtRest
<1>4. BackendOK'
  BY DEF RunOK, BackendOK, Lane
<1>5. ASSUME NEW x \in Runs PROVE RunPermitted(x)
  BY DEF UnitOK, RowsAgree, UnitOfRun, RunOK, RunPermitted
<1>6. ASSUME NEW w \in Units PROVE UnitPermitted(w)
  BY DEF UnitOK, RowsAgree, UnitOfRun, RunOK, UnitPermitted, UnitRun
<1> QED BY <1>1, <1>2, <1>3, <1>4, <1>5, <1>6 DEF Permitted, RunPermitted, UnitPermitted

LEMMA ProcessesKeep ==
  ASSUME IInv, NEW u \in Units,
         \/ WriteReceipt(u)
         \/ GateCloses(u)
         \/ ProcessExits(u)
         \/ GroupDies(u)
  PROVE  IInv' /\ Permitted
<1> USE DEF WriteReceipt, GateCloses, ProcessExits, GroupDies, OsStep, IInv, TypeOK,
     Serving, Live
<1>1. TypeOK'
  <2>1. CASE WriteReceipt(u)
    BY <2>1, DispatchAssumption DEF SupState
  <2>2. CASE GateCloses(u)
    BY <2>2, DispatchAssumption DEF SupState
  <2>3. CASE ProcessExits(u)
    BY <2>3, DispatchAssumption DEF SupState
  <2>4. CASE GroupDies(u)
    BY <2>4, DispatchAssumption DEF SupState
  <2> QED BY <2>1, <2>2, <2>3, <2>4
<1>2. ASSUME NEW w \in Units PROVE UnitOK(w)'
  BY DEF UnitOK, RowsAgree, SupervisionAgrees, UnitOfRun, RunOK, LeaseClean, AtRest
<1>3. ASSUME NEW x \in Runs PROVE RunOK(x)'
  BY DEF UnitOK, SupervisionAgrees, UnitOfRun, RunOK, AtRest
<1>4. BackendOK'
  BY DEF RunOK, BackendOK, Lane
<1>5. ASSUME NEW x \in Runs PROVE RunPermitted(x)
  BY DEF UnitOK, RowsAgree, UnitOfRun, RunOK, RunPermitted
<1>6. ASSUME NEW w \in Units PROVE UnitPermitted(w)
  BY DEF UnitOK, RowsAgree, UnitOfRun, RunOK, UnitPermitted, UnitRun
<1> QED BY <1>1, <1>2, <1>3, <1>4, <1>5, <1>6 DEF Permitted, RunPermitted, UnitPermitted

LEMMA RecoveredUnitsKeep ==
  ASSUME IInv, NEW u \in Units,
         \/ RecoverPlannedLease(u)
         \/ RecoverCreatedLease(u)
         \/ TerminateRecordedProcess(u)
         \/ RecoverExit(u)
         \/ CleanupDurableScratch(u)
         \/ RecoverCleanup(u)
  PROVE  IInv' /\ Permitted
<1> USE DEF RecoverPlannedLease, RecoverCreatedLease, TerminateRecordedProcess, RecoverExit,
     CleanupDurableScratch, RecoverCleanup, Recovering, InDoubt, ReceiptReadable,
     FinalizeUnlaunchedScratchLease, CloseLease, AdoptRecoveredLaunchReceipt, BindReceipt,
     ExitOf, RecordBatchProcessExit, RecordVisualProcessExit, FinalizeBatchProcessCleanup,
     FinalizeVisualProcessCleanup, TransitionBatchProcess, TransitionVisualProcess,
     MoveProcess, ExitManifest, CleanManifest, Fenced, IInv, TypeOK, Serving, Live
<1>1. TypeOK'
  <2>1. CASE RecoverPlannedLease(u)
    BY <2>1, DispatchAssumption DEF SupState
  <2>2. CASE RecoverCreatedLease(u)
    BY <2>2, DispatchAssumption DEF SupState
  <2>3. CASE TerminateRecordedProcess(u)
    BY <2>3, DispatchAssumption DEF SupState
  <2>4. CASE RecoverExit(u)
    <3>1. CASE RecordBatchProcessExit(u, FALSE)
      BY <2>4, <3>1 DEF SupState
    <3>2. CASE RecordVisualProcessExit(u, FALSE)
      BY <2>4, <3>2 DEF SupState
    <3> QED BY <2>4, <3>1, <3>2
  <2>5. CASE CleanupDurableScratch(u)
    BY <2>5, DispatchAssumption DEF SupState
  <2>6. CASE RecoverCleanup(u)
    <3>1. CASE FinalizeBatchProcessCleanup(u)
      BY <2>6, <3>1 DEF SupState
    <3>2. CASE FinalizeVisualProcessCleanup(u)
      BY <2>6, <3>2 DEF SupState
    <3> QED BY <2>6, <3>1, <3>2
  <2> QED BY <2>1, <2>2, <2>3, <2>4, <2>5, <2>6
<1>2. ASSUME NEW w \in Units PROVE UnitOK(w)'
  BY DEF UnitOK, RowsAgree, SupervisionAgrees, UnitOfRun, RunOK, LeaseClean, AtRest
<1>3. ASSUME NEW x \in Runs PROVE RunOK(x)'
  BY DEF UnitOK, SupervisionAgrees, UnitOfRun, RunOK, AtRest
<1>4. BackendOK'
  BY DEF RunOK, BackendOK, Lane
<1>5. ASSUME NEW x \in Runs PROVE RunPermitted(x)
  BY DEF UnitOK, RowsAgree, UnitOfRun, RunOK, RunPermitted
<1>6. ASSUME NEW w \in Units PROVE UnitPermitted(w)
  BY DEF UnitOK, RowsAgree, UnitOfRun, RunOK, UnitPermitted, UnitRun
<1> QED BY <1>1, <1>2, <1>3, <1>4, <1>5, <1>6 DEF Permitted, RunPermitted, UnitPermitted

LEMMA SampleLaunchKeeps ==
  ASSUME IInv, NEW u \in BatchUnits,
         \/ MakeSampleScratch(u)
         \/ RegisterSampleScratch(u)
         \/ SpawnSample(u)
         \/ RegisterSample(u)
         \/ ReleaseSample(u)
         \/ OpenSampleGate(u)
  PROVE  IInv' /\ Permitted
<1> USE DEF MakeSampleScratch, RegisterSampleScratch, SpawnSample, RegisterSample,
     ReleaseSample, OpenSampleGate, Goes, Commits, Launches, GroupBecomes, MakeDirectory,
     RegisterBatchScratchDirectory, RegisterDirectory, RegisterBatchProcessAttempt,
     RegisterAttempt, BindReceipt, MarkBatchProcessGateReleased, TransitionBatchProcess,
     MoveProcess, ReleaseManifest, Fenced, IInv, TypeOK, Serving, Live
<1>1. TypeOK'
  <2>1. CASE MakeSampleScratch(u)
    BY <2>1, DispatchAssumption DEF SupState
  <2>2. CASE RegisterSampleScratch(u)
    BY <2>2, DispatchAssumption DEF SupState
  <2>3. CASE SpawnSample(u)
    BY <2>3, DispatchAssumption DEF SupState
  <2>4. CASE RegisterSample(u)
    BY <2>4, DispatchAssumption DEF SupState
  <2>5. CASE ReleaseSample(u)
    BY <2>5, DispatchAssumption DEF SupState
  <2>6. CASE OpenSampleGate(u)
    BY <2>6, DispatchAssumption DEF SupState
  <2> QED BY <2>1, <2>2, <2>3, <2>4, <2>5, <2>6
<1>2. ASSUME NEW w \in Units PROVE UnitOK(w)'
  BY DEF UnitOK, RowsAgree, SupervisionAgrees, UnitOfRun, RunOK, LeaseClean, AtRest
<1>3. ASSUME NEW x \in Runs PROVE RunOK(x)'
  BY DEF UnitOK, SupervisionAgrees, UnitOfRun, RunOK, AtRest
<1>4. BackendOK'
  BY DEF RunOK, BackendOK, Lane
<1>5. ASSUME NEW x \in Runs PROVE RunPermitted(x)
  BY DEF UnitOK, RowsAgree, UnitOfRun, RunOK, RunPermitted
<1>6. ASSUME NEW w \in Units PROVE UnitPermitted(w)
  BY DEF UnitOK, RowsAgree, UnitOfRun, RunOK, UnitPermitted, UnitRun
<1> QED BY <1>1, <1>2, <1>3, <1>4, <1>5, <1>6 DEF Permitted, RunPermitted, UnitPermitted

LEMMA SampleFailsKeep ==
  ASSUME IInv, NEW u \in BatchUnits,
         \/ SampleScratchFails(u)
         \/ SampleNotSpawned(u)
         \/ SampleLaunchFails(u)
         \/ SampleLaunchClosed(u)
  PROVE  IInv' /\ Permitted
<1> USE DEF SampleScratchFails, SampleNotSpawned, SampleLaunchFails, SampleLaunchClosed,
     Goes, Commits, Launches, GroupBecomes, MakeDirectory, Fail, FailAndStop, KillActive,
     IInv, TypeOK, Serving, Live
<1>1. TypeOK'
  <2>1. CASE SampleScratchFails(u)
    BY <2>1, DispatchAssumption DEF SupState
  <2>2. CASE SampleNotSpawned(u)
    BY <2>2, DispatchAssumption DEF SupState
  <2>3. CASE SampleLaunchFails(u)
    BY <2>3, DispatchAssumption DEF SupState
  <2>4. CASE SampleLaunchClosed(u)
    BY <2>4, DispatchAssumption DEF SupState
  <2> QED BY <2>1, <2>2, <2>3, <2>4
<1>2. ASSUME NEW w \in Units PROVE UnitOK(w)'
  BY DEF UnitOK, RowsAgree, SupervisionAgrees, UnitOfRun, RunOK, LeaseClean, AtRest
<1>3. ASSUME NEW x \in Runs PROVE RunOK(x)'
  BY DEF UnitOK, SupervisionAgrees, UnitOfRun, RunOK, AtRest
<1>4. BackendOK'
  BY DEF RunOK, BackendOK, Lane
<1>5. ASSUME NEW x \in Runs PROVE RunPermitted(x)
  BY DEF UnitOK, RowsAgree, UnitOfRun, RunOK, RunPermitted
<1>6. ASSUME NEW w \in Units PROVE UnitPermitted(w)
  BY DEF UnitOK, RowsAgree, UnitOfRun, RunOK, UnitPermitted, UnitRun
<1> QED BY <1>1, <1>2, <1>3, <1>4, <1>5, <1>6 DEF Permitted, RunPermitted, UnitPermitted

LEMMA SampleWorkKeeps ==
  ASSUME IInv, NEW u \in BatchUnits,
         \/ StartSample(u)
         \/ StopSample(u)
         \/ SampleTerminated(u)
         \/ StreamLimit(u)
  PROVE  IInv' /\ Permitted
<1> USE DEF StartSample, StopSample, SampleTerminated, StreamLimit, MarkBatchProcessStarted,
     TransitionBatchProcess, MoveProcess, Fenced, Goes, Commits, Launches, GroupBecomes,
     MakeDirectory, Fail, FailAndStop, KillActive, IInv, TypeOK, Serving, Live
<1>1. TypeOK'
  <2>1. CASE StartSample(u)
    BY <2>1, DispatchAssumption DEF SupState
  <2>2. CASE StopSample(u)
    BY <2>2, DispatchAssumption DEF SupState
  <2>3. CASE SampleTerminated(u)
    BY <2>3, DispatchAssumption DEF SupState
  <2>4. CASE StreamLimit(u)
    BY <2>4, DispatchAssumption DEF SupState
  <2> QED BY <2>1, <2>2, <2>3, <2>4
<1>2. ASSUME NEW w \in Units PROVE UnitOK(w)'
  BY DEF UnitOK, RowsAgree, SupervisionAgrees, UnitOfRun, RunOK, LeaseClean, AtRest
<1>3. ASSUME NEW x \in Runs PROVE RunOK(x)'
  BY DEF UnitOK, SupervisionAgrees, UnitOfRun, RunOK, AtRest
<1>4. BackendOK'
  BY DEF RunOK, BackendOK, Lane
<1>5. ASSUME NEW x \in Runs PROVE RunPermitted(x)
  BY DEF UnitOK, RowsAgree, UnitOfRun, RunOK, RunPermitted
<1>6. ASSUME NEW w \in Units PROVE UnitPermitted(w)
  BY DEF UnitOK, RowsAgree, UnitOfRun, RunOK, UnitPermitted, UnitRun
<1> QED BY <1>1, <1>2, <1>3, <1>4, <1>5, <1>6 DEF Permitted, RunPermitted, UnitPermitted

LEMMA SampleEndKeeps ==
  ASSUME IInv, NEW u \in BatchUnits, NEW valid \in BOOLEAN,
         \/ SampleCompletes(u, valid)
         \/ RecordSampleExit(u)
         \/ RecordSampleCleanup(u)
  PROVE  IInv' /\ Permitted
<1> USE DEF SampleCompletes, CompletesCleanly, RecordSampleExit, RecordSampleCleanup,
     RecordBatchProcessExit, FinalizeBatchProcessCleanup, TransitionBatchProcess,
     MoveProcess, ExitManifest, CleanManifest, Fenced, Goes, Commits, Launches,
     GroupBecomes, MakeDirectory, Fail, FailAndStop, KillActive, IInv, TypeOK, Serving, Live
<1>1. TypeOK'
  <2>1. CASE SampleCompletes(u, valid)
    BY <2>1, DispatchAssumption DEF SupState
  <2>2. CASE RecordSampleExit(u)
    BY <2>2, DispatchAssumption DEF SupState
  <2>3. CASE RecordSampleCleanup(u)
    BY <2>3, DispatchAssumption DEF SupState
  <2> QED BY <2>1, <2>2, <2>3
<1>2. ASSUME NEW w \in Units PROVE UnitOK(w)'
  BY DEF UnitOK, RowsAgree, SupervisionAgrees, UnitOfRun, RunOK, LeaseClean, AtRest
<1>3. ASSUME NEW x \in Runs PROVE RunOK(x)'
  BY DEF UnitOK, SupervisionAgrees, UnitOfRun, RunOK, AtRest
<1>4. BackendOK'
  BY DEF RunOK, BackendOK, Lane
<1>5. ASSUME NEW x \in Runs PROVE RunPermitted(x)
  BY DEF UnitOK, RowsAgree, UnitOfRun, RunOK, RunPermitted
<1>6. ASSUME NEW w \in Units PROVE UnitPermitted(w)
  BY DEF UnitOK, RowsAgree, UnitOfRun, RunOK, UnitPermitted, UnitRun
<1> QED BY <1>1, <1>2, <1>3, <1>4, <1>5, <1>6 DEF Permitted, RunPermitted, UnitPermitted

LEMMA BatchRunKeeps ==
  ASSUME IInv, NEW r \in BatchRuns,
         \/ BatchWallTimeout(r)
         \/ BatchReturns(r)
         \/ RemoveBatchScratch(r)
         \/ PublishBatch(r)
         \/ EndBatch(r)
  PROVE  IInv' /\ Permitted
<1> USE UnitsOfRuns DEF BatchWallTimeout, BatchReturns, Settled, InFlight,
     RemoveBatchScratch, RemoveDirectories, PublishBatch, EndBatch, Registered,
     CommitBatchRunSuccess, BatchEvidence, CommitSuccess, FinalizeBatchRunTerminal,
     CancelWonOr, EndRun, Unwound, ExecGoes, ProcessClean, Fenced, Fail, FailAndStop,
     KillActive, IInv, TypeOK, Serving, Live
<1>1. TypeOK'
  <2>1. CASE BatchWallTimeout(r)
    BY <2>1, DispatchAssumption DEF SupState
  <2>2. CASE BatchReturns(r)
    BY <2>2, DispatchAssumption DEF SupState
  <2>3. CASE RemoveBatchScratch(r)
    BY <2>3, DispatchAssumption DEF SupState
  <2>4. CASE PublishBatch(r)
    BY <2>4, DispatchAssumption DEF SupState
  <2>5. CASE EndBatch(r)
    BY <2>5, DispatchAssumption DEF SupState
  <2> QED BY <2>1, <2>2, <2>3, <2>4, <2>5
<1>2. ASSUME NEW w \in Units PROVE UnitOK(w)'
  BY DEF UnitOK, RowsAgree, SupervisionAgrees, UnitOfRun, RunOK, LeaseClean, AtRest
<1>3. ASSUME NEW x \in Runs PROVE RunOK(x)'
  <2>1. CASE BatchWallTimeout(r)
    BY <2>1 DEF UnitOK, SupervisionAgrees, UnitOfRun, RunOK, AtRest
  <2>2. CASE BatchReturns(r)
    BY <2>2 DEF UnitOK, SupervisionAgrees, UnitOfRun, RunOK, AtRest
  <2>3. CASE RemoveBatchScratch(r)
    BY <2>3 DEF UnitOK, SupervisionAgrees, UnitOfRun, RunOK, AtRest
  <2>4. CASE PublishBatch(r)
    <3>1. CASE x = r
      BY <2>4, <3>1 DEF RunOK
    <3>2. CASE x # r
      BY <2>4, <3>2 DEF RunOK
    <3> QED BY <3>1, <3>2
  <2>5. CASE EndBatch(r)
    BY <2>5 DEF UnitOK, SupervisionAgrees, UnitOfRun, RunOK, AtRest
  <2> QED BY <2>1, <2>2, <2>3, <2>4, <2>5
<1>4. BackendOK'
  BY DEF RunOK, BackendOK, Lane
<1>5. ASSUME NEW x \in Runs PROVE RunPermitted(x)
  BY DEF UnitOK, RowsAgree, UnitOfRun, RunOK, RunPermitted
<1>6. ASSUME NEW w \in Units PROVE UnitPermitted(w)
  BY DEF UnitOK, RowsAgree, UnitOfRun, RunOK, UnitPermitted, UnitRun
<1> QED BY <1>1, <1>2, <1>3, <1>4, <1>5, <1>6 DEF Permitted, RunPermitted, UnitPermitted

LEMMA VisualLaunchKeeps ==
  ASSUME IInv, NEW u \in VisualUnits,
         \/ MakeVisualScratch(u)
         \/ RegisterVisualScratch(u)
         \/ SpawnVisual(u)
         \/ RegisterVisual(u)
         \/ ReleaseVisual(u)
         \/ OpenVisualGate(u)
  PROVE  IInv' /\ Permitted
<1> USE DEF MakeVisualScratch, RegisterVisualScratch, SpawnVisual, RegisterVisual,
     ReleaseVisual, OpenVisualGate, Goes, Commits, Launches, GroupBecomes, MakeDirectory,
     RegisterVisualScratchDirectory, RegisterDirectory, RegisterVisualProcessAttempt,
     RegisterAttempt, BindReceipt, MarkVisualProcessGateReleased, TransitionVisualProcess,
     MoveProcess, ReleaseManifest, Fenced, IInv, TypeOK, Serving, Live
<1>1. TypeOK'
  <2>1. CASE MakeVisualScratch(u)
    BY <2>1, DispatchAssumption DEF SupState
  <2>2. CASE RegisterVisualScratch(u)
    BY <2>2, DispatchAssumption DEF SupState
  <2>3. CASE SpawnVisual(u)
    BY <2>3, DispatchAssumption DEF SupState
  <2>4. CASE RegisterVisual(u)
    BY <2>4, DispatchAssumption DEF SupState
  <2>5. CASE ReleaseVisual(u)
    BY <2>5, DispatchAssumption DEF SupState
  <2>6. CASE OpenVisualGate(u)
    BY <2>6, DispatchAssumption DEF SupState
  <2> QED BY <2>1, <2>2, <2>3, <2>4, <2>5, <2>6
<1>2. ASSUME NEW w \in Units PROVE UnitOK(w)'
  BY DEF UnitOK, RowsAgree, SupervisionAgrees, UnitOfRun, RunOK, LeaseClean, AtRest
<1>3. ASSUME NEW x \in Runs PROVE RunOK(x)'
  BY DEF UnitOK, SupervisionAgrees, UnitOfRun, RunOK, AtRest
<1>4. BackendOK'
  BY DEF RunOK, BackendOK, Lane
<1>5. ASSUME NEW x \in Runs PROVE RunPermitted(x)
  BY DEF UnitOK, RowsAgree, UnitOfRun, RunOK, RunPermitted
<1>6. ASSUME NEW w \in Units PROVE UnitPermitted(w)
  BY DEF UnitOK, RowsAgree, UnitOfRun, RunOK, UnitPermitted, UnitRun
<1> QED BY <1>1, <1>2, <1>3, <1>4, <1>5, <1>6 DEF Permitted, RunPermitted, UnitPermitted

LEMMA VisualFailsKeep ==
  ASSUME IInv, NEW u \in VisualUnits,
         \/ VisualScratchFails(u)
         \/ VisualNotSpawned(u)
         \/ VisualLaunchFails(u)
         \/ VisualLaunchClosed(u)
         \/ VisualTerminated(u)
         \/ VisualIsRefused(u)
  PROVE  IInv' /\ Permitted
<1> USE OneUnit DEF VisualScratchFails, VisualNotSpawned, VisualLaunchFails,
     VisualLaunchClosed, VisualTerminated, VisualIsRefused, VisualFails, Goes, Commits,
     Launches, GroupBecomes, MakeDirectory, Fail, FailAndStop, KillActive, IInv, TypeOK,
     Serving, Live
<1>1. TypeOK'
  <2>1. CASE VisualScratchFails(u)
    BY <2>1, DispatchAssumption DEF SupState
  <2>2. CASE VisualNotSpawned(u)
    BY <2>2, DispatchAssumption DEF SupState
  <2>3. CASE VisualLaunchFails(u)
    BY <2>3, DispatchAssumption DEF SupState
  <2>4. CASE VisualLaunchClosed(u)
    BY <2>4, DispatchAssumption DEF SupState
  <2>5. CASE VisualTerminated(u)
    BY <2>5, DispatchAssumption DEF SupState
  <2>6. CASE VisualIsRefused(u)
    BY <2>6, DispatchAssumption DEF SupState
  <2> QED BY <2>1, <2>2, <2>3, <2>4, <2>5, <2>6
<1>2. ASSUME NEW w \in Units PROVE UnitOK(w)'
  <2>1. CASE VisualScratchFails(u)
    <3>1. exec[UnitRun(u)] = "supervising" /\ RunOK(UnitRun(u))
      BY <2>1 DEF UnitOK, UnitOfRun, AtRest
    <3> QED BY <2>1, <3>1 DEF UnitOK, RowsAgree, SupervisionAgrees, UnitOfRun, RunOK,
         LeaseClean, AtRest
  <2>2. CASE VisualNotSpawned(u)
    BY <2>2 DEF UnitOK, RowsAgree, SupervisionAgrees, UnitOfRun, RunOK, LeaseClean, AtRest
  <2>3. CASE VisualLaunchFails(u)
    BY <2>3 DEF UnitOK, RowsAgree, SupervisionAgrees, UnitOfRun, RunOK, LeaseClean, AtRest
  <2>4. CASE VisualLaunchClosed(u)
    BY <2>4 DEF UnitOK, RowsAgree, SupervisionAgrees, UnitOfRun, RunOK, LeaseClean, AtRest
  <2>5. CASE VisualTerminated(u)
    BY <2>5 DEF UnitOK, RowsAgree, SupervisionAgrees, UnitOfRun, RunOK, LeaseClean, AtRest
  <2>6. CASE VisualIsRefused(u)
    BY <2>6 DEF UnitOK, RowsAgree, SupervisionAgrees, UnitOfRun, RunOK, LeaseClean, AtRest
  <2> QED BY <2>1, <2>2, <2>3, <2>4, <2>5, <2>6
<1>3. ASSUME NEW x \in Runs PROVE RunOK(x)'
  BY DEF UnitOK, SupervisionAgrees, UnitOfRun, RunOK, AtRest
<1>4. BackendOK'
  <2>1. CASE VisualScratchFails(u)
    <3>1. exec[UnitRun(u)] = "supervising" /\ RunOK(UnitRun(u))
      BY <2>1 DEF UnitOK, UnitOfRun, AtRest
    <3> QED BY <2>1, <3>1 DEF RunOK, BackendOK, Lane
  <2>2. CASE VisualNotSpawned(u)
    BY <2>2 DEF RunOK, BackendOK, Lane
  <2>3. CASE VisualLaunchFails(u)
    BY <2>3 DEF RunOK, BackendOK, Lane
  <2>4. CASE VisualLaunchClosed(u)
    BY <2>4 DEF RunOK, BackendOK, Lane
  <2>5. CASE VisualTerminated(u)
    BY <2>5 DEF RunOK, BackendOK, Lane
  <2>6. CASE VisualIsRefused(u)
    BY <2>6 DEF RunOK, BackendOK, Lane
  <2> QED BY <2>1, <2>2, <2>3, <2>4, <2>5, <2>6
<1>5. ASSUME NEW x \in Runs PROVE RunPermitted(x)
  BY DEF UnitOK, RowsAgree, UnitOfRun, RunOK, RunPermitted
<1>6. ASSUME NEW w \in Units PROVE UnitPermitted(w)
  BY DEF UnitOK, RowsAgree, UnitOfRun, RunOK, UnitPermitted, UnitRun
<1> QED BY <1>1, <1>2, <1>3, <1>4, <1>5, <1>6 DEF Permitted, RunPermitted, UnitPermitted

LEMMA VisualWorkKeeps ==
  ASSUME IInv, NEW u \in VisualUnits,
         \/ StartVisual(u)
         \/ RecordHealth(u)
         \/ StopVisual(u)
         \/ ServingEnds(u)
         \/ VisualCompletes(u)
  PROVE  IInv' /\ Permitted
<1> USE DEF StartVisual, RecordHealth, StopVisual, ServingEnds, VisualCompletes,
     MarkVisualProcessStarted, RecordVisualProcessHealth, TransitionVisualProcess,
     MoveProcess, Fenced, Goes, Commits, Launches, GroupBecomes, MakeDirectory, Fail,
     FailAndStop, KillActive, IInv, TypeOK, Serving, Live
<1>1. TypeOK'
  <2>1. CASE StartVisual(u)
    BY <2>1, DispatchAssumption DEF SupState
  <2>2. CASE RecordHealth(u)
    BY <2>2, DispatchAssumption DEF SupState
  <2>3. CASE StopVisual(u)
    BY <2>3, DispatchAssumption DEF SupState
  <2>4. CASE ServingEnds(u)
    BY <2>4, DispatchAssumption DEF SupState
  <2>5. CASE VisualCompletes(u)
    BY <2>5, DispatchAssumption DEF SupState
  <2> QED BY <2>1, <2>2, <2>3, <2>4, <2>5
<1>2. ASSUME NEW w \in Units PROVE UnitOK(w)'
  BY DEF UnitOK, RowsAgree, SupervisionAgrees, UnitOfRun, RunOK, LeaseClean, AtRest
<1>3. ASSUME NEW x \in Runs PROVE RunOK(x)'
  BY DEF UnitOK, SupervisionAgrees, UnitOfRun, RunOK, AtRest
<1>4. BackendOK'
  BY DEF RunOK, BackendOK, Lane
<1>5. ASSUME NEW x \in Runs PROVE RunPermitted(x)
  BY DEF UnitOK, RowsAgree, UnitOfRun, RunOK, RunPermitted
<1>6. ASSUME NEW w \in Units PROVE UnitPermitted(w)
  BY DEF UnitOK, RowsAgree, UnitOfRun, RunOK, UnitPermitted, UnitRun
<1> QED BY <1>1, <1>2, <1>3, <1>4, <1>5, <1>6 DEF Permitted, RunPermitted, UnitPermitted

LEMMA VisualEndKeeps ==
  ASSUME IInv, NEW u \in VisualUnits,
         \/ RecordVisualExit(u)
         \/ RecordVisualCleanup(u)
         \/ RecordUnlaunched(u)
  PROVE  IInv' /\ Permitted
<1> USE DEF RecordVisualExit, RecordVisualCleanup, RecordUnlaunched,
     RecordVisualProcessExit, FinalizeVisualProcessCleanup,
     FinalizeUnlaunchedVisualScratchLease, FinalizeUnlaunchedScratchLease, CloseLease,
     TransitionVisualProcess, MoveProcess, ExitManifest, CleanManifest, Fenced, Goes,
     Commits, Launches, GroupBecomes, MakeDirectory, Fail, FailAndStop, KillActive, IInv,
     TypeOK, Serving, Live
<1>1. TypeOK'
  <2>1. CASE RecordVisualExit(u)
    BY <2>1, DispatchAssumption DEF SupState
  <2>2. CASE RecordVisualCleanup(u)
    BY <2>2, DispatchAssumption DEF SupState
  <2>3. CASE RecordUnlaunched(u)
    BY <2>3, DispatchAssumption DEF SupState
  <2> QED BY <2>1, <2>2, <2>3
<1>2. ASSUME NEW w \in Units PROVE UnitOK(w)'
  BY DEF UnitOK, RowsAgree, SupervisionAgrees, UnitOfRun, RunOK, LeaseClean, AtRest
<1>3. ASSUME NEW x \in Runs PROVE RunOK(x)'
  BY DEF UnitOK, SupervisionAgrees, UnitOfRun, RunOK, AtRest
<1>4. BackendOK'
  BY DEF RunOK, BackendOK, Lane
<1>5. ASSUME NEW x \in Runs PROVE RunPermitted(x)
  BY DEF UnitOK, RowsAgree, UnitOfRun, RunOK, RunPermitted
<1>6. ASSUME NEW w \in Units PROVE UnitPermitted(w)
  BY DEF UnitOK, RowsAgree, UnitOfRun, RunOK, UnitPermitted, UnitRun
<1> QED BY <1>1, <1>2, <1>3, <1>4, <1>5, <1>6 DEF Permitted, RunPermitted, UnitPermitted

LEMMA VisualRunKeeps ==
  ASSUME IInv, NEW r \in VisualRuns,
         \/ VisualWallTimeout(r)
         \/ VisualReturns(r)
         \/ RemoveVisualScratch(r)
         \/ PublishVisual(r)
         \/ EndVisual(r)
  PROVE  IInv' /\ Permitted
<1> USE UnitsOfRuns, OneVisualUnit DEF VisualWallTimeout, VisualReturns, Settled, InFlight,
     RemoveVisualScratch, PublishVisual, EndVisual, Registered, CommitVisualRunSuccess,
     VisualEvidence, CommitSuccess, FinalizeVisualRunTerminal, CancelWonOr, EndRun, Unwound,
     ExecGoes, ProcessClean, Fenced, Fail, IInv, TypeOK, Serving, Live
<1>1. TypeOK'
  <2>1. CASE VisualWallTimeout(r)
    BY <2>1, DispatchAssumption DEF SupState
  <2>2. CASE VisualReturns(r)
    BY <2>2, DispatchAssumption DEF SupState
  <2>3. CASE RemoveVisualScratch(r)
    BY <2>3, DispatchAssumption DEF SupState
  <2>4. CASE PublishVisual(r)
    BY <2>4, DispatchAssumption DEF SupState
  <2>5. CASE EndVisual(r)
    BY <2>5, DispatchAssumption DEF SupState
  <2> QED BY <2>1, <2>2, <2>3, <2>4, <2>5
<1>2. ASSUME NEW w \in Units PROVE UnitOK(w)'
  BY DEF UnitOK, RowsAgree, SupervisionAgrees, UnitOfRun, RunOK, LeaseClean, AtRest
<1>3. ASSUME NEW x \in Runs PROVE RunOK(x)'
  <2>1. CASE VisualWallTimeout(r)
    BY <2>1 DEF UnitOK, SupervisionAgrees, UnitOfRun, RunOK, AtRest
  <2>2. CASE VisualReturns(r)
    BY <2>2 DEF UnitOK, SupervisionAgrees, UnitOfRun, RunOK, AtRest
  <2>3. CASE RemoveVisualScratch(r)
    BY <2>3 DEF UnitOK, SupervisionAgrees, UnitOfRun, RunOK, AtRest
  <2>4. CASE PublishVisual(r)
    <3>1. CASE x = r
      BY <2>4, <3>1 DEF RunOK
    <3>2. CASE x # r
      BY <2>4, <3>2 DEF RunOK
    <3> QED BY <3>1, <3>2
  <2>5. CASE EndVisual(r)
    BY <2>5 DEF UnitOK, SupervisionAgrees, UnitOfRun, RunOK, AtRest
  <2> QED BY <2>1, <2>2, <2>3, <2>4, <2>5
<1>4. BackendOK'
  <2>1. CASE VisualWallTimeout(r)
    BY <2>1 DEF RunOK, BackendOK, Lane
  <2>2. CASE VisualReturns(r)
    BY <2>2 DEF RunOK, BackendOK, Lane
  <2>3. CASE RemoveVisualScratch(r)
    BY <2>3 DEF RunOK, BackendOK, Lane
  <2>4. CASE PublishVisual(r)
    BY <2>4 DEF RunOK, BackendOK, Lane
  <2>5. CASE EndVisual(r)
    BY <2>5 DEF RunOK, BackendOK, Lane
  <2> QED BY <2>1, <2>2, <2>3, <2>4, <2>5
<1>5. ASSUME NEW x \in Runs PROVE RunPermitted(x)
  BY DEF UnitOK, RowsAgree, UnitOfRun, RunOK, RunPermitted
<1>6. ASSUME NEW w \in Units PROVE UnitPermitted(w)
  BY DEF UnitOK, RowsAgree, UnitOfRun, RunOK, UnitPermitted, UnitRun
<1> QED BY <1>1, <1>2, <1>3, <1>4, <1>5, <1>6 DEF Permitted, RunPermitted, UnitPermitted

(* The next sample is one of those that are left. *)

LEMMA LeastIsThere ==
  ASSUME NEW T \in SUBSET Nat, T # {}
  PROVE  \E x \in T : \A y \in T : x <= y
<1> DEFINE Less == OpToRel(<, Nat)
<1>1. IsWellFoundedOn(Less, Nat)
  BY NatLessThanWellFounded
<1>2. PICK x \in T : \A y \in T : ~(<<y, x>> \in Less)
  <2> HIDE DEF Less
  <2> QED BY <1>1, WFMin
<1>3. \A y \in T : y < x => <<y, x>> \in Less
  BY DEF OpToRel
<1>4. \A y \in T : ~(y < x)
  <2> HIDE DEF Less
  <2> QED BY <1>2, <1>3
<1> QED BY <1>4

LEMMA NextSampleIs ==
  ASSUME NEW r \in BatchRuns, Idle(r) # {}
  PROVE  NextSample(r) \in BatchUnits /\ UnitRun(NextSample(r)) = r
<1>1. Idle(r) \subseteq BatchUnits /\ \A u \in Idle(r) : UnitRun(u) = r /\ u[2] \in Nat
  BY DispatchAssumption DEF Idle, UnitsOf, Units, BatchUnits, VisualUnits, UnitRun
<1> DEFINE T == {u[2] : u \in Idle(r)}
<1>2. T \in SUBSET Nat /\ T # {}
  BY <1>1
<1>3. PICK n \in T : \A m \in T : n <= m
  <2> HIDE DEF T
  <2> QED BY <1>2, LeastIsThere
<1>4. \E u \in Idle(r) : \A x \in Idle(r) : u[2] <= x[2]
  BY <1>3
<1>5. NextSample(r) \in Idle(r)
  BY <1>4 DEF NextSample
<1> QED BY <1>1, <1>5

LEMMA PlanSampleKeeps ==
  ASSUME IInv, NEW r \in BatchRuns, PlanSample(r)
  PROVE  IInv' /\ Permitted
<1> DEFINE u == NextSample(r)
<1>0. u \in BatchUnits /\ UnitRun(u) = r
  BY NextSampleIs DEF PlanSample, WorkerFree
<1>a. /\ WorkerFree(r) /\ PrepareLaunch(u) /\ sup[u] = "idle"
      /\ sup' = [sup EXCEPT ![u] = "planned"] /\ UNCHANGED <<machine, backend, perRun>>
  BY DEF PlanSample, PrepareBatchProcessLaunch, Commits, Goes
<1> HIDE DEF u
<1> USE <1>0, <1>a DEF WorkerFree, PrepareLaunch, Fenced, IInv, TypeOK, Serving, Live
<1>1. TypeOK'
  BY DEF SupState
<1>2. ASSUME NEW w \in Units PROVE UnitOK(w)'
  BY DEF UnitOK, RowsAgree, SupervisionAgrees, UnitOfRun, RunOK, LeaseClean, AtRest
<1>3. ASSUME NEW x \in Runs PROVE RunOK(x)'
  BY DEF UnitOK, SupervisionAgrees, UnitOfRun, RunOK, AtRest
<1>4. BackendOK'
  BY DEF RunOK, BackendOK, Lane
<1>5. ASSUME NEW x \in Runs PROVE RunPermitted(x)
  BY DEF UnitOK, RowsAgree, UnitOfRun, RunOK, RunPermitted
<1>6. ASSUME NEW w \in Units PROVE UnitPermitted(w)
  BY DEF UnitOK, RowsAgree, UnitOfRun, RunOK, UnitPermitted, UnitRun
<1> QED BY <1>1, <1>2, <1>3, <1>4, <1>5, <1>6 DEF Permitted, RunPermitted, UnitPermitted

LEMMA PlanVisualKeeps ==
  ASSUME IInv, NEW r \in VisualRuns, PlanVisual(r)
  PROVE  IInv' /\ Permitted
<1> DEFINE u == VisualUnitOf(r)
<1>0. u \in VisualUnits /\ UnitRun(u) = r
  BY OneVisualUnit DEF PlanVisual, WorkerFree
<1>a. /\ WorkerFree(r) /\ PrepareLaunch(u) /\ sup[u] = "idle"
      /\ sup' = [sup EXCEPT ![u] = "planned"] /\ UNCHANGED <<machine, backend, perRun>>
  BY DEF PlanVisual, PrepareVisualProcessLaunch, Commits, Goes
<1> HIDE DEF u
<1> USE <1>0, <1>a DEF WorkerFree, PrepareLaunch, Fenced, IInv, TypeOK, Serving, Live
<1>1. TypeOK'
  BY DEF SupState
<1>2. ASSUME NEW w \in Units PROVE UnitOK(w)'
  BY DEF UnitOK, RowsAgree, SupervisionAgrees, UnitOfRun, RunOK, LeaseClean, AtRest
<1>3. ASSUME NEW x \in Runs PROVE RunOK(x)'
  BY DEF UnitOK, SupervisionAgrees, UnitOfRun, RunOK, AtRest
<1>4. BackendOK'
  BY DEF RunOK, BackendOK, Lane
<1>5. ASSUME NEW x \in Runs PROVE RunPermitted(x)
  BY DEF UnitOK, RowsAgree, UnitOfRun, RunOK, RunPermitted
<1>6. ASSUME NEW w \in Units PROVE UnitPermitted(w)
  BY DEF UnitOK, RowsAgree, UnitOfRun, RunOK, UnitPermitted, UnitRun
<1> QED BY <1>1, <1>2, <1>3, <1>4, <1>5, <1>6 DEF Permitted, RunPermitted, UnitPermitted

-----------------------------------------------------------------------------
LEMMA InitOK == Init => IInv /\ SchemaInit
<1> SUFFICES ASSUME Init PROVE IInv
  BY DEF Init
<1> USE DEF Init, SchemaInit
<1>1. TypeOK
  <2>1. 0 \in 0..MaxBoots
    BY DispatchAssumption
  <2> QED BY <2>1 DEF TypeOK, SupState
<1>2. \A u \in Units : UnitOK(u)
  BY DEF UnitOK, RowsAgree, SupervisionAgrees, UnitOfRun, AtRest, LeaseClean, Serving
<1>3. \A r \in Runs : RunOK(r)
  BY DEF RunOK, Serving, Live
<1>4. BackendOK
  BY DEF BackendOK, Serving
<1> QED BY <1>1, <1>2, <1>3, <1>4 DEF IInv

LEMMA NextKeeps == IInv /\ Next => IInv' /\ Permitted
<1> SUFFICES ASSUME IInv, Next PROVE IInv' /\ Permitted
  OBVIOUS
<1>1. CASE Commands
  BY <1>1, UsersKeep, StopKeeps DEF Commands
<1>2. CASE Mishaps
  BY <1>2, SampleFailsKeep, SampleWorkKeeps, VisualFailsKeep, VisualWorkKeeps,
       ExecutionKeeps DEF Mishaps, BatchMishaps, VisualMishaps
<1>3. CASE Dispatch
  BY <1>3, LanesKeep, ExecutionKeeps, LatchKeeps, DeathKeeps DEF Dispatch
<1>4. CASE BatchHandlers
  BY <1>4, PlanSampleKeeps, BatchRunKeeps, SampleLaunchKeeps, SampleFailsKeep,
       SampleWorkKeeps, SampleEndKeeps DEF BatchHandlers, BatchReacts
<1>5. CASE VisualHandlers
  BY <1>5, PlanVisualKeeps, VisualRunKeeps, VisualLaunchKeeps, VisualFailsKeep,
       VisualWorkKeeps, VisualEndKeeps DEF VisualHandlers, VisualReacts
<1>6. CASE Recovery
  BY <1>6, RecoveryKeeps, ActivationKeeps, RecoveredUnitsKeep DEF Recovery
<1>7. CASE Kills \/ Exits
  BY <1>7, ProcessesKeep DEF Kills, Exits
<1>8. CASE Crash \/ Boot
  BY <1>8, DeathKeeps
<1> QED BY <1>1, <1>2, <1>3, <1>4, <1>5, <1>6, <1>7, <1>8 DEF Next, Handlers

LEMMA StutterKeeps == IInv /\ UNCHANGED vars => IInv' /\ UNCHANGED rows
<1> SUFFICES ASSUME IInv, UNCHANGED vars PROVE IInv' /\ UNCHANGED rows
  OBVIOUS
<1> USE DEF vars
<1>1. TypeOK'
  BY DEF IInv, TypeOK, SupState
<1>2. ASSUME NEW w \in Units PROVE UnitOK(w)'
  BY DEF IInv, UnitOK, RowsAgree, SupervisionAgrees, UnitOfRun, LeaseClean, AtRest,
       Serving, Live
<1>3. ASSUME NEW x \in Runs PROVE RunOK(x)'
  BY DEF IInv, RunOK, Serving, Live
<1>4. BackendOK'
  BY DEF IInv, BackendOK, Serving, Live, Lane
<1>5. UNCHANGED rows
  BY DEF rows
<1> QED BY <1>1, <1>2, <1>3, <1>4, <1>5 DEF IInv

LEMMA AlwaysIInv == Spec => []IInv
<1>1. IInv /\ [Next]_vars => IInv'
  BY NextKeeps, StutterKeeps
<1> QED BY <1>1, InitOK, PTL DEF Spec

\* A computation always has an open process row, an active lease and a Run whose attempt
\* is live; a gated helper or a scratch directory has an open lease; a latched failure
\* leaves a live attempt; every live attempt is the dispatcher's own, one in a lane: so
\* whatever dies between two transactions of the dispatcher, the supervisors or a
\* recovery, the next recovery finds it.  A start is refused only over a recovery that is
\* recorded as failed.
THEOREM NothingIsLostTheorem == Spec => []NothingIsLost
<1>1. IInv => NothingIsLost
  <2> SUFFICES ASSUME IInv PROVE NothingIsLost
    OBVIOUS
  <2>1. GateBeforeWork
    BY DEF IInv, UnitOK, RowsAgree, UnitOfRun, RunOK, Live, TypeOK, GateBeforeWork
  <2>2. NothingUnleased
    BY DEF IInv, UnitOK, RowsAgree, TypeOK, NothingUnleased
  <2>3. LatchLeavesEvidence
    BY DEF IInv, BackendOK, Serving, Live, LatchLeavesEvidence
  <2>4. OneOwner
    BY DEF IInv, BackendOK, RunOK, Serving, Live, OneOwner, Lane, Runs
  <2>5. RefusalsAreRecorded
    BY DEF IInv, BackendOK
  <2> QED BY <2>1, <2>2, <2>3, <2>4, <2>5 DEF NothingIsLost, IInv
<1> QED BY <1>1, AlwaysIInv, PTL

\* A Run that ended left no process, no open process row and, if it was visual, no lease
\* and no directory; it published outputs exactly if it succeeded, which nobody cancelled
\* and every one of its processes confirmed, however its samples, deadlines, aborts and
\* recoveries ran into each other.
THEOREM EndsAreTrueTheorem == Spec => []EndsAreTrue
<1>1. IInv => EndsAreTrue
  <2> SUFFICES ASSUME IInv PROVE EndsAreTrue
    OBVIOUS
  <2>1. EndedRunsAreClean
    <3> SUFFICES ASSUME NEW r \in Runs, status[r] \in Terminal, NEW u \in UnitsOf(r)
                 PROVE  /\ os[u] \notin {"working", "dying"}
                        /\ process[u] \in {"none", "cleanup_complete"}
                        /\ r \in VisualRuns => lease[u] \in {"none", "cleanup_complete"} /\ ~dir[u]
      BY DEF EndedRunsAreClean
    <3>1. u \in Units /\ UnitRun(u) = r /\ ~Live(r)
      BY UnitsOfRuns DEF IInv, RunOK
    <3>2. process[u] \in {"none", "cleanup_complete"}
      BY <3>1 DEF IInv, TypeOK, UnitOK, UnitOfRun
    <3> QED BY <3>1, <3>2 DEF IInv, TypeOK, UnitOK, RowsAgree, UnitOfRun, LeaseClean
  <2>2. OutputsOnlyOfSuccess
    BY UnitsOfRuns DEF IInv, UnitOK, UnitOfRun, RunOK, OutputsOnlyOfSuccess
  <2> QED BY <2>1, <2>2 DEF EndsAreTrue
<1> QED BY <1>1, AlwaysIInv, PTL

\* Every transaction of the dispatcher, the supervisors and the recovery is a step that
\* the triggers of product-schema.ts let through: the
\* comparisons the store makes before it commits leave nothing for the schema to refuse.
THEOREM SchemaTheorem == Spec => SchemaSpec
<1>1. Init => SchemaInit
  BY DEF Init
<1>2. IInv /\ [Next]_vars => [Permitted]_rows
  BY NextKeeps, StutterKeeps
<1> QED BY <1>1, <1>2, AlwaysIInv, PTL DEF Spec, SchemaSpec
=============================================================================
