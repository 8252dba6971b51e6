----------------------------- MODULE ProjectRuns -----------------------------
(***************************************************************************)
(* The Project-only execution core: the durable Store rows that describe a *)
(* Project's workspace, Experiment, Runs and execution lock, together with *)
(* the two in-process runtimes (batch and visual) that carry a Run from    *)
(* admission to its terminal record.                                       *)
(*                                                                         *)
(* Durable state survives a crash of the backend, runtime state does not.  *)
(* Every action is one synchronous stretch of the Node.js event loop: the  *)
(* code between two awaits.  Store transactions are synchronous, so each   *)
(* is contained in one action.                                             *)
(*                                                                         *)
(* A workspace digest stands for the workspace it is the digest of (files, *)
(* run mode and execution description), a Run id for the command id it is  *)
(* derived from, an Experiment configuration for the row that holds it.    *)
(***************************************************************************)
EXTENDS Naturals

CONSTANTS
  Projects,     \* Project ids
  Runs,         \* Run ids, each derived from one start command
  Writes,       \* command ids of Project file writes
  Digests,      \* workspace contents, named by their digest
  Configs,      \* Experiment configurations
  RunMode,      \* the run mode a workspace declares: batch, visual or both
  ConfigKind,   \* the run kind a configuration is planned for
  None,         \* "no row", "no holder"
  MaxStops      \* bound: how often the backend stops in one behaviour

Kinds == {"batch", "visual"}

ASSUME NoneAssumption == None \notin Runs
ASSUME RunModeAssumption == RunMode \in [Digests -> Kinds \cup {"both"}]
ASSUME ConfigKindAssumption == ConfigKind \in [Configs -> Kinds]
ASSUME MaxStopsAssumption == MaxStops \in Nat

VARIABLES
  workspace,    \* projects.workspace_digest
  experiment,   \* experiment_configurations.configuration_json
  status,       \* runs.status, "absent" before the row exists
  frozen,       \* what the Run row froze at admission
  completion,   \* status written in run_completion_records, or "none"
  outputs,      \* Runs with rows in run_outputs
  lock,         \* execution_locks: the holder of each Project's lock
  receipt,      \* Writes with a row in project_delivery_receipts
  intent,       \* what the caller of a write asks for, retries included
  backend,      \* the server process
  stage,        \* how far the runtime's attempt at a Run has come
  abort,        \* reason of the attempt's AbortSignal, or "none"
  outcome,      \* what the supervisor reported
  healthy,      \* ActiveVisual.healthy
  ready,        \* ActiveVisual.ready, the promise visual start awaits
  stops         \* how often the backend stopped (bounds the model)

storeVars   == <<workspace, experiment, status, frozen, completion, outputs,
                 lock, receipt>>
runtimeVars == <<stage, abort, outcome, healthy, ready>>
vars        == <<workspace, experiment, status, frozen, completion, outputs,
                 lock, receipt, intent, backend, stage, abort, outcome,
                 healthy, ready, stops>>

Active   == {"queued", "running", "cancelling"}
Terminal == {"succeeded", "failed", "cancelled", "timed_out", "interrupted"}
Status   == {"absent"} \cup Active \cup Terminal
Reported == {"succeeded", "failed", "timed_out"}
Outcomes == Reported \cup {"threw"}
Stages   == {"none", "launching", "registered", "settled", "published"}
Reasons  == {"user_cancelled", "backend_shutdown"}
WriteIntent == [project : Projects, before : Digests, after : Digests]
Admission == [project : Projects, kind : Kinds, digest : Digests,
              config : Configs]

ProjectOf(r)  == frozen[r].project
KindOf(r)     == frozen[r].kind
IsActive(r)   == status[r] \in Active
Attempted(r)  == stage[r] # "none"
Up            == backend \in {"serving", "closing", "closingVisual"}

(***************************************************************************)
(* The Store: rows in, rows out.                                           *)
(***************************************************************************)
Init ==
  /\ workspace \in [Projects -> Digests]
  /\ experiment \in [Projects -> Configs]
  /\ status = [r \in Runs |-> "absent"]
  /\ frozen = [r \in Runs |-> None]
  /\ completion = [r \in Runs |-> "none"]
  /\ outputs = {}
  /\ lock = [p \in Projects |-> None]
  /\ receipt = {}
  /\ intent = [w \in Writes |-> None]
  /\ backend = "stopped"
  /\ stage = [r \in Runs |-> "none"]
  /\ abort = [r \in Runs |-> "none"]
  /\ outcome = [r \in Runs |-> "none"]
  /\ healthy = [r \in Runs |-> FALSE]
  /\ ready = [r \in Runs |-> "none"]
  /\ stops = 0

\* A Run row may be inserted: no lock, no other active Run (unique index),
\* and the Run kind is one the workspace declares.
ModeAllows(p, k) == RunMode[workspace[p]] \in {k, "both"}

MayAdmit(p, k) ==
  /\ lock[p] = None
  /\ \A q \in Runs : IsActive(q) => ProjectOf(q) # p
  /\ ModeAllows(p, k)

\* One transaction inserts the Run with what it freezes, and its lock; the
\* row is left in status s by the synchronous code that follows.
InsertRun(r, p, k, s) ==
  /\ frozen' = [frozen EXCEPT ![r] =
       [project |-> p, kind |-> k, digest |-> workspace[p],
        config |-> experiment[p]]]
  /\ status' = [status EXCEPT ![r] = s]
  /\ lock' = [lock EXCEPT ![p] = r]

KeepLock(r) == UNCHANGED lock
ReleaseLock(r) ==
  lock' = [p \in Projects |-> IF lock[p] = r THEN None ELSE lock[p]]

\* Only a Run that is not terminal yet takes a result.
StillOpen(r) == IsActive(r)

\* commitBatchRunResult and commitVisualRunResult: outputs, completion
\* record, terminal status and lock release in one transaction.
CommitResult(r, s, published) ==
  IF StillOpen(r)
    THEN /\ status' = [status EXCEPT ![r] = s]
         /\ completion' = [completion EXCEPT ![r] = s]
         /\ outputs' = IF published THEN outputs \cup {r} ELSE outputs
         /\ ReleaseLock(r)
    ELSE UNCHANGED <<status, completion, outputs, lock>>

\* failRunStart: a start that failed after admission.
FailRunStart(r) == CommitResult(r, "failed", FALSE)

(***************************************************************************)
(* The runtimes: the attempt a backend process makes at a Run.             *)
(***************************************************************************)

\* The synchronous prefix of #execute: materialise the Project files and hand
\* them to the supervisor, unless the workspace drifted from the frozen one.
Launch(r, p, readiness) ==
  LET drifted == workspace[p] # frozen'[r].digest IN
  /\ stage' = [stage EXCEPT ![r] = IF drifted THEN "settled" ELSE "launching"]
  /\ outcome' = [outcome EXCEPT ![r] = IF drifted THEN "threw" ELSE "none"]
  /\ abort' = [abort EXCEPT ![r] = "none"]
  /\ healthy' = [healthy EXCEPT ![r] = FALSE]
  /\ ready' = [ready EXCEPT ![r] = readiness]

\* A start command whose Run row exists with the same intent.  The runtime
\* joins a live attempt and refuses a Run that is no longer queued; the
\* caller then reports the refusal through failRunStart.
ReplayedStart(r) ==
  IF Attempted(r)
    THEN UNCHANGED <<status, completion, outputs, lock>>
    ELSE FailRunStart(r)

SameIntent(r, p, k) ==
  /\ status[r] # "absent"
  /\ ProjectOf(r) = p
  /\ KindOf(r) = k
  /\ frozen[r].digest = workspace[p]

\* POST /runs and the batch half of riff_start_project_run: admission, the
\* transition to running and the launch happen without an await in between.
StartBatchRun(r, p) ==
  /\ backend = "serving"
  /\ ConfigKind[experiment[p]] = "batch"
  /\ status[r] = "absent"
  /\ MayAdmit(p, "batch")
  /\ InsertRun(r, p, "batch", "running")
  /\ Launch(r, p, "none")
  /\ UNCHANGED <<workspace, experiment, completion, outputs, receipt, intent,
                 backend, stops>>

\* The visual half of riff_start_project_run: the Run stays queued until the
\* process proves healthy, and the tool call waits for that.
StartVisualRun(r, p) ==
  /\ backend = "serving"
  /\ ConfigKind[experiment[p]] = "visual"
  /\ status[r] = "absent"
  /\ MayAdmit(p, "visual")
  /\ InsertRun(r, p, "visual", "queued")
  /\ Launch(r, p, "pending")
  /\ UNCHANGED <<workspace, experiment, completion, outputs, receipt, intent,
                 backend, stops>>

\* The same start command once more: a retry after a lost response.
RetryStart(r, p, k) ==
  /\ backend = "serving"
  /\ ConfigKind[experiment[p]] = k
  /\ SameIntent(r, p, k)
  /\ ReplayedStart(r)
  /\ UNCHANGED <<workspace, experiment, frozen, receipt, intent, backend,
                 runtimeVars, stops>>

\* Supervisor hook registerProcess: the visual process has a port.
RegisterProcess(r) ==
  /\ Up
  /\ stage[r] = "launching"
  /\ KindOf(r) = "visual"
  /\ abort[r] = "none"
  /\ stage' = [stage EXCEPT ![r] = "registered"]
  /\ UNCHANGED <<storeVars, intent, backend, abort, outcome, healthy, ready,
                 stops>>

\* Supervisor hook recordHealth: publishes running and answers the start.
RecordHealth(r) ==
  /\ Up
  /\ stage[r] = "registered"
  /\ abort[r] = "none"
  /\ ~healthy[r]
  /\ status[r] \in {"queued", "running"}
  /\ status' = [status EXCEPT ![r] = "running"]
  /\ healthy' = [healthy EXCEPT ![r] = TRUE]
  /\ ready' = [ready EXCEPT ![r] = IF @ = "pending" THEN "resolved" ELSE @]
  /\ UNCHANGED <<workspace, experiment, frozen, completion, outputs, lock,
                 receipt, intent, backend, stage, abort, outcome, stops>>

\* The supervisor's promise settles: a report, or an exception.  A visual
\* process succeeds only after its health was recorded, and the wall-clock
\* limits of the Run make this happen sooner or later.
SupervisorSettles(r, o) ==
  /\ Up
  /\ stage[r] \in {"launching", "registered"}
  /\ o = "succeeded" /\ KindOf(r) = "visual" => ready[r] # "pending"
  /\ stage' = [stage EXCEPT ![r] = "settled"]
  /\ outcome' = [outcome EXCEPT ![r] = o]
  /\ UNCHANGED <<storeVars, intent, backend, abort, healthy, ready, stops>>

AbortStatus(reason) ==
  IF reason = "backend_shutdown" THEN "interrupted" ELSE "cancelled"

\* What the rest of #execute commits: an abort that arrived before it ran
\* overrides whatever the supervisor reported.
ReportedStatus(r) == IF outcome[r] = "threw" THEN "failed" ELSE outcome[r]
FinalStatus(r) ==
  IF abort[r] # "none" THEN AbortStatus(abort[r]) ELSE ReportedStatus(r)

PublishesOutputs(r) == outcome[r] = "succeeded" /\ abort[r] = "none"

MarkUnhealthy(r) == healthy' = [healthy EXCEPT ![r] = FALSE]

\* #rejectReady: only a start that still waits is rejected.
RejectStart(r) ==
  ready' = [ready EXCEPT ![r] = IF @ = "pending" THEN "rejected" ELSE @]

\* The rest of #execute, resumed after the supervisor settled.  It commits
\* first and only then rejects a start that is still waiting.  Consuming the
\* candidates or cleaning up may throw, which commits a failure instead.
PublishResult(r) ==
  /\ Up
  /\ stage[r] = "settled"
  /\ \/ CommitResult(r, FinalStatus(r), PublishesOutputs(r))
     \/ /\ abort[r] = "none"
        /\ CommitResult(r, "failed", FALSE)
  /\ stage' = [stage EXCEPT ![r] = "published"]
  /\ MarkUnhealthy(r)
  /\ RejectStart(r)
  /\ UNCHANGED <<workspace, experiment, frozen, receipt, intent, backend,
                 abort, outcome, stops>>

\* The finally of start removes the attempt from #active.
SupervisionOver(r) == stage[r] \in {"settled", "published"}
AttemptOver(r) == stage[r] = "published"

AttemptEnds(r) ==
  /\ Up
  /\ AttemptOver(r)
  /\ stage' = [stage EXCEPT ![r] = "none"]
  /\ abort' = [abort EXCEPT ![r] = "none"]
  /\ outcome' = [outcome EXCEPT ![r] = "none"]
  /\ UNCHANGED <<storeVars, intent, backend, healthy, ready, stops>>

\* The tool call that waits for a visual start sees the rejection.
StartRejected(r) ==
  /\ Up
  /\ ready[r] = "rejected"
  /\ FailRunStart(r)
  /\ ready' = [ready EXCEPT ![r] = "none"]
  /\ UNCHANGED <<workspace, experiment, frozen, receipt, intent, backend,
                 stage, abort, outcome, healthy, stops>>

FirstReason(r, reason) ==
  abort' = [abort EXCEPT ![r] = IF @ = "none" THEN reason ELSE @]

\* Cancel of a Run no attempt works on.  Batch cancel takes a queued Run
\* straight to cancelled, visual stop commits a result without a process.
CancelDetached(r) ==
  /\ UNCHANGED runtimeVars
  /\ IF KindOf(r) = "visual"
       THEN CommitResult(r, "cancelled", FALSE)
       ELSE IF status[r] = "queued"
              THEN /\ status' = [status EXCEPT ![r] = "cancelled"]
                   /\ ReleaseLock(r)
                   /\ UNCHANGED <<completion, outputs>>
              ELSE UNCHANGED <<status, completion, outputs, lock>>

\* Cancel of a Run with an attempt: mark it, then abort the attempt.  Visual
\* stop answers a terminal Run without touching the attempt.
CancelAttempt(r) ==
  /\ UNCHANGED <<completion, outputs, lock, stage, outcome, ready>>
  /\ IF KindOf(r) = "visual" /\ ~IsActive(r)
       THEN UNCHANGED <<status, abort, healthy>>
       ELSE /\ status' = [status EXCEPT ![r] =
                 IF @ = "running" THEN "cancelling" ELSE @]
            /\ MarkUnhealthy(r)
            /\ FirstReason(r, "user_cancelled")

CancelRun(r) ==
  /\ backend = "serving"
  /\ status[r] # "absent"
  /\ IF Attempted(r) THEN CancelAttempt(r) ELSE CancelDetached(r)
  /\ UNCHANGED <<workspace, experiment, frozen, receipt, intent, backend,
                 stops>>

(***************************************************************************)
(* Edits that race with Runs.                                              *)
(***************************************************************************)

\* PATCH of the Experiment: nothing ties it to the execution lock.
UpdateExperiment(p, c) ==
  /\ backend = "serving"
  /\ experiment' = [experiment EXCEPT ![p] = c]
  /\ UNCHANGED <<workspace, status, frozen, completion, outputs, lock,
                 receipt, intent, backend, runtimeVars, stops>>

\* A caller reads the workspace and makes up a write against what it read.
PrepareWrite(w, p, d) ==
  /\ intent[w] = None
  /\ intent' = [intent EXCEPT ![w] =
       [project |-> p, before |-> workspace[p], after |-> d]]
  /\ UNCHANGED <<storeVars, backend, runtimeVars, stops>>

NeverReplayed(w) == FALSE
Replayed(w) == w \in receipt

CurrentBefore(w) == workspace[intent[w].project] = intent[w].before
MayCommit(w) ==
  /\ lock[intent[w].project] = None
  /\ workspace[intent[w].project] = intent[w].before

\* writeProjectFiles, possibly long after and possibly again: a command with
\* a receipt is replayed, any other is applied to exactly the workspace the
\* caller read and only while no Run holds the Project.
SubmitWrite(w) ==
  /\ backend = "serving"
  /\ intent[w] # None
  /\ IF Replayed(w)
       THEN UNCHANGED <<workspace, receipt>>
       ELSE /\ MayCommit(w)
            /\ workspace' = [workspace EXCEPT
                 ![intent[w].project] = intent[w].after]
            /\ receipt' = receipt \cup {w}
  /\ UNCHANGED <<experiment, status, frozen, completion, outputs, lock,
                 intent, backend, runtimeVars, stops>>

(***************************************************************************)
(* Stop and start of the backend process.                                  *)
(***************************************************************************)
NoAttempts ==
  /\ stage' = [r \in Runs |-> "none"]
  /\ abort' = [r \in Runs |-> "none"]
  /\ outcome' = [r \in Runs |-> "none"]
  /\ healthy' = [r \in Runs |-> FALSE]
  /\ ready' = [r \in Runs |-> "none"]

\* The process dies: whatever only its memory held is gone.
Crash ==
  /\ Up
  /\ stops < MaxStops
  /\ stops' = stops + 1
  /\ backend' = "crashed"
  /\ NoAttempts
  /\ UNCHANGED <<storeVars, intent>>

AbortAll(k) ==
  /\ abort' = [r \in Runs |->
       IF Attempted(r) /\ KindOf(r) = k /\ abort[r] = "none"
         THEN "backend_shutdown" ELSE abort[r]]
  /\ healthy' = [r \in Runs |->
       healthy[r] /\ ~(k = "visual" /\ Attempted(r) /\ KindOf(r) = k)]
  /\ UNCHANGED <<stage, outcome, ready>>

\* An orderly stop: no more requests, abort the batch attempts, ...
CloseBatch ==
  /\ backend = "serving"
  /\ stops < MaxStops
  /\ stops' = stops + 1
  /\ backend' = "closing"
  /\ AbortAll("batch")
  /\ UNCHANGED <<storeVars, intent>>

\* ... then, when they are all gone, the visual ones, ...
CloseVisual ==
  /\ backend = "closing"
  /\ \A r \in Runs : Attempted(r) => KindOf(r) # "batch"
  /\ backend' = "closingVisual"
  /\ AbortAll("visual")
  /\ UNCHANGED <<storeVars, intent, stops>>

RuntimesDrained == \A r \in Runs : ~Attempted(r)

\* ... and the Store last, when nothing is left that would write to it.
CloseStore ==
  /\ backend = "closingVisual"
  /\ RuntimesDrained
  /\ backend' = "stopped"
  /\ NoAttempts
  /\ UNCHANGED <<storeVars, intent, stops>>

StartedAndLocked(r) ==
  status[r] \in {"running", "cancelling"} /\ \E p \in Projects : lock[p] = r
Interrupted(r) == IsActive(r) /\ \E p \in Projects : lock[p] = r

\* Startup: every active Run that holds a lock is interrupted with a
\* completion record, then all locks go, in one transaction.
Startup ==
  /\ backend \in {"stopped", "crashed"}
  /\ status' = [r \in Runs |->
       IF Interrupted(r) THEN "interrupted" ELSE status[r]]
  /\ completion' = [r \in Runs |->
       IF Interrupted(r) THEN "interrupted" ELSE completion[r]]
  /\ lock' = [p \in Projects |-> None]
  /\ backend' = "serving"
  /\ UNCHANGED <<workspace, experiment, frozen, outputs, receipt, intent,
                 runtimeVars, stops>>

Next ==
  \/ \E r \in Runs, p \in Projects :
       StartBatchRun(r, p) \/ StartVisualRun(r, p)
  \/ \E r \in Runs, p \in Projects, k \in Kinds : RetryStart(r, p, k)
  \/ \E r \in Runs : RegisterProcess(r)
  \/ \E r \in Runs : RecordHealth(r)
  \/ \E r \in Runs, o \in Outcomes : SupervisorSettles(r, o)
  \/ \E r \in Runs : PublishResult(r)
  \/ \E r \in Runs : AttemptEnds(r)
  \/ \E r \in Runs : StartRejected(r)
  \/ \E r \in Runs : CancelRun(r)
  \/ \E p \in Projects, c \in Configs : UpdateExperiment(p, c)
  \/ \E w \in Writes, p \in Projects, d \in Digests : PrepareWrite(w, p, d)
  \/ \E w \in Writes : SubmitWrite(w)
  \/ Crash \/ CloseBatch \/ CloseVisual \/ CloseStore \/ Startup

Spec == Init /\ [][Next]_vars

(***************************************************************************)
(* Fairness.  The supervisors enforce wall-clock limits, so a supervision  *)
(* settles; what follows a settled promise is run by the event loop; the   *)
(* service manager restarts a backend that crashed (Restart=on-failure).   *)
(* Nothing restarts a backend that was stopped in order.                   *)
(***************************************************************************)
Fairness ==
  /\ \A r \in Runs :
       /\ WF_vars(\E o \in Outcomes : SupervisorSettles(r, o))
       /\ WF_vars(PublishResult(r))
       /\ WF_vars(AttemptEnds(r))
  /\ WF_vars(backend = "crashed" /\ Startup)

FairSpec == Spec /\ Fairness

(***************************************************************************)
(* Properties.                                                             *)
(***************************************************************************)

\* Every variable stays in the set its column or field ranges over.
TypeOK ==
  /\ workspace \in [Projects -> Digests]
  /\ experiment \in [Projects -> Configs]
  /\ status \in [Runs -> Status]
  /\ frozen \in [Runs -> Admission \cup {None}]
  /\ \A r \in Runs : status[r] # "absent" => frozen[r] \in Admission
  /\ completion \in [Runs -> Terminal \cup {"none"}]
  /\ outputs \subseteq Runs
  /\ lock \in [Projects -> Runs \cup {None}]
  /\ receipt \subseteq Writes
  /\ intent \in [Writes -> WriteIntent \cup {None}]
  /\ backend \in {"stopped", "crashed", "serving", "closing", "closingVisual"}
  /\ stage \in [Runs -> Stages]
  /\ abort \in [Runs -> Reasons \cup {"none"}]
  /\ outcome \in [Runs -> Outcomes \cup {"none"}]
  /\ healthy \in [Runs -> BOOLEAN]
  /\ ready \in [Runs -> {"none", "pending", "resolved", "rejected"}]
  /\ stops \in Nat

\* The execution lock and the Run rows never disagree: an active Run holds
\* the lock of its own Project, and a held lock names an active Run of it.
\* A leaked lock would close the Project for good; a Run without one would
\* let the workspace change under it.
LockMatchesRun ==
  /\ \A p \in Projects : lock[p] # None =>
       /\ IsActive(lock[p])
       /\ ProjectOf(lock[p]) = p
  /\ \A r \in Runs : IsActive(r) => lock[ProjectOf(r)] = r

\* From admission to its terminal record a Run executes the workspace that
\* is still the Project's current one, and of a kind that workspace and the
\* frozen configuration both declare, whatever was edited meanwhile.
FrozenWhileActive ==
  \A r \in Runs : IsActive(r) =>
    /\ workspace[ProjectOf(r)] = frozen[r].digest
    /\ RunMode[frozen[r].digest] \in {KindOf(r), "both"}
    /\ ConfigKind[frozen[r].config] = KindOf(r)

\* Every terminal Run carries a completion record that says the same as its
\* status, no other Run has one, and outputs exist exactly for a success: a
\* cancelled, failed or interrupted Run never shows partial results.
TerminalEvidence ==
  \A r \in Runs :
    /\ completion[r] = IF status[r] \in Terminal THEN status[r] ELSE "none"
    /\ r \in outputs <=> status[r] = "succeeded"

\* While the backend is up, the Runs the Store calls active are exactly those
\* some attempt is going to commit a result for.  (So the paths that cancel a
\* Run no attempt works on, or fail one on a retried start, find none.)
NoOrphanedRun ==
  Up => \A r \in Runs :
          IsActive(r) <=> stage[r] \in {"launching", "registered", "settled"}

\* An orderly stop leaves nothing behind: every Run has its terminal record
\* and every lock is free before the Store is closed.
CleanStop ==
  backend = "stopped" =>
    /\ \A r \in Runs : ~IsActive(r)
    /\ \A p \in Projects : lock[p] = None

\* #isLive: the broker may proxy browser frames to the visual process.
TargetLive(r) ==
  /\ stage[r] \in {"registered", "settled", "published"}
  /\ healthy[r]
  /\ abort[r] = "none"

\* A frame target is live only while its Run is running and holds the
\* Project: never after a cancel was accepted, a result was committed, or
\* for a process of an earlier backend.
LiveTargetIsRunning ==
  \A r \in Runs : TargetLive(r) =>
    /\ status[r] = "running"
    /\ lock[ProjectOf(r)] = r

AttemptCoherent(r) ==
  /\ Attempted(r) \/ ready[r] # "none" => Up /\ status[r] # "absent"
  /\ stage[r] = "settled" => outcome[r] # "none"
  /\ stage[r] = "registered" => KindOf(r) = "visual"
  /\ healthy[r] =>
       /\ stage[r] \in {"registered", "settled"}
       /\ status[r] = "running" \/ abort[r] # "none"
  /\ status[r] = "queued" /\ Up => ready[r] = "pending"
  /\ ready[r] = "pending" => IsActive(r)
  /\ ready[r] = "rejected" => status[r] \in Terminal
  /\ status[r] = "cancelling" /\ Up => abort[r] = "user_cancelled"
  /\ abort[r] = "backend_shutdown" => backend \in {"closing", "closingVisual"}

\* The attempts themselves are coherent: only a live backend has any; each is
\* at a Run of the kind its stage belongs to; what settled has an outcome; a
\* queued Run's start is still unanswered; an attempt is only aborted for a
\* shutdown during one; and as long as the process lives, a cancelling Run has
\* the user's cancel, no later reason, as its abort.
AttemptsCoherent == \A r \in Runs : AttemptCoherent(r)

\* An accepted cancel wins over a result that was already on its way: a
\* cancelling Run ends cancelled, or interrupted if the backend dies first.
CancelWins ==
  [][\A r \in Runs : status[r] = "cancelling" =>
       \/ status'[r] \in {"cancelling", "cancelled"}
       \/ status'[r] = "interrupted" /\ backend = "crashed"]_vars

\* Once terminal, a Run's row, evidence and outputs never change again,
\* whichever retry, late rejection, cancel or restart comes after.
TerminalIsFinal ==
  [][\A r \in Runs : status[r] \in Terminal =>
       /\ status'[r] = status[r]
       /\ frozen'[r] = frozen[r]
       /\ completion'[r] = completion[r]
       /\ r \in outputs <=> r \in outputs']_vars

\* Each command changes the workspace at most once, and only the workspace
\* its caller read: a change is always the first commit of one command with
\* that command's before and after, even if a later write restored the
\* content an earlier command was made up against.
WritesApplyOnce ==
  [][\A p \in Projects : workspace'[p] # workspace[p] =>
       \E w \in receipt' \ receipt :
         intent[w] = [project |-> p, before |-> workspace[p],
                      after |-> workspace'[p]]]_vars

\* The rows of the Store agree with each other in every state a crash can leave:
\* locks with active Runs, those with the workspace they execute, and ended
\* Runs with their completion records and outputs.
StoreAgrees ==
  TypeOK /\ LockMatchesRun /\ FrozenWhileActive /\ TerminalEvidence

\* What this process does agrees with the rows of the Store: every active Run
\* has the attempt that will end it, no frame target outlives its Run, and an
\* orderly stop leaves nothing to end.
AttemptsAgree ==
  NoOrphanedRun /\ LiveTargetIsRunning /\ AttemptsCoherent /\ CleanStop

\* A Run ends once and as it was asked to: a cancel that was accepted is not
\* overtaken by a result on its way, and nothing that comes late changes a
\* terminal Run.
ResultsAreFinal == CancelWins /\ TerminalIsFinal

\* Every admitted Run reaches a terminal status (and so frees its Project),
\* through crashes, restarts and orderly stops.
RunsEnd == []<>(\A r \in Runs : ~IsActive(r))

\* The tool call that waits for a visual process to become healthy is always
\* answered, or its backend is gone.
StartsAnswered == []<>(\A r \in Runs : ready[r] # "pending")

\* Nobody waits for ever, neither a Project for its Run nor a caller for a start.
EverythingEnds == RunsEnd /\ StartsAnswered

\* The refinement: verdict is status with the active ones drawn together.
Promise == INSTANCE ExclusiveRuns WITH
  content   <- workspace,
  holder    <- lock,
  verdict   <- [r \in Runs |-> IF IsActive(r) THEN "open" ELSE status[r]],
  evidence  <- completion,
  published <- outputs

\* The runtimes, the Store and the restart path together keep the promise of
\* ExclusiveRuns.
KeepsPromise == Promise!Spec
==============================================================================
