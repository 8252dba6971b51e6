-------------------------- MODULE ProjectRunsProofs --------------------------
(***************************************************************************)
(* The safety of ProjectRuns for every set of Projects, Runs, writes and   *)
(* workspaces, and every bound on the number of stops; and that of the     *)
(* commands of the historical Store, RunRecords, for every set of commands *)
(* and every bound on the trash.                                           *)
(*                                                                         *)
(* The properties of ProjectRuns are one inductive invariant together:     *)
(* that a held lock names an active Run needs the completion evidence to   *)
(* be in step, that nothing is orphaned needs the attempts to be coherent, *)
(* and so on.  One lemma per action shows that it keeps all of them.       *)
(***************************************************************************)
EXTENDS ProjectRuns, RunRecords, SequenceTheorems, TLAPS

IInv ==
  /\ TypeOK
  /\ LockMatchesRun
  /\ FrozenWhileActive
  /\ TerminalEvidence
  /\ NoOrphanedRun
  /\ AttemptsCoherent
  /\ CleanStop

\* A step that changes nothing keeps the invariant.
LEMMA StutterKeeps == ASSUME IInv, UNCHANGED vars PROVE IInv'
  BY DEF IInv, vars, TypeOK, LockMatchesRun, FrozenWhileActive,
     TerminalEvidence, NoOrphanedRun, AttemptsCoherent, IsActive, ProjectOf,
     KindOf, Attempted, Up, AttemptCoherent, CleanStop

\* Admitting a batch Run takes the free lock with the row it inserts.
LEMMA StartBatchRunKeeps ==
  ASSUME IInv, NEW r \in Runs, NEW p \in Projects,
         StartBatchRun(r, p)
  PROVE  IInv'
<1>1. TypeOK'
  BY DEF IInv, TypeOK, StartBatchRun, InsertRun, Launch, Kinds, Active,
     Status, Stages, Admission
<1>2. LockMatchesRun'
  BY DEF IInv, TypeOK, LockMatchesRun, StartBatchRun, MayAdmit, InsertRun,
     Active, ProjectOf, IsActive
<1>3. FrozenWhileActive'
  BY DEF IInv, TypeOK, FrozenWhileActive, StartBatchRun, MayAdmit, ModeAllows,
     InsertRun, ProjectOf, KindOf, IsActive
<1>4. TerminalEvidence'
  BY DEF IInv, TerminalEvidence, StartBatchRun, InsertRun, Terminal
<1>5. NoOrphanedRun'
  BY DEF IInv, TypeOK, NoOrphanedRun, StartBatchRun, InsertRun, Launch,
     Active, IsActive, Up
<1>6. AttemptsCoherent'
  BY DEF IInv, TypeOK, AttemptsCoherent, StartBatchRun, InsertRun, Launch,
     KindOf, IsActive, Attempted, Up, AttemptCoherent
<1>7. CleanStop'
  BY DEF CleanStop, StartBatchRun
<1> QED BY <1>1, <1>2, <1>3, <1>4, <1>5, <1>6, <1>7 DEF IInv

\* Admitting a visual Run does the same, and starts with a pending promise.
LEMMA StartVisualRunKeeps ==
  ASSUME IInv, NEW r \in Runs, NEW p \in Projects,
         StartVisualRun(r, p)
  PROVE  IInv'
<1>1. TypeOK'
  BY DEF IInv, TypeOK, StartVisualRun, InsertRun, Launch, Kinds, Active,
     Status, Stages, Admission
<1>2. LockMatchesRun'
  BY DEF IInv, TypeOK, LockMatchesRun, StartVisualRun, MayAdmit, InsertRun,
     Active, ProjectOf, IsActive
<1>3. FrozenWhileActive'
  BY DEF IInv, TypeOK, FrozenWhileActive, StartVisualRun, MayAdmit,
     ModeAllows, InsertRun, ProjectOf, KindOf, IsActive
<1>4. TerminalEvidence'
  BY DEF IInv, TerminalEvidence, StartVisualRun, InsertRun, Terminal
<1>5. NoOrphanedRun'
  BY DEF IInv, TypeOK, NoOrphanedRun, StartVisualRun, InsertRun, Launch,
     Active, IsActive, Up
<1>6. AttemptsCoherent'
  BY DEF IInv, TypeOK, AttemptsCoherent, StartVisualRun, InsertRun, Launch,
     Active, KindOf, IsActive, Attempted, Up, AttemptCoherent
<1>7. CleanStop'
  BY DEF CleanStop, StartVisualRun
<1> QED BY <1>1, <1>2, <1>3, <1>4, <1>5, <1>6, <1>7 DEF IInv

\* A process that registers belongs to an attempt that is still wanted.
LEMMA RegisterProcessKeeps ==
  ASSUME IInv, NEW r \in Runs,
         RegisterProcess(r)
  PROVE  IInv'
<1>1. TypeOK'
  BY DEF IInv, TypeOK, RegisterProcess, storeVars, Stages
<1>2. NoOrphanedRun'
  BY DEF IInv, NoOrphanedRun, RegisterProcess, storeVars, IsActive
<1>3. AttemptsCoherent'
  BY DEF IInv, AttemptsCoherent, RegisterProcess, storeVars, KindOf, IsActive,
     Attempted, Up, AttemptCoherent
<1>4. LockMatchesRun' /\ FrozenWhileActive' /\ TerminalEvidence' /\ CleanStop'
  BY DEF IInv, LockMatchesRun, FrozenWhileActive, TerminalEvidence, CleanStop,
     RegisterProcess, storeVars, ProjectOf, KindOf, IsActive
<1> QED BY <1>1, <1>2, <1>3, <1>4 DEF IInv

\* The first healthy frame moves a queued visual Run to running.
LEMMA RecordHealthKeeps ==
  ASSUME IInv, NEW r \in Runs,
         RecordHealth(r)
  PROVE  IInv'
<1>1. TypeOK'
  BY DEF IInv, TypeOK, RecordHealth, Active, Status
<1>2. LockMatchesRun' /\ FrozenWhileActive'
  BY DEF IInv, LockMatchesRun, FrozenWhileActive, RecordHealth,
     Active, ProjectOf, KindOf, IsActive
<1>3. TerminalEvidence'
  BY DEF IInv, TerminalEvidence, RecordHealth, Terminal
<1>4. NoOrphanedRun'
  BY DEF IInv, NoOrphanedRun, RecordHealth, Active, IsActive
<1>5. AttemptsCoherent'
  BY DEF IInv, TypeOK, AttemptsCoherent, RecordHealth, KindOf, IsActive,
     Attempted, Up, AttemptCoherent
<1>6. CleanStop'
  BY DEF IInv, NoOrphanedRun, CleanStop, RecordHealth
<1> QED BY <1>1, <1>2, <1>3, <1>4, <1>5, <1>6 DEF IInv

\* A supervisor that settles leaves the outcome for the runtime to publish.
LEMMA SupervisorSettlesKeeps ==
  ASSUME IInv, NEW r \in Runs, NEW o \in Outcomes,
         SupervisorSettles(r, o)
  PROVE  IInv'
<1>1. TypeOK'
  BY DEF IInv, TypeOK, SupervisorSettles, storeVars, Stages
<1>2. NoOrphanedRun'
  BY DEF IInv, NoOrphanedRun, SupervisorSettles, storeVars, IsActive
<1>3. AttemptsCoherent'
  BY DEF IInv, TypeOK, AttemptsCoherent, SupervisorSettles, storeVars,
     Reported, Outcomes, KindOf, IsActive, Attempted, Up, AttemptCoherent
<1>4. LockMatchesRun' /\ FrozenWhileActive' /\ TerminalEvidence' /\ CleanStop'
  BY DEF IInv, LockMatchesRun, FrozenWhileActive, TerminalEvidence, CleanStop,
     SupervisorSettles, storeVars, ProjectOf, KindOf, IsActive
<1> QED BY <1>1, <1>2, <1>3, <1>4 DEF IInv

\* An attempt is forgotten only once its Run is terminal.
LEMMA AttemptEndsKeeps ==
  ASSUME IInv, NEW r \in Runs,
         AttemptEnds(r)
  PROVE  IInv'
<1>1. TypeOK'
  BY DEF IInv, TypeOK, AttemptEnds, storeVars, Stages
<1>2. NoOrphanedRun'
  BY DEF IInv, NoOrphanedRun, AttemptEnds, AttemptOver, storeVars, IsActive
<1>3. AttemptsCoherent'
  BY DEF IInv, NoOrphanedRun, AttemptsCoherent, AttemptEnds, AttemptOver,
     storeVars, Active, KindOf, IsActive, Attempted, Up, AttemptCoherent
<1>4. LockMatchesRun' /\ FrozenWhileActive' /\ TerminalEvidence' /\ CleanStop'
  BY DEF IInv, LockMatchesRun, FrozenWhileActive, TerminalEvidence, CleanStop,
     AttemptEnds, storeVars, ProjectOf, KindOf, IsActive
<1> QED BY <1>1, <1>2, <1>3, <1>4 DEF IInv

\* The experiment may change under a Run: the Run keeps its frozen copy.
LEMMA UpdateExperimentKeeps ==
  ASSUME IInv, NEW p \in Projects, NEW c \in Configs,
         UpdateExperiment(p, c)
  PROVE  IInv'
<1>1. TypeOK'
  BY DEF IInv, TypeOK, UpdateExperiment, runtimeVars
<1>2. /\ LockMatchesRun' /\ FrozenWhileActive' /\ TerminalEvidence'
      /\ NoOrphanedRun' /\ AttemptsCoherent' /\ CleanStop'
  BY DEF IInv, LockMatchesRun, FrozenWhileActive, TerminalEvidence,
     NoOrphanedRun, AttemptsCoherent, CleanStop, UpdateExperiment,
     runtimeVars, ProjectOf, KindOf, IsActive, Attempted, Up, AttemptCoherent
<1> QED BY <1>1, <1>2 DEF IInv

\* Preparing a write touches no Run.
LEMMA PrepareWriteKeeps ==
  ASSUME IInv, NEW w \in Writes, NEW p \in Projects,
         NEW d \in Digests,
         PrepareWrite(w, p, d)
  PROVE  IInv'
<1>1. TypeOK'
  BY DEF IInv, TypeOK, PrepareWrite, storeVars, runtimeVars, WriteIntent
<1>2. /\ LockMatchesRun' /\ FrozenWhileActive' /\ TerminalEvidence'
      /\ NoOrphanedRun' /\ AttemptsCoherent' /\ CleanStop'
  BY DEF IInv, LockMatchesRun, FrozenWhileActive, TerminalEvidence,
     NoOrphanedRun, AttemptsCoherent, CleanStop, PrepareWrite, storeVars,
     runtimeVars, ProjectOf, KindOf, IsActive, Attempted, Up, AttemptCoherent
<1> QED BY <1>1, <1>2 DEF IInv

\* A write commits only while the Project has no lock, so no Run executes it.
LEMMA SubmitWriteKeeps ==
  ASSUME IInv, NEW w \in Writes,
         SubmitWrite(w)
  PROVE  IInv'
<1>1. TypeOK'
  BY DEF IInv, TypeOK, SubmitWrite, runtimeVars, WriteIntent
<1>2. FrozenWhileActive'
  BY NoneAssumption DEF IInv, TypeOK, LockMatchesRun, FrozenWhileActive,
     NoOrphanedRun, AttemptsCoherent, SubmitWrite, MayCommit, Admission,
     ProjectOf, KindOf, IsActive, Attempted, Up, AttemptCoherent
<1>3. /\ LockMatchesRun' /\ TerminalEvidence' /\ NoOrphanedRun'
      /\ AttemptsCoherent' /\ CleanStop'
  BY DEF IInv, LockMatchesRun, TerminalEvidence, NoOrphanedRun,
     AttemptsCoherent, CleanStop, SubmitWrite, runtimeVars, ProjectOf, KindOf,
     IsActive, Attempted, Up, AttemptCoherent
<1> QED BY <1>1, <1>2, <1>3 DEF IInv

\* A crash forgets every attempt and leaves the Store as it is.
LEMMA CrashKeeps ==
  ASSUME IInv, Crash
  PROVE  IInv'
<1>1. TypeOK'
  BY DEF IInv, TypeOK, Crash, NoAttempts, storeVars, Stages
<1>2. NoOrphanedRun'
  BY DEF NoOrphanedRun, Crash, Up
<1>3. AttemptsCoherent'
  BY DEF AttemptsCoherent, Crash, NoAttempts, Attempted, Up, AttemptCoherent
<1>4. LockMatchesRun' /\ FrozenWhileActive' /\ TerminalEvidence' /\ CleanStop'
  BY DEF IInv, LockMatchesRun, FrozenWhileActive, TerminalEvidence, CleanStop,
     Crash, storeVars, ProjectOf, KindOf, IsActive
<1> QED BY <1>1, <1>2, <1>3, <1>4 DEF IInv

\* An orderly stop aborts the batch attempts first.
LEMMA CloseBatchKeeps ==
  ASSUME IInv, CloseBatch
  PROVE  IInv'
<1>1. TypeOK'
  BY DEF IInv, TypeOK, CloseBatch, AbortAll, storeVars, Reasons
<1>2. NoOrphanedRun'
  BY DEF IInv, NoOrphanedRun, CloseBatch, AbortAll, storeVars, IsActive, Up
<1>3. AttemptsCoherent'
  BY DEF IInv, TypeOK, AttemptsCoherent, CloseBatch, AbortAll, storeVars,
     KindOf, IsActive, Attempted, Up, AttemptCoherent
<1>4. LockMatchesRun' /\ FrozenWhileActive' /\ TerminalEvidence' /\ CleanStop'
  BY DEF IInv, LockMatchesRun, FrozenWhileActive, TerminalEvidence, CleanStop,
     CloseBatch, storeVars, ProjectOf, KindOf, IsActive
<1> QED BY <1>1, <1>2, <1>3, <1>4 DEF IInv

\* Then it aborts the visual attempts.
LEMMA CloseVisualKeeps ==
  ASSUME IInv, CloseVisual
  PROVE  IInv'
<1>1. TypeOK'
  BY DEF IInv, TypeOK, CloseVisual, AbortAll, storeVars, Reasons
<1>2. NoOrphanedRun'
  BY DEF IInv, NoOrphanedRun, CloseVisual, AbortAll, storeVars, IsActive, Up
<1>3. AttemptsCoherent'
  BY DEF IInv, TypeOK, AttemptsCoherent, CloseVisual, AbortAll, storeVars,
     KindOf, IsActive, Attempted, Up, AttemptCoherent
<1>4. LockMatchesRun' /\ FrozenWhileActive' /\ TerminalEvidence' /\ CleanStop'
  BY DEF IInv, LockMatchesRun, FrozenWhileActive, TerminalEvidence, CleanStop,
     CloseVisual, storeVars, ProjectOf, KindOf, IsActive
<1> QED BY <1>1, <1>2, <1>3, <1>4 DEF IInv

\* The Store closes once both runtimes have drained, with no Run left active.
LEMMA CloseStoreKeeps ==
  ASSUME IInv, CloseStore
  PROVE  IInv'
<1>1. TypeOK'
  BY DEF IInv, TypeOK, CloseStore, NoAttempts, RuntimesDrained, storeVars,
     Attempted
<1>2. NoOrphanedRun'
  BY DEF NoOrphanedRun, CloseStore, Up
<1>3. AttemptsCoherent'
  BY DEF AttemptsCoherent, CloseStore, NoAttempts, Attempted, Up,
     AttemptCoherent
<1>4. CleanStop'
  BY DEF IInv, TypeOK, LockMatchesRun, NoOrphanedRun, CleanStop, CloseStore,
     RuntimesDrained, storeVars, IsActive, Attempted, Up
<1>5. LockMatchesRun' /\ FrozenWhileActive' /\ TerminalEvidence'
  BY DEF IInv, LockMatchesRun, FrozenWhileActive, TerminalEvidence,
     CloseStore, storeVars, ProjectOf, KindOf, IsActive
<1> QED BY <1>1, <1>2, <1>3, <1>4, <1>5 DEF IInv

\* A retried start never changes anything: a live attempt is joined, and
\* where there is none the Run is terminal, so failRunStart is a no-op.
LEMMA RetryStartChangesNothing ==
  ASSUME IInv, NEW r \in Runs, NEW p \in Projects, NEW k \in Kinds,
         RetryStart(r, p, k)
  PROVE  UNCHANGED vars
<1>1. Attempted(r) \/ ~IsActive(r)
  BY DEF IInv, NoOrphanedRun, RetryStart, Up, Attempted
<1> QED
  BY <1>1 DEF RetryStart, ReplayedStart, FailRunStart, CommitResult,
     StillOpen,
     vars, runtimeVars

\* What a published result is: a terminal status for an active Run, with
\* outputs exactly if it succeeded.
LEMMA PublishedResult ==
  ASSUME IInv, NEW r \in Runs, PublishResult(r)
  PROVE  /\ IsActive(r)
         /\ \E s \in Terminal, b \in BOOLEAN :
              /\ b <=> s = "succeeded"
              /\ CommitResult(r, s, b)
<1>1. IsActive(r)
  BY DEF IInv, NoOrphanedRun, PublishResult
<1>2. FinalStatus(r) \in Terminal
  BY DEF IInv, TypeOK, AttemptsCoherent, AttemptCoherent, PublishResult,
     FinalStatus, AbortStatus, ReportedStatus, Outcomes, Reported, Reasons,
     Terminal
<1>3. FinalStatus(r) = "succeeded" <=> PublishesOutputs(r)
  BY DEF IInv, TypeOK, FinalStatus, AbortStatus, ReportedStatus,
     PublishesOutputs, Reasons
<1> QED BY <1>1, <1>2, <1>3 DEF PublishResult, PublishesOutputs, Terminal

\* Publishing a result makes status, evidence and lock change together.
LEMMA PublishResultKeeps ==
  ASSUME IInv, NEW r \in Runs, PublishResult(r)
  PROVE  IInv'
<1>1. IsActive(r)
  BY PublishedResult
<1>2. PICK s \in Terminal, b \in BOOLEAN :
        /\ b <=> s = "succeeded"
        /\ CommitResult(r, s, b)
  BY PublishedResult
<1>3. TypeOK'
  <2>1. /\ status' = [status EXCEPT ![r] = s]
        /\ completion' = [completion EXCEPT ![r] = s]
        /\ outputs' \subseteq outputs \cup {r}
        /\ ReleaseLock(r)
    BY <1>1, <1>2 DEF CommitResult, StillOpen
  <2>2. /\ status' \in [Runs -> Status]
        /\ \A q \in Runs : status'[q] # "absent" => frozen'[q] \in Admission
    BY <1>1, <2>1 DEF IInv, TypeOK, PublishResult, Status, IsActive, Active
  <2>3. /\ completion' \in [Runs -> Terminal \cup {"none"}]
        /\ outputs' \subseteq Runs
        /\ lock' \in [Projects -> Runs \cup {None}]
    BY <2>1 DEF IInv, TypeOK, ReleaseLock
  <2>4. /\ stage' \in [Runs -> Stages]
        /\ healthy' \in [Runs -> BOOLEAN]
        /\ ready' \in [Runs -> {"none", "pending", "resolved", "rejected"}]
    BY DEF IInv, TypeOK, PublishResult, MarkUnhealthy, RejectStart, Stages
  <2> QED
    BY <2>2, <2>3, <2>4 DEF IInv, TypeOK, PublishResult
<1>4. LockMatchesRun'
  BY <1>2 DEF IInv, TypeOK, LockMatchesRun, PublishResult, CommitResult,
     ReleaseLock, Active, Terminal, Admission, ProjectOf, IsActive
<1>5. FrozenWhileActive'
  BY DEF IInv, TypeOK, FrozenWhileActive, NoOrphanedRun, PublishResult,
     CommitResult, ProjectOf, KindOf, IsActive
<1>6. TerminalEvidence'
  BY <1>2 DEF IInv, TypeOK, TerminalEvidence, NoOrphanedRun, PublishResult,
     CommitResult, Active, IsActive
<1>7. NoOrphanedRun'
  BY <1>2 DEF IInv, TypeOK, NoOrphanedRun, PublishResult, CommitResult,
     StillOpen, Active, Terminal, IsActive
<1>8. AttemptsCoherent'
  BY <1>2 DEF IInv, TypeOK, AttemptsCoherent, PublishResult, CommitResult,
     StillOpen, MarkUnhealthy, RejectStart, Terminal, KindOf, IsActive,
     Attempted, Up, AttemptCoherent
<1>9. CleanStop'
  BY DEF CleanStop, PublishResult, Up
<1> QED BY <1>3, <1>4, <1>5, <1>6, <1>7, <1>8, <1>9 DEF IInv

\* A rejected start finds its Run terminal already: only the promise changes.
LEMMA StartRejectedKeeps ==
  ASSUME IInv, NEW r \in Runs, StartRejected(r)
  PROVE  IInv'
<1>1. UNCHANGED <<status, completion, outputs, lock>>
  BY DEF IInv, AttemptsCoherent, AttemptCoherent, StartRejected, FailRunStart,
     CommitResult,
     StillOpen, IsActive, Active, Terminal
<1>2. TypeOK'
  BY <1>1 DEF IInv, TypeOK, StartRejected
<1>3. NoOrphanedRun' /\ AttemptsCoherent'
  BY <1>1 DEF IInv, TypeOK, NoOrphanedRun, AttemptsCoherent, AttemptCoherent,
     StartRejected, Attempted, Up, IsActive, KindOf
<1>4. LockMatchesRun' /\ FrozenWhileActive' /\ TerminalEvidence'
  BY <1>1 DEF IInv, LockMatchesRun, FrozenWhileActive, TerminalEvidence,
     StartRejected, IsActive, ProjectOf, KindOf
<1>5. CleanStop'
  BY DEF CleanStop, StartRejected, Up
<1> QED BY <1>2, <1>3, <1>4, <1>5 DEF IInv

\* A cancel marks both the row and the attempt, or finds a terminal Run.
LEMMA CancelRunKeeps ==
  ASSUME IInv, NEW r \in Runs, CancelRun(r)
  PROVE  IInv'
<1>1. CASE ~Attempted(r)
  <2>1. ~IsActive(r)
    BY <1>1 DEF IInv, NoOrphanedRun, CancelRun, Up, Attempted
  <2>2. UNCHANGED vars
    BY <1>1, <2>1 DEF CancelRun, CancelDetached, CommitResult, StillOpen,
       IsActive, Active, vars, runtimeVars
  <2> QED BY <2>2, StutterKeeps
<1>2. CASE CancelAttempt(r)
  <2>1. TypeOK'
    <3>1. /\ status' \in [Runs -> Status]
          /\ \A q \in Runs : status'[q] # "absent" => frozen'[q] \in Admission
      BY <1>2 DEF IInv, TypeOK, CancelRun, CancelAttempt, Status, Active
    <3>2. /\ abort' \in [Runs -> Reasons \cup {"none"}]
          /\ healthy' \in [Runs -> BOOLEAN]
      BY <1>2 DEF IInv, TypeOK, CancelAttempt, MarkUnhealthy, FirstReason,
         Reasons
    <3> QED BY <1>2, <3>1, <3>2 DEF IInv, TypeOK, CancelRun, CancelAttempt
  <2>2. LockMatchesRun'
    BY <1>2 DEF IInv, TypeOK, LockMatchesRun, CancelRun, CancelAttempt,
       Active, ProjectOf, IsActive
  <2>3. FrozenWhileActive'
    BY <1>2 DEF IInv, TypeOK, FrozenWhileActive, CancelRun, CancelAttempt,
       Terminal, Status, ProjectOf, KindOf, IsActive
  <2>4. TerminalEvidence'
    BY <1>2 DEF IInv, TypeOK, TerminalEvidence, CancelAttempt, Terminal
  <2>5. NoOrphanedRun'
    BY <1>2 DEF IInv, TypeOK, NoOrphanedRun, CancelRun, CancelAttempt, Active,
       IsActive, Up
  <2>6. AttemptsCoherent'
    <3>1. ASSUME NEW q \in Runs, q # r PROVE AttemptCoherent(q)'
      BY <1>2, <3>1 DEF IInv, TypeOK, AttemptsCoherent, CancelRun,
         CancelAttempt, MarkUnhealthy, FirstReason, AttemptCoherent,
         Attempted, Up, IsActive, KindOf
    <3> SUFFICES AttemptCoherent(r)'
      BY <3>1 DEF AttemptsCoherent
    <3>2. AttemptCoherent(r)
      BY DEF IInv, AttemptsCoherent
    <3>3. UNCHANGED <<stage, outcome, ready, frozen, backend>>
      BY <1>2 DEF CancelRun, CancelAttempt
    <3>4. CASE KindOf(r) = "visual" /\ ~IsActive(r)
      <4>1. UNCHANGED <<status, abort, healthy>>
        BY <1>2, <3>4 DEF CancelAttempt
      <4> QED
        BY <3>2, <3>3, <4>1 DEF AttemptCoherent, Attempted, Up, IsActive,
           KindOf, Active, Terminal
    <3>5. CASE ~(KindOf(r) = "visual" /\ ~IsActive(r))
      <4>1. /\ status'[r] = IF status[r] = "running" THEN "cancelling"
                            ELSE status[r]
            /\ ~healthy'[r]
            /\ abort'[r] = IF abort[r] = "none" THEN "user_cancelled"
                           ELSE abort[r]
        BY <1>2, <3>5 DEF IInv, TypeOK, CancelAttempt, MarkUnhealthy,
           FirstReason
      <4>2. abort'[r] = "user_cancelled"
        BY <3>2, <4>1 DEF IInv, TypeOK, AttemptCoherent, CancelRun, Reasons
      <4> QED BY <3>2, <3>3, <4>1, <4>2 DEF AttemptCoherent, Attempted, Up,
         IsActive, KindOf, Active, Terminal
    <3> QED BY <3>4, <3>5
  <2>7. CleanStop'
    BY DEF CleanStop, CancelRun
  <2> QED BY <2>1, <2>2, <2>3, <2>4, <2>5, <2>6, <2>7 DEF IInv
<1> QED BY <1>1, <1>2 DEF CancelRun

\* A restart interrupts what the crash orphaned and frees its locks.
LEMMA StartupKeeps ==
  ASSUME IInv, Startup
  PROVE  IInv'
<1>1. TypeOK'
  <2>1. /\ status' \in [Runs -> Status]
        /\ \A r \in Runs : status'[r] = "absent" <=> status[r] = "absent"
    BY DEF IInv, TypeOK, Startup, Interrupted, IsActive, Active, Status,
       Terminal
  <2>2. /\ completion' \in [Runs -> Terminal \cup {"none"}]
        /\ lock' \in [Projects -> Runs \cup {None}]
    BY DEF IInv, TypeOK, Startup, Terminal
  <2> QED BY <2>1, <2>2 DEF IInv, TypeOK, Startup, runtimeVars
<1>2. \A r \in Runs : ~IsActive(r)'
  BY DEF IInv, TypeOK, LockMatchesRun, Startup, Interrupted, IsActive, Active,
     ProjectOf, Admission
<1>3. LockMatchesRun' /\ FrozenWhileActive'
  BY <1>2 DEF LockMatchesRun, FrozenWhileActive, Startup
<1>4. TerminalEvidence'
  BY DEF IInv, TypeOK, TerminalEvidence, Startup, Interrupted, IsActive,
     Active, Terminal
<1>5. \A r \in Runs : ~Attempted(r)
  BY DEF IInv, AttemptsCoherent, AttemptCoherent, Startup, Up
<1>6. NoOrphanedRun'
  BY <1>2, <1>5 DEF NoOrphanedRun, Startup, runtimeVars, Attempted
<1>7. AttemptsCoherent'
  <2> SUFFICES ASSUME NEW r \in Runs PROVE AttemptCoherent(r)'
    BY DEF AttemptsCoherent
  <2>1. /\ AttemptCoherent(r)
        /\ stage'[r] = "none" /\ backend' = "serving" /\ ~IsActive(r)'
        /\ status[r] \in Terminal => status'[r] \in Terminal
    BY <1>2, <1>5 DEF IInv, AttemptsCoherent, Attempted, Startup, runtimeVars,
       Terminal
  <2>2. ready'[r] = "none" /\ ~healthy'[r] /\ abort'[r] # "backend_shutdown"
    BY <2>1, <1>5 DEF AttemptCoherent, Startup, Up, runtimeVars, Attempted
  <2> QED
    BY <2>1, <2>2 DEF AttemptCoherent, Attempted, Up, IsActive, Active,
       Terminal
<1>8. CleanStop'
  BY DEF CleanStop, Startup
<1> QED BY <1>1, <1>3, <1>4, <1>6, <1>7, <1>8 DEF IInv

\* An empty Store satisfies the invariant.
LEMMA InitEstablishes == Init => IInv
<1> SUFFICES ASSUME Init PROVE IInv
  OBVIOUS
<1>1. TypeOK
  BY MaxStopsAssumption DEF Init, TypeOK, Status, Stages, Active, Terminal
<1>2. LockMatchesRun /\ FrozenWhileActive /\ TerminalEvidence
  BY DEF Init, LockMatchesRun, FrozenWhileActive, TerminalEvidence, IsActive,
     Active, Terminal
<1>3. NoOrphanedRun /\ AttemptsCoherent /\ CleanStop
  BY DEF Init, NoOrphanedRun, AttemptsCoherent, CleanStop, IsActive,
     Attempted, Up, Active,
     AttemptCoherent
<1> QED BY <1>1, <1>2, <1>3 DEF IInv

\* So every step keeps it.
LEMMA NextKeeps == ASSUME IInv, [Next]_vars PROVE IInv'
  BY StartBatchRunKeeps, StartVisualRunKeeps, RetryStartChangesNothing,
     RegisterProcessKeeps, RecordHealthKeeps, SupervisorSettlesKeeps,
     PublishResultKeeps, AttemptEndsKeeps, StartRejectedKeeps, CancelRunKeeps,
     UpdateExperimentKeeps, PrepareWriteKeeps, SubmitWriteKeeps, CrashKeeps,
     CloseBatchKeeps, CloseVisualKeeps, CloseStoreKeeps, StartupKeeps,
     StutterKeeps DEF Next

\* The inductive invariant holds in every reachable state.
THEOREM Invariance == Spec => []IInv
<1>1. IInv /\ [Next]_vars => IInv'
  BY NextKeeps
<1> QED BY InitEstablishes, <1>1, PTL DEF Spec

\* Every variable keeps its type.
THEOREM TypeCorrectness == Spec => []TypeOK
<1>1. IInv => TypeOK
  BY DEF IInv
<1> QED BY Invariance, <1>1, PTL

\* The execution lock and the Run rows never disagree.
THEOREM LocksMatch == Spec => []LockMatchesRun
<1>1. IInv => LockMatchesRun
  BY DEF IInv
<1> QED BY Invariance, <1>1, PTL

\* An active Run executes the workspace its Project still has.
THEOREM WorkspaceFrozen == Spec => []FrozenWhileActive
<1>1. IInv => FrozenWhileActive
  BY DEF IInv
<1> QED BY Invariance, <1>1, PTL

\* Status, completion record and outputs always tell the same story.
THEOREM EvidenceComplete == Spec => []TerminalEvidence
<1>1. IInv => TerminalEvidence
  BY DEF IInv
<1> QED BY Invariance, <1>1, PTL

\* A backend that is up works on exactly the Runs the Store calls active.
THEOREM NoOrphans == Spec => []NoOrphanedRun
<1>1. IInv => NoOrphanedRun
  BY DEF IInv
<1> QED BY Invariance, <1>1, PTL

\* The attempts of the runtimes are coherent with the Run rows.
THEOREM Coherence == Spec => []AttemptsCoherent
<1>1. IInv => AttemptsCoherent
  BY DEF IInv
<1> QED BY Invariance, <1>1, PTL

\* An orderly stop leaves no active Run and no held lock.
THEOREM StopsClean == Spec => []CleanStop
<1>1. IInv => CleanStop
  BY DEF IInv
<1> QED BY Invariance, <1>1, PTL

\* Browser frames only ever reach a process whose Run is running.
THEOREM LiveTargets == Spec => []LiveTargetIsRunning
<1>1. IInv => LiveTargetIsRunning
  BY DEF IInv, LockMatchesRun, AttemptsCoherent, AttemptCoherent,
     LiveTargetIsRunning, TargetLive, IsActive, Active
<1> QED BY Invariance, <1>1, PTL

\* An accepted cancel is never overtaken by a result that was on its way.
THEOREM CancelPrevails == Spec => CancelWins
<1> DEFINE Wins(r) == status[r] = "cancelling" =>
      \/ status'[r] \in {"cancelling", "cancelled"}
      \/ status'[r] = "interrupted" /\ backend = "crashed"
<1>1. ASSUME IInv, Next, NEW r \in Runs PROVE Wins(r)
  <2> SUFFICES ASSUME status[r] = "cancelling" PROVE Wins(r)
    OBVIOUS
  <2>1. Up => abort[r] = "user_cancelled"
    BY <1>1 DEF IInv, AttemptsCoherent, AttemptCoherent
  <2>2. ASSUME NEW q \in Runs, PublishResult(q) PROVE Wins(r)
    BY <1>1, <2>1, <2>2 DEF IInv, TypeOK, PublishResult, CommitResult,
       FinalStatus,
       AbortStatus
  <2>3. ASSUME NEW q \in Runs, CancelRun(q) PROVE Wins(r)
    BY <1>1, <2>3 DEF IInv, TypeOK, NoOrphanedRun, CancelRun, CancelAttempt,
       CancelDetached, CommitResult, StillOpen, Attempted, Up
  <2>4. ASSUME NEW q \in Runs, StartRejected(q) PROVE Wins(r)
    BY <1>1, <2>4 DEF IInv, TypeOK, AttemptsCoherent, AttemptCoherent,
       StartRejected, FailRunStart, CommitResult, StillOpen, IsActive, Active,
       Terminal
  <2>5. ASSUME NEW q \in Runs, NEW p \in Projects, NEW k \in Kinds,
               RetryStart(q, p, k)
        PROVE  Wins(r)
    BY <1>1, <2>5, RetryStartChangesNothing DEF vars
  <2>6. ASSUME NEW q \in Runs, NEW p \in Projects,
               StartBatchRun(q, p) \/ StartVisualRun(q, p)
        PROVE  Wins(r)
    BY <1>1, <2>6 DEF IInv, TypeOK, StartBatchRun, StartVisualRun, InsertRun
  <2>7. ASSUME NEW q \in Runs, RecordHealth(q) PROVE Wins(r)
    BY <1>1, <2>7 DEF IInv, TypeOK, RecordHealth
  <2>8. CASE Startup
    <3>1. backend = "crashed"
      BY <1>1, <2>8 DEF IInv, CleanStop, Startup, IsActive, Active
    <3> QED BY <2>8, <3>1 DEF Startup
  <2>9. CASE UNCHANGED status
    BY <2>9
  <2> QED
    BY <1>1, <2>2, <2>3, <2>4, <2>5, <2>6, <2>7, <2>8, <2>9 DEF Next,
       RegisterProcess, SupervisorSettles, AttemptEnds, UpdateExperiment,
       PrepareWrite, SubmitWrite, Crash, CloseBatch, CloseVisual, CloseStore,
       storeVars
<1>2. IInv /\ [Next]_vars => [\A r \in Runs : Wins(r)]_vars
  BY <1>1
<1> QED BY Invariance, <1>2, PTL DEF Spec, CancelWins

\* What a terminal Run shows never changes again.
THEOREM TerminalForGood == Spec => TerminalIsFinal
<1> DEFINE Final(r) == status[r] \in Terminal =>
      /\ status'[r] = status[r]
      /\ frozen'[r] = frozen[r]
      /\ completion'[r] = completion[r]
      /\ r \in outputs <=> r \in outputs'
<1>1. ASSUME IInv, Next, NEW r \in Runs PROVE Final(r)
  <2> SUFFICES ASSUME status[r] \in Terminal PROVE Final(r)
    OBVIOUS
  <2>1. status[r] # "absent" /\ ~IsActive(r)
    BY DEF Terminal, IsActive, Active
  <2>2. ASSUME NEW q \in Runs, PublishResult(q) PROVE Final(r)
    BY <1>1, <2>1, <2>2 DEF IInv, TypeOK, PublishResult, CommitResult,
       StillOpen
  <2>3. ASSUME NEW q \in Runs, CancelRun(q) PROVE Final(r)
    BY <1>1, <2>1, <2>3 DEF IInv, TypeOK, CancelRun, CancelAttempt,
       CancelDetached,
       CommitResult, StillOpen, Terminal
  <2>4. ASSUME NEW q \in Runs, StartRejected(q) PROVE Final(r)
    BY <1>1, <2>1, <2>4 DEF IInv, TypeOK, StartRejected, FailRunStart,
       CommitResult,
       StillOpen
  <2>5. ASSUME NEW q \in Runs, NEW p \in Projects, NEW k \in Kinds,
               RetryStart(q, p, k)
        PROVE  Final(r)
    BY <1>1, <2>5, RetryStartChangesNothing DEF vars
  <2>6. ASSUME NEW q \in Runs, NEW p \in Projects,
               StartBatchRun(q, p) \/ StartVisualRun(q, p)
        PROVE  Final(r)
    BY <1>1, <2>1, <2>6 DEF IInv, TypeOK, StartBatchRun, StartVisualRun,
       InsertRun
  <2>7. ASSUME NEW q \in Runs, RecordHealth(q) PROVE Final(r)
    BY <1>1, <2>1, <2>7 DEF IInv, TypeOK, RecordHealth, Terminal
  <2>8. CASE Startup
    BY <1>1, <2>1, <2>8 DEF IInv, TypeOK, Startup, Interrupted
  <2>9. CASE UNCHANGED <<status, frozen, completion, outputs>>
    BY <2>9
  <2> QED
    BY <1>1, <2>2, <2>3, <2>4, <2>5, <2>6, <2>7, <2>8, <2>9 DEF Next,
       RegisterProcess, SupervisorSettles, AttemptEnds, UpdateExperiment,
       PrepareWrite, SubmitWrite, Crash, CloseBatch, CloseVisual, CloseStore,
       storeVars
<1>2. IInv /\ [Next]_vars => [\A r \in Runs : Final(r)]_vars
  BY <1>1
<1> QED BY Invariance, <1>2, PTL DEF Spec, TerminalIsFinal

\* Only the first commit of a write changes a workspace, and only the one its
\* caller read.
THEOREM WritesOnce == Spec => WritesApplyOnce
<1> DEFINE Once(p) == workspace'[p] # workspace[p] =>
      \E w \in receipt' \ receipt :
        intent[w] = [project |-> p, before |-> workspace[p],
                     after |-> workspace'[p]]
<1>1. ASSUME IInv, Next, NEW p \in Projects PROVE Once(p)
  <2>1. ASSUME NEW w \in Writes, SubmitWrite(w) PROVE Once(p)
    <3> SUFFICES ASSUME workspace'[p] # workspace[p] PROVE Once(p)
      OBVIOUS
    <3>1. /\ w \in receipt' \ receipt
          /\ workspace[intent[w].project] = intent[w].before
          /\ workspace' = [workspace EXCEPT ![intent[w].project] =
                            intent[w].after]
      BY <2>1 DEF SubmitWrite, Replayed, MayCommit
    <3>2. intent[w] \in WriteIntent
      BY <1>1, <2>1 DEF IInv, TypeOK, SubmitWrite
    <3>3. intent[w] = [project |-> p, before |-> workspace[p],
                       after |-> workspace'[p]]
      BY <1>1, <3>1, <3>2 DEF IInv, TypeOK, WriteIntent
    <3> QED BY <3>1, <3>3
  <2>2. CASE UNCHANGED workspace
    BY <2>2
  <2> QED
    BY <1>1, <2>1, <2>2 DEF Next, StartBatchRun, StartVisualRun, RetryStart,
       RegisterProcess, RecordHealth, SupervisorSettles, PublishResult,
       AttemptEnds, StartRejected, CancelRun, UpdateExperiment, PrepareWrite,
       Crash, CloseBatch, CloseVisual, CloseStore, Startup, storeVars
<1>2. IInv /\ [Next]_vars => [\A p \in Projects : Once(p)]_vars
  BY <1>1
<1> QED BY Invariance, <1>2, PTL DEF Spec, WritesApplyOnce

(***************************************************************************)
(* The refinement: every step is one of ExclusiveRuns, or none.            *)
(***************************************************************************)
MappedVerdict(r) == IF IsActive(r) THEN "open" ELSE status[r]

\* A step that keeps the verdicts and the rest of the mapping stutters.
LEMMA MappedStutter ==
  ASSUME UNCHANGED <<workspace, lock, completion, outputs>>,
         \A r \in Runs : MappedVerdict(r)' = MappedVerdict(r)
  PROVE  UNCHANGED Promise!vars
BY DEF Promise!vars, MappedVerdict, IsActive

\* Admission is the abstract Begin.
LEMMA MappedBegin ==
  ASSUME IInv, NEW r \in Runs, NEW p \in Projects,
         StartBatchRun(r, p) \/ StartVisualRun(r, p)
  PROVE  Promise!Begin(r, p)
<1>1. /\ status[r] = "absent" /\ lock[p] = None
      /\ lock' = [lock EXCEPT ![p] = r]
      /\ UNCHANGED <<workspace, completion, outputs>>
      /\ \E s \in {"running", "queued"} : status' = [status EXCEPT ![r] = s]
  BY DEF StartBatchRun, StartVisualRun, MayAdmit, InsertRun
<1> QED
  BY <1>1 DEF IInv, TypeOK, Promise!Begin, IsActive, Active

\* Publishing a result is the abstract Finish of that Run.
LEMMA MappedFinish ==
  ASSUME IInv, NEW r \in Runs, PublishResult(r)
  PROVE  \E v \in Promise!Verdicts : Promise!Finish({r}, v)
<1>1. PICK s \in Terminal :
        /\ IsActive(r)
        /\ status' = [status EXCEPT ![r] = s]
        /\ completion' = [completion EXCEPT ![r] = s]
        /\ outputs' = IF s = "succeeded" THEN outputs \cup {r} ELSE outputs
        /\ lock' = [p \in Projects |-> IF lock[p] = r THEN None ELSE lock[p]]
        /\ UNCHANGED workspace
  BY PublishedResult DEF PublishResult, CommitResult, StillOpen, ReleaseLock
<1>2. s \in Promise!Verdicts
  BY DEF Terminal, Promise!Verdicts
<1>3. Promise!Finish({r}, s)
  BY <1>1 DEF IInv, TypeOK, Promise!Finish, IsActive, Active, Terminal
<1> QED BY <1>2, <1>3

\* A restart finishes every open Run at once.
LEMMA MappedInterruption ==
  ASSUME IInv, Startup
  PROVE  [Promise!Next]_(Promise!vars)
<1> DEFINE R == {r \in Runs : IsActive(r)}
<1>1. \A r \in Runs : Interrupted(r) <=> r \in R
  BY DEF IInv, TypeOK, LockMatchesRun, Interrupted, ProjectOf, Admission,
     IsActive, Active
<1>2. \A p \in Projects : lock[p] # None => lock[p] \in R
  BY DEF IInv, TypeOK, LockMatchesRun
<1>3. CASE R = {}
  <2>1. \A r \in Runs : MappedVerdict(r)' = MappedVerdict(r)
    BY <1>1, <1>3 DEF Startup, MappedVerdict, IsActive
  <2>2. UNCHANGED <<workspace, lock, completion, outputs>>
    BY <1>1, <1>2, <1>3 DEF IInv, TypeOK, Startup
  <2> QED BY <2>1, <2>2, MappedStutter
<1>4. CASE R # {}
  <2>1. Promise!Finish(R, "interrupted")
    BY <1>1, <1>2, <1>4 DEF IInv, TypeOK, Startup, Promise!Finish, IsActive,
       Active
  <2> QED BY <2>1 DEF Promise!Next, Promise!Verdicts
<1> QED BY <1>3, <1>4

\* A committed write is the abstract Edit; a replayed one stutters.
LEMMA MappedEdit ==
  ASSUME IInv, NEW w \in Writes, SubmitWrite(w)
  PROVE  [Promise!Next]_(Promise!vars)
<1>1. CASE Replayed(w)
  BY <1>1, MappedStutter DEF SubmitWrite, MappedVerdict, IsActive
<1>2. CASE ~Replayed(w)
  <2>1. intent[w] \in WriteIntent
    BY DEF IInv, TypeOK, SubmitWrite
  <2>2. Promise!Edit(intent[w].project, intent[w].after)
    BY <1>2, <2>1 DEF SubmitWrite, MayCommit, Promise!Edit, IsActive,
       WriteIntent
  <2> QED BY <2>1, <2>2 DEF Promise!Next, WriteIntent
<1> QED BY <1>1, <1>2

\* Everything else is invisible in the mapping.
LEMMA MappedInternal ==
  ASSUME IInv, NEW r \in Runs,
         RecordHealth(r) \/ StartRejected(r) \/ CancelRun(r)
  PROVE  UNCHANGED Promise!vars
<1>1. CASE RecordHealth(r)
  BY <1>1, MappedStutter DEF IInv, TypeOK, RecordHealth, MappedVerdict, IsActive,
     Active
<1>2. CASE StartRejected(r)
  <2>1. ~IsActive(r)
    BY <1>2 DEF IInv, AttemptsCoherent, AttemptCoherent, StartRejected,
       IsActive, Active, Terminal
  <2> QED
    BY <1>2, <2>1, MappedStutter DEF StartRejected, FailRunStart,
       CommitResult,
       StillOpen, MappedVerdict, IsActive
<1>3. CASE CancelRun(r) /\ Attempted(r)
  BY <1>3, MappedStutter DEF IInv, TypeOK, CancelRun, CancelAttempt, MappedVerdict,
     IsActive, Active
<1>4. CASE CancelRun(r) /\ ~Attempted(r)
  <2>1. ~IsActive(r)
    BY <1>4 DEF IInv, NoOrphanedRun, CancelRun, Up, Attempted
  <2> QED
    BY <1>4, <2>1, MappedStutter DEF CancelRun, CancelDetached, CommitResult,
       StillOpen, MappedVerdict, IsActive, Active
<1> QED BY <1>1, <1>2, <1>3, <1>4

\* The runtimes, the Store and the restart path implement ExclusiveRuns.
THEOREM Refinement == Spec => KeepsPromise
<1>1. Init => Promise!Init
  BY DEF Init, Promise!Init, IsActive, Active
<1>2. ASSUME IInv, [Next]_vars PROVE [Promise!Next]_(Promise!vars)
  <2>1. ASSUME NEW r \in Runs, NEW p \in Projects,
               StartBatchRun(r, p) \/ StartVisualRun(r, p)
        PROVE  Promise!Next
    BY <1>2, <2>1, MappedBegin DEF Promise!Next
  <2>2. ASSUME NEW r \in Runs, PublishResult(r) PROVE Promise!Next
    BY <1>2, <2>2, MappedFinish DEF Promise!Next
  <2>3. ASSUME NEW r \in Runs, NEW p \in Projects, NEW k \in Kinds,
               RetryStart(r, p, k)
        PROVE  UNCHANGED Promise!vars
    BY <1>2, <2>3, RetryStartChangesNothing, MappedStutter DEF vars, MappedVerdict,
       IsActive
  <2>4. CASE UNCHANGED <<workspace, lock, completion, outputs, status>>
    BY <2>4, MappedStutter DEF MappedVerdict, IsActive
  <2> QED
    BY <1>2, <2>1, <2>2, <2>3, <2>4, MappedInterruption, MappedEdit,
       MappedInternal DEF Next, vars, RegisterProcess, SupervisorSettles,
       AttemptEnds, UpdateExperiment, PrepareWrite, Crash, CloseBatch,
       CloseVisual, CloseStore, storeVars
<1>3. Spec => Promise!Spec
  BY Invariance, <1>1, <1>2, PTL DEF Spec, Promise!Spec
<1> QED BY <1>3 DEF KeepsPromise

\* Locks, Run rows, evidence and workspaces agree in every reachable state of any
\* instance, the states a crash leaves included.
THEOREM StoreAgreement == Spec => []StoreAgrees
<1>1. IInv => StoreAgrees
  BY DEF IInv, StoreAgrees
<1> QED BY Invariance, <1>1, PTL

\* The attempts of the process agree with the rows of the Store.
THEOREM AttemptAgreement == Spec => []AttemptsAgree
<1>1. NoOrphanedRun /\ LiveTargetIsRunning /\ AttemptsCoherent /\ CleanStop
        => AttemptsAgree
  BY DEF AttemptsAgree
<1> QED BY NoOrphans, LiveTargets, Coherence, StopsClean, <1>1, PTL

\* A Run ends once, and as it was asked to.
THEOREM FinalResults == Spec => ResultsAreFinal
  BY CancelPrevails, TerminalForGood DEF ResultsAreFinal
-----------------------------------------------------------------------------

(***************************************************************************)
(* RunRecords.  A receipt stands as long as the rows it is compared with   *)
(* keep what it says of them.  The invariant says how a Run's row, trash,  *)
(* card, streams and cursor go together, that the updates of an Experiment *)
(* form a chain, and what the receipts are compared with.                  *)
(***************************************************************************)

Committed(x) == receipts[x] # NoValue

\* Updates of an Experiment form a chain: each read what the one before it wrote.
ExperimentsOK ==
  /\ \A e \in ExperimentIds : experiments[e] # NoValue =>
       Committed(e) /\ Committed(experiments[e].by)
  /\ \A x \in Updates : seen[x] # NoValue =>
       /\ seen[x] \in Revisions /\ experiments[seen[x].experiment] # NoValue
       /\ Committed(seen[x].from)
  /\ \A x \in Updates : Committed(x) =>
       /\ seen[x] # NoValue /\ receipts[x] = seen[x]
       /\ experiments[seen[x].experiment].by # seen[x].from
       /\ \A y \in Updates \ {x} : Committed(y) =>
            seen[y].experiment # seen[x].experiment \/ seen[y].from # seen[x].from

\* A cursor was given for a success, before the Run went to the trash.
CursorOK(r) ==
  cursor[r] # NoValue =>
    /\ cursor[r] \in Positions /\ cursor[r].status = "succeeded" /\ Verdict(r) = "succeeded"
    /\ cursor[r].entries <= Len(trash[r])
    /\ runs[r].status = "trashed" => cursor[r].entries < Len(trash[r])

\* A Run comes to be with the receipt of its start, and its first cancellation is one.
RunOK(r) ==
  /\ TrashAgrees(r) /\ CardAgrees(r) /\ StreamsAgree(r) /\ CursorOK(r)
  /\ runs[r].status = "absent" <=> ~Committed(r)
  /\ runs[r].status = "absent" => runs[r] = NoRun /\ trash[r] = <<>>
  /\ runs[r].first # NoValue => Committed(runs[r].first)

\* A cancellation that found no other came too late.
StartOK(x) == Committed(x) => receipts[x] \in Plans /\ StartStands(x)
CancelOK(x) ==
  Committed(x) =>
    /\ receipts[x] \in Requests /\ CancelStands(x)
    /\ receipts[x].first = NoValue => Ended(receipts[x].run)
MoveOK(x) == Committed(x) => receipts[x] \in Moves /\ MoveStands(x)

Fields ==
  /\ RecordTypes
  /\ receipts = [x \in Asked |-> receipts[x]]
  /\ seen = [x \in Updates \cup Trashes \cup Restores |-> seen[x]]
  /\ cursor = [r \in RunIds |-> cursor[r]]
  /\ \A x \in Trashes \cup Restores : seen[x] # NoValue => seen[x].run \in RunIds

CommandsOK ==
  /\ \A x \in Starts : StartOK(x)
  /\ \A x \in Cancels : CancelOK(x)
  /\ \A x \in Trashes \cup Restores : MoveOK(x)

RecordsInv == Fields /\ ExperimentsOK /\ (\A r \in RunIds : RunOK(r)) /\ CommandsOK

LEMMA RecordsInvHolds == RecordsInv => RecordsAgree /\ ReceiptsStandUp
<1> SUFFICES ASSUME RecordsInv PROVE RecordsAgree /\ ReceiptsStandUp
  OBVIOUS
<1>1. RecordsAgree
  BY DEF RecordsInv, Fields, RunOK, RecordsAgree
<1>2. ASSUME NEW x \in Asked, receipts[x] # NoValue PROVE Stands(x)
  <2>1. x \in Updates => UpdateStands(x)
    BY <1>2 DEF RecordsInv, ExperimentsOK, UpdateStands, Committed
  <2>2. x \in Starts => StartStands(x)
    BY <1>2 DEF RecordsInv, CommandsOK, StartOK, Committed
  <2>3. x \in Cancels => CancelStands(x)
    BY <1>2 DEF RecordsInv, CommandsOK, CancelOK, Committed
  <2>4. x \in Trashes \cup Restores => MoveStands(x)
    BY <1>2 DEF RecordsInv, CommandsOK, MoveOK, Committed
  <2> QED BY <2>1, <2>2, <2>3, <2>4 DEF Stands
<1> QED BY <1>1, <1>2 DEF ReceiptsStandUp

-----------------------------------------------------------------------------
(* Frames. *)

SameRun(r) ==
  /\ runs'[r] = runs[r] /\ trash'[r] = trash[r] /\ card'[r] = card[r]
  /\ (r \in messages') <=> (r \in messages)
  /\ downloads'[r] = downloads[r] /\ ((r \in fenced') <=> (r \in fenced)) /\ cursor'[r] = cursor[r]

\* Receipts only come.
ReceiptsStay == \A x \in Asked : Committed(x) => receipts'[x] = receipts[x]

LEMMA SameRunIsOK ==
  ASSUME ReceiptsStay, Fields, NEW r \in RunIds, RunOK(r), SameRun(r), receipts'[r] = receipts[r]
  PROVE  RunOK(r)'
<1>1. runs[r].first \in Cancels \cup {NoValue}
  BY DEF Fields, RecordTypes, RunRows
<1>2. /\ TrashAgrees(r)' /\ CursorOK(r)'
  BY DEF SameRun, RunOK, TrashAgrees, CursorOK, Verdict
<1>3. CardAgrees(r)' /\ StreamsAgree(r)'
  BY DEF SameRun, RunOK, CardAgrees, StreamsAgree, Ended, Verdict
<1> QED BY <1>1, <1>2, <1>3 DEF SameRun, RunOK, ReceiptsStay, Committed, Asked

LEMMA SameExperiments ==
  ASSUME ReceiptsStay, Fields, ExperimentsOK, UNCHANGED experiments,
         \A x \in Updates : seen'[x] = seen[x] /\ receipts'[x] = receipts[x]
  PROVE  ExperimentsOK'
<1>1. \A x \in Asked : Committed(x) => Committed(x)'
  BY DEF ReceiptsStay, Committed
<1>2. ASSUME NEW e \in ExperimentIds, experiments[e] # NoValue
      PROVE  Committed(e)' /\ Committed(experiments[e].by)'
  <2>1. experiments[e].by \in Asked /\ e \in Asked
    BY <1>2 DEF Fields, RecordTypes, ExperimentRows, Asked, ExperimentIds
  <2>2. Committed(e) /\ Committed(experiments[e].by)
    BY <1>2 DEF ExperimentsOK
  <2> QED BY <2>1, <2>2 DEF ReceiptsStay, Committed
<1>3. ASSUME NEW x \in Updates, seen[x] # NoValue
      PROVE  seen[x] \in Revisions /\ experiments[seen[x].experiment] # NoValue /\ Committed(seen[x].from)'
  <2>1. seen[x] \in Revisions /\ experiments[seen[x].experiment] # NoValue /\ Committed(seen[x].from)
    BY <1>3 DEF ExperimentsOK
  <2>2. seen[x].from \in Asked
    BY <2>1 DEF Revisions, Asked
  <2> QED BY <2>1, <2>2 DEF ReceiptsStay, Committed
<1>4. \A x \in Updates : Committed(x)' <=> Committed(x)
  BY DEF Committed
<1> QED BY <1>2, <1>3, <1>4 DEF ExperimentsOK, Committed

\* What a command is about has not changed.
LEMMA SameCommands ==
  ASSUME ReceiptsStay, Fields, CommandsOK, NEW S \in SUBSET RunIds,
         \A r \in S : runs'[r] = runs[r] /\ trash'[r] = trash[r]
  PROVE  /\ \A x \in S : receipts'[x] = receipts[x] => StartOK(x)'
         /\ \A x \in Cancels : Committed(x) /\ receipts[x].run \in S => CancelOK(x)'
         /\ \A x \in Trashes \cup Restores : Committed(x) /\ receipts[x].run \in S => MoveOK(x)'
<1>1. ASSUME NEW x \in S, receipts'[x] = receipts[x] PROVE StartOK(x)'
  BY <1>1 DEF CommandsOK, StartOK, StartStands, Committed, RunIds
<1>2. ASSUME NEW x \in Cancels, Committed(x), receipts[x].run \in S PROVE CancelOK(x)'
  BY <1>2 DEF CommandsOK, CancelOK, CancelStands, Committed, Ended, Verdict, ReceiptsStay, Asked
<1>3. ASSUME NEW x \in Trashes \cup Restores, Committed(x), receipts[x].run \in S PROVE MoveOK(x)'
  BY <1>3 DEF CommandsOK, MoveOK, MoveStands, Committed, Verdict, ReceiptsStay, Asked
<1> QED BY <1>1, <1>2, <1>3

-----------------------------------------------------------------------------
(* Commands on Experiments. *)

\* A command on an Experiment leaves the Runs alone.
LEMMA RunsKept ==
  ASSUME RecordsInv, ReceiptsStay, UNCHANGED <<rows, reads>>,
         \A x \in Starts : receipts'[x] = receipts[x]
  PROVE  (\A r \in RunIds : RunOK(r)') /\ ((\A x \in Starts \cup Cancels \cup Trashes \cup Restores : receipts'[x] = receipts[x]) => CommandsOK')
<1>1. \A r \in RunIds : SameRun(r)
  BY DEF rows, reads, SameRun
<1>2. \A r \in RunIds : RunOK(r)'
  BY <1>1, SameRunIsOK DEF RecordsInv, RunIds
<1>3. ASSUME \A x \in Starts \cup Cancels \cup Trashes \cup Restores : receipts'[x] = receipts[x]
      PROVE  CommandsOK'
  <2>1. \A r \in RunIds : runs'[r] = runs[r] /\ trash'[r] = trash[r]
    BY DEF rows
  <2>2. /\ \A x \in Cancels : Committed(x) => receipts[x].run \in RunIds
        /\ \A x \in Trashes \cup Restores : Committed(x) => receipts[x].run \in RunIds
    BY DEF RecordsInv, CommandsOK, CancelOK, MoveOK, Requests, Moves
  <2>3. /\ \A x \in RunIds : receipts'[x] = receipts[x] => StartOK(x)'
        /\ \A x \in Cancels : Committed(x) /\ receipts[x].run \in RunIds => CancelOK(x)'
        /\ \A x \in Trashes \cup Restores : Committed(x) /\ receipts[x].run \in RunIds => MoveOK(x)'
    BY <2>1, SameCommands DEF RecordsInv
  <2>4. \A x \in Cancels : ~Committed(x) => CancelOK(x)'
    BY <1>3 DEF CancelOK, Committed
  <2>5. \A x \in Trashes \cup Restores : ~Committed(x) => MoveOK(x)'
    BY <1>3 DEF MoveOK, Committed
  <2> QED BY <1>3, <2>2, <2>3, <2>4, <2>5 DEF CommandsOK, RunIds
<1> QED BY <1>2, <1>3

LEMMA AnswerStays ==
  ASSUME Fields, NEW x \in Asked, NEW answer, Commits(x, answer)
  PROVE  /\ ReceiptsStay /\ ~Committed(x) /\ receipts'[x] = answer
         /\ \A y \in Asked \ {x} : receipts'[y] = receipts[y]
         /\ receipts' = [y \in Asked |-> receipts'[y]]
<1>1. receipts = [y \in Asked |-> receipts[y]] /\ receipts[x] = NoValue
      /\ receipts' = [receipts EXCEPT ![x] = answer]
  BY DEF Fields, Commits
<1> QED BY <1>1 DEF ReceiptsStay, Committed

LEMMA CreateExperimentKeeps ==
  ASSUME RecordsInv, NEW x \in Creates, NEW c \in Configurations, CreateExperiment(x, c)
  PROVE  RecordsInv'
<1>1. /\ Commits(x, [config |-> c]) /\ UNCHANGED <<rows, chat, seen, reads>>
      /\ experiments' = [experiments EXCEPT ![x] = [config |-> c, by |-> x]]
  BY DEF CreateExperiment
<1>2. /\ ReceiptsStay /\ ~Committed(x) /\ receipts'[x] = [config |-> c]
      /\ \A y \in Asked \ {x} : receipts'[y] = receipts[y]
      /\ receipts' = [y \in Asked |-> receipts'[y]]
  BY <1>1, AnswerStays DEF RecordsInv, Asked
<1>3. \A y \in Updates \cup Starts \cup Cancels \cup Trashes \cup Restores : receipts'[y] = receipts[y]
  BY <1>2, CommandsAssumption DEF Asked
<1> DEFINE new == [config |-> c, by |-> x]
<1>4. new \in ExperimentRows /\ new # NoValue /\ new.by = x
  BY CommandsAssumption DEF ExperimentRows
<1> HIDE DEF new
<1>5. experiments' = [experiments EXCEPT ![x] = new] /\ x \in ExperimentIds
  BY <1>1 DEF new, ExperimentIds
<1>6. Fields'
  <2>1. experiments' \in [ExperimentIds -> ExperimentRows \cup {NoValue}]
    BY <1>4, <1>5 DEF RecordsInv, Fields, RecordTypes
  <2>2. RecordTypes'
    BY <1>1, <2>1 DEF RecordsInv, Fields, RecordTypes, rows, reads
  <2> QED BY <1>1, <1>2, <2>2 DEF RecordsInv, Fields, reads
<1>7. Committed(x)'
  BY <1>2, CommandsAssumption DEF Committed
<1>8. experiments[x] = NoValue
  BY <1>2, <1>5 DEF RecordsInv, ExperimentsOK
<1>9. ExperimentsOK'
  <2>1. \A e \in ExperimentIds \ {x} : experiments'[e] = experiments[e]
    BY <1>5 DEF RecordsInv, Fields, RecordTypes
  <2>2. experiments'[x] = new
    BY <1>5 DEF RecordsInv, Fields, RecordTypes
  <2>3. ASSUME NEW e \in ExperimentIds, experiments'[e] # NoValue
        PROVE  Committed(e)' /\ Committed(experiments[e].by)'
    <3>1. CASE e = x
      BY <1>4, <1>7, <2>2, <3>1
    <3>2. CASE e # x
      <4>1. experiments[e].by \in Asked /\ e \in Asked /\ Committed(e) /\ Committed(experiments[e].by)
        BY <2>1, <2>3, <3>2 DEF RecordsInv, Fields, RecordTypes, ExperimentsOK, ExperimentRows, Asked, ExperimentIds
      <4> QED BY <1>2, <2>1, <3>2, <4>1 DEF ReceiptsStay, Committed
    <3> QED BY <3>1, <3>2
  <2>4. ASSUME NEW y \in Updates, seen[y] # NoValue
        PROVE  /\ seen[y] \in Revisions /\ experiments'[seen[y].experiment] # NoValue
               /\ Committed(seen[y].from)'
               /\ seen[y].experiment # x
    <3>1. seen[y] \in Revisions /\ experiments[seen[y].experiment] # NoValue /\ Committed(seen[y].from)
      BY <2>4 DEF RecordsInv, ExperimentsOK
    <3>2. seen[y].experiment \in ExperimentIds /\ seen[y].experiment # x
      BY <1>8, <3>1 DEF Revisions
    <3>3. seen[y].from \in Asked
      BY <3>1 DEF Revisions, Asked
    <3>4. Committed(seen[y].from)'
      BY <1>1, <1>2, <3>1, <3>3 DEF ReceiptsStay, Committed
    <3>5. experiments'[seen[y].experiment] = experiments[seen[y].experiment]
      BY <2>1, <3>2
    <3> QED BY <3>1, <3>2, <3>4, <3>5
  <2>5. \A y \in Updates : Committed(y)' <=> Committed(y)
    BY <1>3 DEF Committed
  <2>6. \A y \in Updates : seen'[y] = seen[y] /\ receipts'[y] = receipts[y]
    BY <1>1, <1>3
  <2>7. \A y \in Updates : Committed(y) => experiments'[seen[y].experiment] = experiments[seen[y].experiment]
    BY <2>1, <2>4 DEF RecordsInv, ExperimentsOK, Revisions
  <2> QED BY <2>3, <2>4, <2>5, <2>6, <2>7 DEF RecordsInv, ExperimentsOK, Committed
<1>10. (\A r \in RunIds : RunOK(r)') /\ CommandsOK'
  BY <1>1, <1>2, <1>3, RunsKept
<1> QED BY <1>6, <1>9, <1>10 DEF RecordsInv

LEMMA ReadKeeps ==
  ASSUME RecordsInv, NEW x \in Updates, NEW e \in ExperimentIds, NEW c \in Configurations,
         ReadExperiment(x, e, c)
  PROVE  RecordsInv'
<1> DEFINE new == [experiment |-> e, from |-> experiments[e].by, to |-> c]
<1>1. /\ receipts[x] = NoValue /\ experiments[e] # NoValue /\ seen' = [seen EXCEPT ![x] = new]
      /\ UNCHANGED <<experiments, rows, chat, receipts, reads>>
  BY DEF ReadExperiment
<1>2. /\ new \in Revisions /\ new # NoValue /\ new.experiment = e /\ new.from = experiments[e].by
      /\ Committed(new.from)
  BY <1>1, CommandsAssumption DEF RecordsInv, Fields, RecordTypes, ExperimentRows, Revisions, ExperimentsOK
<1> HIDE DEF new
<1>3. seen = [y \in Updates \cup Trashes \cup Restores |-> seen[y]]
  BY DEF RecordsInv, Fields
<1>4. /\ seen' = [y \in Updates \cup Trashes \cup Restores |-> seen'[y]]
      /\ seen'[x] = new
      /\ \A y \in (Updates \cup Trashes \cup Restores) \ {x} : seen'[y] = seen[y]
  BY <1>1, <1>3
<1>5. x \notin Trashes \cup Restores
  BY CommandsAssumption
<1>6. Fields'
  <2>1. RecordTypes'
    BY <1>1 DEF RecordsInv, Fields, RecordTypes, rows, reads
  <2> QED BY <1>1, <1>4, <1>5, <2>1 DEF RecordsInv, Fields, reads
<1>7. ExperimentsOK'
  <2>1. \A y \in Asked : Committed(y)' <=> Committed(y)
    BY <1>1 DEF Committed
  <2>2. ASSUME NEW y \in Updates, seen'[y] # NoValue
        PROVE  /\ seen'[y] \in Revisions /\ experiments[seen'[y].experiment] # NoValue
               /\ Committed(seen'[y].from)
    BY <1>1, <1>2, <1>4, <2>2 DEF RecordsInv, ExperimentsOK
  <2>3. \A y \in Updates : Committed(y) => seen'[y] = seen[y]
    BY <1>1, <1>4 DEF Committed
  <2> QED BY <1>1, <2>2, <2>3 DEF RecordsInv, ExperimentsOK, Committed
<1>8. ReceiptsStay /\ \A y \in Asked : receipts'[y] = receipts[y]
  BY <1>1 DEF ReceiptsStay
<1>9. (\A r \in RunIds : RunOK(r)') /\ CommandsOK'
  BY <1>1, <1>8, RunsKept DEF Asked
<1> QED BY <1>6, <1>7, <1>9 DEF RecordsInv

LEMMA SaveKeeps ==
  ASSUME RecordsInv, NEW x \in Updates, SaveExperiment(x)
  PROVE  RecordsInv'
<1> DEFINE rev == seen[x]
           new == [config |-> seen[x].to, by |-> x]
<1>1. /\ rev # NoValue /\ experiments[rev.experiment].by = rev.from
      /\ Commits(x, rev) /\ UNCHANGED <<rows, chat, seen, reads>>
      /\ experiments' = [experiments EXCEPT ![rev.experiment] = new]
  BY DEF SaveExperiment
<1>2. /\ rev \in Revisions /\ experiments[rev.experiment] # NoValue /\ Committed(rev.from)
      /\ rev.experiment \in ExperimentIds /\ rev.to \in Configurations
  BY <1>1 DEF RecordsInv, ExperimentsOK, Revisions
<1>3. /\ ReceiptsStay /\ ~Committed(x) /\ receipts'[x] = rev
      /\ \A y \in Asked \ {x} : receipts'[y] = receipts[y]
      /\ receipts' = [y \in Asked |-> receipts'[y]]
  BY <1>1, AnswerStays DEF RecordsInv, Asked
<1>4. \A y \in Starts \cup Cancels \cup Trashes \cup Restores : receipts'[y] = receipts[y]
  BY <1>3, CommandsAssumption DEF Asked
<1>5. new \in ExperimentRows /\ new # NoValue /\ new.by = x
  BY <1>2, CommandsAssumption DEF ExperimentRows
<1>6. rev.from # x
  BY <1>2, <1>3
<1>7. rev = seen[x]
  OBVIOUS
<1> HIDE DEF new, rev
<1>8. Fields'
  <2>1. experiments' \in [ExperimentIds -> ExperimentRows \cup {NoValue}]
    BY <1>1, <1>5 DEF RecordsInv, Fields, RecordTypes
  <2>2. RecordTypes'
    BY <1>1, <2>1 DEF RecordsInv, Fields, RecordTypes, rows, reads
  <2> QED BY <1>1, <1>3, <2>2 DEF RecordsInv, Fields, reads
<1>9. ExperimentsOK'
  <2>1. /\ experiments'[rev.experiment] = new
        /\ \A e \in ExperimentIds \ {rev.experiment} : experiments'[e] = experiments[e]
    BY <1>1, <1>2 DEF RecordsInv, Fields, RecordTypes
  <2>2. \A y \in Asked : Committed(y) => Committed(y)'
    BY <1>3 DEF ReceiptsStay, Committed
  <2>3. Committed(x)'
    BY <1>1, <1>3 DEF Committed
  <2>4. ASSUME NEW e \in ExperimentIds, experiments'[e] # NoValue
        PROVE  receipts'[e] # NoValue /\ receipts'[experiments'[e].by] # NoValue
    <3>1. e \in Asked
      BY DEF ExperimentIds, Asked
    <3>2. CASE e = rev.experiment
      <4>1. receipts'[e] # NoValue
        BY <1>2, <2>2, <3>1, <3>2 DEF RecordsInv, ExperimentsOK, Committed
      <4>2. receipts'[x] # NoValue
        BY <2>3 DEF Committed
      <4> QED BY <1>5, <2>1, <3>2, <4>1, <4>2
    <3>3. CASE e # rev.experiment
      <4>1. experiments[e].by \in Asked /\ Committed(e) /\ Committed(experiments[e].by)
        BY <2>1, <2>4, <3>3 DEF RecordsInv, Fields, RecordTypes, ExperimentsOK, ExperimentRows, Asked
      <4>2. receipts'[e] # NoValue
        BY <1>3, <4>1, <3>1 DEF ReceiptsStay, Committed
      <4>3. receipts'[experiments[e].by] # NoValue
        BY <1>3, <4>1 DEF ReceiptsStay, Committed
      <4>4. experiments'[e] = experiments[e]
        BY <2>1, <3>3
      <4> QED BY <4>2, <4>3, <4>4
    <3> QED BY <3>2, <3>3
  <2>5. ASSUME NEW y \in Updates, seen[y] # NoValue
        PROVE  /\ seen[y] \in Revisions /\ experiments'[seen[y].experiment] # NoValue
               /\ Committed(seen[y].from) /\ Committed(seen[y].from)'
    <3>1. seen[y] \in Revisions /\ experiments[seen[y].experiment] # NoValue /\ Committed(seen[y].from)
      BY <2>5 DEF RecordsInv, ExperimentsOK
    <3>2. seen[y].from \in Asked /\ seen[y].experiment \in ExperimentIds
      BY <3>1 DEF Revisions, Asked
    <3>3. Committed(seen[y].from)'
      BY <1>1, <1>3, <3>1, <3>2 DEF ReceiptsStay, Committed
    <3> QED BY <1>5, <2>1, <3>1, <3>2, <3>3
  <2>6. ASSUME NEW y \in Updates, Committed(y), y # x
        PROVE  /\ seen[y] # NoValue /\ receipts'[y] = seen[y]
               /\ experiments'[seen[y].experiment].by # seen[y].from
               /\ seen[y].experiment # rev.experiment \/ seen[y].from # rev.from
    <3>1. /\ seen[y] # NoValue /\ receipts[y] = seen[y]
          /\ experiments[seen[y].experiment].by # seen[y].from
      BY <2>6 DEF RecordsInv, ExperimentsOK
    <3>2. receipts'[y] = receipts[y]
      BY <1>3, <2>6 DEF Asked
    <3>3. seen[y].from # x /\ seen[y].experiment \in ExperimentIds
      BY <1>3, <2>5, <3>1 DEF Revisions
    <3>4. experiments'[seen[y].experiment].by # seen[y].from
      BY <1>5, <2>1, <3>1, <3>3
    <3> QED BY <1>1, <3>1, <3>2, <3>4
  <2>7. \A y \in Updates : Committed(y)' <=> (y = x \/ Committed(y))
    BY <1>3, <2>3 DEF Committed, Asked
  <2>8. \A y \in Updates : seen'[y] = seen[y]
    BY <1>1
  <2>9. experiments'[rev.experiment].by # rev.from
    BY <1>5, <1>6, <2>1
  <2>10. ASSUME NEW y \in Updates, Committed(y)'
         PROVE  /\ seen'[y] # NoValue /\ receipts'[y] = seen'[y]
                /\ experiments'[seen'[y].experiment].by # seen'[y].from
                /\ \A z \in Updates \ {y} : Committed(z)' =>
                     seen'[z].experiment # seen'[y].experiment \/ seen'[z].from # seen'[y].from
    <3>1. CASE y = x
      BY <1>1, <1>3, <1>7, <2>6, <2>7, <2>8, <2>9, <3>1
    <3>2. CASE y # x
      <4>1. Committed(y)
        BY <2>7, <2>10, <3>2
      <4>2. \A z \in Updates \ {y} : Committed(z) =>
              seen[z].experiment # seen[y].experiment \/ seen[z].from # seen[y].from
        BY <4>1 DEF RecordsInv, ExperimentsOK
      <4> QED BY <1>7, <2>6, <2>7, <2>8, <3>2, <4>1, <4>2
    <3> QED BY <3>1, <3>2
  <2>11. ASSUME NEW y \in Updates, seen'[y] # NoValue
         PROVE  /\ seen'[y] \in Revisions /\ experiments'[seen'[y].experiment] # NoValue
                /\ Committed(seen[y].from)'
    BY <2>5, <2>8, <2>11
  <2>12. \A e \in ExperimentIds : experiments'[e] # NoValue => Committed(e)' /\ Committed(experiments[e].by)'
    BY <2>4 DEF Committed
  <2> QED BY <2>8, <2>10, <2>11, <2>12 DEF ExperimentsOK
<1>10. (\A r \in RunIds : RunOK(r)') /\ CommandsOK'
  BY <1>1, <1>3, <1>4, RunsKept
<1> QED BY <1>8, <1>9, <1>10 DEF RecordsInv

-----------------------------------------------------------------------------
(* Commands on Runs. *)

\* A step of one Run.
LEMMA OtherRuns ==
  ASSUME RecordsInv, ReceiptsStay, NEW r \in RunIds, UNCHANGED experiments,
         \A x \in Updates : seen'[x] = seen[x] /\ receipts'[x] = receipts[x],
         \A q \in RunIds \ {r} : SameRun(q) /\ receipts'[q] = receipts[q]
  PROVE  /\ ExperimentsOK'
         /\ \A q \in RunIds \ {r} : RunOK(q)' /\ StartOK(q)'
         /\ \A x \in Cancels : receipts'[x] = receipts[x] /\ (Committed(x) => receipts[x].run # r) => CancelOK(x)'
         /\ \A x \in Trashes \cup Restores :
              receipts'[x] = receipts[x] /\ (Committed(x) => receipts[x].run # r) => MoveOK(x)'
<1>1. ExperimentsOK'
  BY SameExperiments DEF RecordsInv
<1>2. \A q \in RunIds \ {r} : RunOK(q)'
  BY SameRunIsOK DEF RecordsInv
<1> DEFINE S == RunIds \ {r}
<1>3. S \in SUBSET RunIds /\ \A q \in S : runs'[q] = runs[q] /\ trash'[q] = trash[q]
  BY DEF SameRun
<1>4. S = RunIds \ {r}
  OBVIOUS
<1> HIDE DEF S
<1>5. /\ \A x \in S : receipts'[x] = receipts[x] => StartOK(x)'
      /\ \A x \in Cancels : Committed(x) /\ receipts[x].run \in S => CancelOK(x)'
      /\ \A x \in Trashes \cup Restores : Committed(x) /\ receipts[x].run \in S => MoveOK(x)'
  BY <1>3, SameCommands DEF RecordsInv
<1>6. /\ \A x \in Cancels : Committed(x) => receipts[x].run \in RunIds
      /\ \A x \in Trashes \cup Restores : Committed(x) => receipts[x].run \in RunIds
  BY DEF RecordsInv, CommandsOK, CancelOK, MoveOK, Requests, Moves
<1>7. ASSUME NEW x \in Cancels, receipts'[x] = receipts[x], Committed(x) => receipts[x].run # r PROVE CancelOK(x)'
  BY <1>4, <1>5, <1>6, <1>7 DEF CancelOK, Committed
<1>8. ASSUME NEW x \in Trashes \cup Restores, receipts'[x] = receipts[x], Committed(x) => receipts[x].run # r
      PROVE  MoveOK(x)'
  BY <1>4, <1>5, <1>6, <1>8 DEF MoveOK, Committed
<1> QED BY <1>1, <1>2, <1>4, <1>5, <1>7, <1>8

\* Nobody moved a Run that has not ended.
LEMMA NobodyMoved ==
  ASSUME RecordsInv, NEW r \in RunIds, ~Ended(r)
  PROVE  /\ \A x \in Trashes \cup Restores : Committed(x) => receipts[x].run # r
         /\ \A x \in Cancels : Committed(x) /\ receipts[x].run = r => receipts[x].first # NoValue
  BY DEF RecordsInv, CommandsOK, MoveOK, CancelOK, MoveStands, Moves, Ended

\* A Run that has not ended has no trash, no streams and no cursor.
LEMMA LiveRun ==
  ASSUME RecordsInv, NEW r \in RunIds, runs[r].status \in {"absent", "queued", "running"}
  PROVE  /\ ~Ended(r) /\ runs[r] \in RunRows /\ runs[r].prior = NoValue /\ downloads[r] = 0 /\ cursor[r] = NoValue
         /\ r \notin messages
         /\ {i \in 1..Len(trash[r]) : trash[r][i].restored = NoValue} = {}
<1>1. RunOK(r) /\ runs[r] \in RunRows /\ downloads[r] \in Nat
  BY DEF RecordsInv, Fields, RecordTypes
<1>2. ~Ended(r) /\ Verdict(r) # "succeeded" /\ runs[r].status # "trashed"
  BY DEF Ended, Verdict, Verdicts
<1>3. runs[r].prior = NoValue /\ {i \in 1..Len(trash[r]) : trash[r][i].restored = NoValue} = {}
  BY <1>1, <1>2 DEF RunOK, TrashAgrees
<1>4. downloads[r] = 0 /\ cursor[r] = NoValue
  BY <1>1, <1>2 DEF RunOK, StreamsAgree, CursorOK
<1>5. r \notin messages
  BY <1>1, <1>2 DEF RunOK, CardAgrees
<1> QED BY <1>1, <1>2, <1>3, <1>4, <1>5

LEMMA StartKeeps ==
  ASSUME RecordsInv, NEW x \in Starts, NEW e \in ExperimentIds, NEW reports \in BOOLEAN, StartRun(x, e, reports)
  PROVE  RecordsInv'
<1> DEFINE answer == [config |-> experiments[e].config, reports |-> reports]
           new == [NoRun EXCEPT !.status = "queued", !.config = experiments[e].config, !.reports = reports]
           c == IF reports THEN "pending" ELSE "not_requested"
<1>1. /\ experiments[e] # NoValue /\ Commits(x, answer)
      /\ runs' = [runs EXCEPT ![x] = new] /\ card' = [card EXCEPT ![x] = c]
      /\ UNCHANGED <<experiments, trash, messages, chat, seen, reads>>
  BY DEF StartRun
<1>2. answer \in Plans /\ answer # NoValue /\ answer.config = new.config /\ answer.reports = new.reports
  BY <1>1, CommandsAssumption DEF RecordsInv, Fields, RecordTypes, ExperimentRows, Plans, NoRun
<1>3. /\ new \in RunRows /\ new.status = "queued" /\ new.prior = NoValue /\ new.first = NoValue
      /\ new.reports = reports
      /\ c = "pending" <=> reports
      /\ c \in {"not_requested", "pending"}
  BY <1>1 DEF RecordsInv, Fields, RecordTypes, ExperimentRows, RunRows, NoRun, Statuses
<1> HIDE DEF answer, new, c
<1>4. /\ ReceiptsStay /\ ~Committed(x) /\ receipts'[x] = answer
      /\ \A y \in Asked \ {x} : receipts'[y] = receipts[y]
      /\ receipts' = [y \in Asked |-> receipts'[y]]
  BY <1>1, AnswerStays DEF RecordsInv, Asked
<1>5. x \in RunIds /\ runs[x].status = "absent"
  BY <1>4 DEF RecordsInv, RunOK, RunIds
<1>6. /\ runs'[x] = new /\ card'[x] = c /\ runs' \in [RunIds -> RunRows]
      /\ \A q \in RunIds \ {x} : runs'[q] = runs[q] /\ card'[q] = card[q]
  BY <1>1, <1>3, <1>5 DEF RecordsInv, Fields, RecordTypes
<1>7. Fields'
  <2>1. card' \in [RunIds -> Dispositions \cup {NoValue}]
    BY <1>1, <1>3 DEF RecordsInv, Fields, RecordTypes, Dispositions
  <2>2. RecordTypes'
    BY <1>1, <1>6, <2>1 DEF RecordsInv, Fields, RecordTypes, reads
  <2> QED BY <1>1, <1>4, <2>2 DEF RecordsInv, Fields, reads
<1>8. /\ \A y \in Updates \cup Cancels \cup Trashes \cup Restores : receipts'[y] = receipts[y]
      /\ \A y \in RunIds \ {x} : receipts'[y] = receipts[y]
  BY <1>4, CommandsAssumption DEF Asked, RunIds
<1>9. \A q \in RunIds \ {x} : SameRun(q)
  BY <1>1, <1>6 DEF SameRun, reads
<1>10. /\ ~Ended(x) /\ downloads[x] = 0 /\ cursor[x] = NoValue /\ x \notin messages
       /\ {i \in 1..Len(trash[x]) : trash[x][i].restored = NoValue} = {}
  BY <1>5, LiveRun
<1>11. RunOK(x)'
  <2>1. TrashAgrees(x)'
    BY <1>1, <1>3, <1>6, <1>10 DEF TrashAgrees
  <2>2. CardAgrees(x)'
    BY <1>1, <1>3, <1>6, <1>10 DEF CardAgrees, Ended, Verdict, Verdicts
  <2>3. StreamsAgree(x)' /\ CursorOK(x)'
    BY <1>1, <1>10 DEF StreamsAgree, CursorOK, reads
  <2> QED BY <1>2, <1>3, <1>4, <1>6, <2>1, <2>2, <2>3 DEF RunOK, Committed
<1>12. \A y \in Cancels : Committed(y) => receipts[y].run # x
  BY <1>5 DEF RecordsInv, CommandsOK, CancelOK, CancelStands
<1>13. \A y \in Trashes \cup Restores : Committed(y) => receipts[y].run # x
  BY <1>5, <1>10, NobodyMoved
<1>14. StartOK(x)'
  BY <1>2, <1>3, <1>4, <1>6 DEF StartOK, StartStands
<1>15. /\ ExperimentsOK'
       /\ \A q \in RunIds \ {x} : RunOK(q)' /\ StartOK(q)'
       /\ \A y \in Cancels : receipts'[y] = receipts[y] /\ (Committed(y) => receipts[y].run # x) => CancelOK(y)'
       /\ \A y \in Trashes \cup Restores :
            receipts'[y] = receipts[y] /\ (Committed(y) => receipts[y].run # x) => MoveOK(y)'
  BY <1>1, <1>4, <1>5, <1>8, <1>9, OtherRuns
<1>16. CommandsOK'
  BY <1>8, <1>12, <1>13, <1>14, <1>15 DEF CommandsOK, RunIds
<1> QED BY <1>7, <1>11, <1>15, <1>16 DEF RecordsInv

\* A Run that was not claimed, or is at work, goes on under the receipts it has.
LEMMA LiveStep ==
  ASSUME RecordsInv, NEW r \in RunIds, runs[r].status \in {"queued", "running"},
         NEW to \in Statuses \ {"absent"}, runs' = [runs EXCEPT ![r].status = to],
         UNCHANGED <<experiments, trash, receipts, seen, reads>>,
         \A q \in RunIds \ {r} : card'[q] = card[q] /\ (q \in messages' <=> q \in messages),
         RecordTypes', RunOK(r)'
  PROVE  RecordsInv'
<1>1. /\ ~Ended(r) /\ runs[r] \in RunRows
  BY LiveRun
<1>2. /\ runs'[r].first = runs[r].first /\ runs'[r].config = runs[r].config
      /\ runs'[r].reports = runs[r].reports /\ runs'[r].status = to
      /\ \A q \in RunIds \ {r} : runs'[q] = runs[q]
  BY <1>1 DEF RecordsInv, Fields, RecordTypes, RunRows
<1>3. Fields' /\ ReceiptsStay
  BY DEF RecordsInv, Fields, reads, ReceiptsStay
<1>4. \A q \in RunIds \ {r} : SameRun(q)
  BY <1>2 DEF SameRun, reads
<1>5. /\ ExperimentsOK'
      /\ \A q \in RunIds \ {r} : RunOK(q)' /\ StartOK(q)'
      /\ \A x \in Cancels : receipts'[x] = receipts[x] /\ (Committed(x) => receipts[x].run # r) => CancelOK(x)'
      /\ \A x \in Trashes \cup Restores :
           receipts'[x] = receipts[x] /\ (Committed(x) => receipts[x].run # r) => MoveOK(x)'
  BY <1>3, <1>4, OtherRuns
<1>6. StartOK(r)'
  BY <1>2 DEF RecordsInv, CommandsOK, StartOK, StartStands, Committed, RunIds
<1>7. /\ \A x \in Trashes \cup Restores : Committed(x) => receipts[x].run # r
      /\ \A x \in Cancels : Committed(x) /\ receipts[x].run = r => receipts[x].first # NoValue
  BY <1>1, NobodyMoved
<1>8. ASSUME NEW x \in Cancels, Committed(x), receipts[x].run = r PROVE CancelOK(x)'
  BY <1>2, <1>7, <1>8 DEF RecordsInv, CommandsOK, CancelOK, CancelStands, Committed
<1>9. CommandsOK'
  BY <1>5, <1>6, <1>7, <1>8 DEF CommandsOK, RunIds
<1> QED BY <1>3, <1>5, <1>9 DEF RecordsInv

LEMMA ClaimKeeps ==
  ASSUME RecordsInv, NEW r \in RunIds, ClaimRun(r)
  PROVE  RecordsInv'
<1>1. /\ runs[r].status = "queued" /\ runs' = [runs EXCEPT ![r].status = "running"]
      /\ UNCHANGED <<experiments, trash, card, messages, chat, receipts, seen, reads>>
  BY DEF ClaimRun
<1>2. /\ runs[r] \in RunRows /\ runs[r].prior = NoValue /\ downloads[r] = 0 /\ cursor[r] = NoValue
      /\ r \notin messages
      /\ {i \in 1..Len(trash[r]) : trash[r][i].restored = NoValue} = {}
  BY <1>1, LiveRun
<1>3. /\ runs'[r].status = "running" /\ runs'[r].first = runs[r].first /\ runs'[r].prior = NoValue
      /\ runs'[r].reports = runs[r].reports /\ runs' \in [RunIds -> RunRows]
  BY <1>1, <1>2 DEF RecordsInv, Fields, RecordTypes, RunRows, Statuses
<1>4. RecordTypes'
  BY <1>1, <1>3 DEF RecordsInv, Fields, RecordTypes, reads
<1>5. RunOK(r)'
  <2>1. RunOK(r) /\ runs[r].first \in Cancels \cup {NoValue}
    BY <1>2 DEF RecordsInv, RunRows
  <2>2. TrashAgrees(r)'
    BY <1>1, <1>2, <1>3 DEF TrashAgrees
  <2>3. CardAgrees(r)'
    BY <1>1, <1>2, <1>3, <2>1 DEF RunOK, CardAgrees, Ended, Verdict, Verdicts
  <2>4. StreamsAgree(r)' /\ CursorOK(r)'
    BY <1>1, <1>2 DEF StreamsAgree, CursorOK, reads
  <2> QED BY <1>1, <1>3, <2>1, <2>2, <2>3, <2>4 DEF RunOK, Committed
<1> QED BY <1>1, <1>4, <1>5, LiveStep DEF Statuses

LEMMA EndKeeps ==
  ASSUME RecordsInv, NEW r \in RunIds, NEW verdict \in Verdicts, RunEnds(r, verdict)
  PROVE  RecordsInv'
<1>1. /\ runs[r].status \in {"queued", "running"} /\ runs' = [runs EXCEPT ![r].status = verdict]
      /\ card' = [card EXCEPT ![r] = Disposition(r)]
      /\ messages' = (IF Disposition(r) = "published" THEN messages \cup {r} ELSE messages)
      /\ UNCHANGED <<experiments, trash, chat, receipts, seen, reads>>
  BY DEF RunEnds, WithCard
<1>2. /\ runs[r] \in RunRows /\ runs[r].prior = NoValue /\ downloads[r] = 0 /\ cursor[r] = NoValue
      /\ r \notin messages
      /\ {i \in 1..Len(trash[r]) : trash[r][i].restored = NoValue} = {}
  BY <1>1, LiveRun
<1>3. /\ runs'[r].status = verdict /\ runs'[r].first = runs[r].first /\ runs'[r].prior = NoValue
      /\ runs'[r].reports = runs[r].reports /\ runs' \in [RunIds -> RunRows]
  BY <1>1, <1>2 DEF RecordsInv, Fields, RecordTypes, RunRows, Statuses
<1> DEFINE c == Disposition(r)
<1>4. /\ c \in {"not_requested", "published", "conversation_unavailable"}
      /\ c = "not_requested" <=> ~runs[r].reports
      /\ card'[r] = c /\ \A q \in RunIds \ {r} : card'[q] = card[q] /\ (q \in messages' <=> q \in messages)
      /\ card' \in [RunIds -> Dispositions \cup {NoValue}]
      /\ r \in messages' <=> c = "published"
      /\ messages' \subseteq RunIds
  BY <1>1, <1>2 DEF RecordsInv, Fields, RecordTypes, Disposition, Dispositions
<1> HIDE DEF c
<1>5. RecordTypes'
  BY <1>1, <1>3, <1>4 DEF RecordsInv, Fields, RecordTypes, reads
<1>6. verdict \in Statuses \ {"absent"} /\ verdict \notin {"trashed", "queued", "running", "absent"}
  BY DEF Statuses, Verdicts
<1>7. RunOK(r)'
  <2>1. RunOK(r) /\ runs[r].first \in Cancels \cup {NoValue}
    BY <1>2 DEF RecordsInv, RunRows
  <2>2. TrashAgrees(r)'
    BY <1>1, <1>2, <1>3, <1>6 DEF TrashAgrees
  <2>3. CardAgrees(r)'
    BY <1>3, <1>4, <1>6 DEF CardAgrees, Ended, Verdict
  <2>4. StreamsAgree(r)' /\ CursorOK(r)'
    BY <1>1, <1>2 DEF StreamsAgree, CursorOK, reads
  <2> QED BY <1>1, <1>3, <1>6, <2>1, <2>2, <2>3, <2>4 DEF RunOK, Committed
<1> QED BY <1>1, <1>4, <1>5, <1>6, <1>7, LiveStep

LEMMA CancelKeeps ==
  ASSUME RecordsInv, NEW x \in Cancels, NEW r \in RunIds, RequestCancel(x, r)
  PROVE  RecordsInv'
<1> DEFINE f == IF Ended(r) THEN runs[r].first ELSE FirstCancel(r, x)
           applied == ~Ended(r) /\ runs[r].first = NoValue
           answer == [run |-> r, applied |-> applied, first |-> f]
<1>1. /\ runs[r].status # "absent" /\ Commits(x, answer)
      /\ UNCHANGED <<experiments, trash, card, messages, chat, seen, reads>>
  BY DEF RequestCancel
<1>2. RunOK(r) /\ runs[r] \in RunRows /\ runs[r].first \in Cancels \cup {NoValue}
  BY DEF RecordsInv, Fields, RecordTypes, RunRows
<1>3. runs' = [runs EXCEPT ![r].first = f]
  <2>1. CASE ~Ended(r)
    BY <2>1 DEF RequestCancel
  <2>2. CASE Ended(r)
    <3>1. runs' = runs /\ f = runs[r].first
      BY <2>2 DEF RequestCancel
    <3> HIDE DEF f
    <3> QED BY <1>2, <3>1 DEF RecordsInv, Fields, RecordTypes, RunRows
  <2> QED BY <2>1, <2>2
<1>4. /\ ReceiptsStay /\ ~Committed(x) /\ receipts'[x] = answer
      /\ \A y \in Asked \ {x} : receipts'[y] = receipts[y]
      /\ receipts' = [y \in Asked |-> receipts'[y]]
  BY <1>1, AnswerStays DEF RecordsInv, Asked
<1>5. /\ f \in Cancels \cup {NoValue} /\ x # NoValue /\ runs[r].first # x
      /\ applied <=> f = x
      /\ f = NoValue => Ended(r)
      /\ runs[r].first # NoValue \/ Ended(r) => f = runs[r].first
      /\ f # NoValue => f = x \/ f = runs[r].first
  BY <1>2, <1>4, CommandsAssumption DEF RunOK, FirstCancel, Asked
<1>6. /\ answer \in Requests /\ answer # NoValue
      /\ answer.run = r /\ answer.first = f /\ (answer.applied <=> f = x)
  <2>1. applied \in BOOLEAN
    OBVIOUS
  <2> HIDE DEF f, applied
  <2> QED BY <1>5, <2>1, CommandsAssumption DEF Requests
<1> HIDE DEF f, applied, answer
<1>7. /\ \A q \in RunIds \ {r} : runs'[q] = runs[q]
      /\ runs'[r].status = runs[r].status /\ runs'[r].prior = runs[r].prior
      /\ runs'[r].config = runs[r].config /\ runs'[r].reports = runs[r].reports /\ runs'[r].first = f
      /\ runs' \in [RunIds -> RunRows]
  BY <1>2, <1>3, <1>5 DEF RecordsInv, Fields, RecordTypes, RunRows
<1>8. Fields'
  <2>1. RecordTypes'
    BY <1>1, <1>7 DEF RecordsInv, Fields, RecordTypes, reads
  <2> QED BY <1>1, <1>4, <2>1 DEF RecordsInv, Fields, reads
<1>9. /\ \A y \in Updates \cup Starts \cup Trashes \cup Restores : receipts'[y] = receipts[y]
      /\ \A y \in RunIds : receipts'[y] = receipts[y]
  BY <1>4, CommandsAssumption DEF Asked, RunIds
<1>10. \A q \in RunIds \ {r} : SameRun(q)
  BY <1>1, <1>7 DEF SameRun, reads
<1>11. (Verdict(r)' = Verdict(r)) /\ (Ended(r)' <=> Ended(r))
  BY <1>7 DEF Verdict, Ended
<1>12. Committed(x)'
  BY <1>4, <1>6 DEF Committed
<1>13. RunOK(r)'
  <2>1. TrashAgrees(r)' /\ CardAgrees(r)'
    BY <1>1, <1>2, <1>7, <1>11 DEF RunOK, TrashAgrees, CardAgrees
  <2>2. StreamsAgree(r)' /\ CursorOK(r)'
    BY <1>1, <1>2, <1>7, <1>11 DEF RunOK, StreamsAgree, CursorOK, reads
  <2>3. Committed(r)' <=> Committed(r)
    BY <1>9 DEF Committed
  <2>4. f # NoValue => receipts'[f] # NoValue
    <3>1. f # x /\ f # NoValue => f \in Asked /\ Committed(f)
      BY <1>2, <1>5 DEF RunOK, Asked
    <3> QED BY <1>4, <1>12, <3>1 DEF Committed
  <2> QED BY <1>1, <1>2, <1>7, <2>1, <2>2, <2>3, <2>4 DEF RunOK, Committed
<1>14. /\ ExperimentsOK'
       /\ \A q \in RunIds \ {r} : RunOK(q)' /\ StartOK(q)'
       /\ \A y \in Cancels : receipts'[y] = receipts[y] /\ (Committed(y) => receipts[y].run # r) => CancelOK(y)'
       /\ \A y \in Trashes \cup Restores :
            receipts'[y] = receipts[y] /\ (Committed(y) => receipts[y].run # r) => MoveOK(y)'
  BY <1>1, <1>4, <1>9, <1>10, OtherRuns
<1>15. StartOK(r)'
  BY <1>7, <1>9 DEF RecordsInv, CommandsOK, StartOK, StartStands, Committed, RunIds
<1>16. ASSUME NEW y \in Cancels \ {x}, Committed(y), receipts[y].run = r PROVE CancelOK(y)'
  <2>1. CancelOK(y) /\ receipts'[y] = receipts[y]
    BY <1>4 DEF RecordsInv, CommandsOK, Asked
  <2>2. receipts[y].first # NoValue \/ Ended(r)
    BY <1>16, <2>1 DEF CancelOK
  <2>3. f = runs[r].first
    BY <1>5, <1>16, <2>1, <2>2 DEF CancelOK, CancelStands
  <2> QED BY <1>7, <1>11, <1>16, <2>1, <2>3 DEF CancelOK, CancelStands, Committed
<1>17. CancelOK(x)'
  BY <1>1, <1>4, <1>5, <1>6, <1>7, <1>11 DEF CancelOK, CancelStands
<1>18. ASSUME NEW y \in Trashes \cup Restores, Committed(y), receipts[y].run = r PROVE MoveOK(y)'
  BY <1>1, <1>9, <1>11, <1>18 DEF RecordsInv, CommandsOK, MoveOK, MoveStands, Committed
<1>19. CommandsOK'
  BY <1>4, <1>9, <1>14, <1>15, <1>16, <1>17, <1>18 DEF CommandsOK, RunIds, Asked
<1> QED BY <1>8, <1>13, <1>14, <1>19 DEF RecordsInv

-----------------------------------------------------------------------------
(* The Conversation, reads and streams. *)

\* A step that leaves the rows of Experiments and Runs and their receipts alone.
LEMMA RowsKept ==
  ASSUME RecordsInv, UNCHANGED <<experiments, runs, trash, receipts>>,
         \A x \in Updates : seen'[x] = seen[x], Fields',
         \A r \in RunIds : CardAgrees(r)' /\ StreamsAgree(r)' /\ CursorOK(r)'
  PROVE  RecordsInv'
<1>1. ReceiptsStay
  BY DEF ReceiptsStay
<1>2. ExperimentsOK'
  BY <1>1, SameExperiments DEF RecordsInv
<1>3. ASSUME NEW r \in RunIds PROVE RunOK(r)'
  <2>1. RunOK(r) /\ CardAgrees(r)' /\ StreamsAgree(r)' /\ CursorOK(r)'
    BY DEF RecordsInv
  <2>2. TrashAgrees(r)'
    BY <2>1 DEF RunOK, TrashAgrees
  <2> QED BY <2>1, <2>2 DEF RunOK, Committed
<1>4. \A x \in Cancels : CancelOK(x)'
  BY DEF RecordsInv, CommandsOK, CancelOK, CancelStands, Committed, Ended, Verdict
<1>5. \A x \in Trashes \cup Restores : MoveOK(x)'
  BY DEF RecordsInv, CommandsOK, MoveOK, MoveStands, Committed, Verdict
<1>6. \A x \in Starts : StartOK(x)'
  BY DEF RecordsInv, CommandsOK, StartOK, StartStands, Committed
<1> QED BY <1>2, <1>3, <1>4, <1>5, <1>6 DEF RecordsInv, CommandsOK

LEMMA SameViews ==
  ASSUME RecordsInv, UNCHANGED <<runs, trash, card, messages>>, NEW r \in RunIds
  PROVE  /\ CardAgrees(r)'
         /\ downloads'[r] = downloads[r] /\ (r \in fenced' => r \in fenced) => StreamsAgree(r)'
         /\ downloads'[r] = 0 => StreamsAgree(r)'
         /\ cursor'[r] = cursor[r] => CursorOK(r)'
<1>1. RunOK(r)
  BY DEF RecordsInv
<1> QED BY <1>1 DEF RunOK, CardAgrees, StreamsAgree, CursorOK, Ended, Verdict

LEMMA LookKeeps ==
  ASSUME RecordsInv, NEW x \in Trashes \cup Restores, NEW r \in RunIds, ReadLifecycle(x, r)
  PROVE  RecordsInv'
<1> DEFINE new == [run |-> r, lifecycle |-> Lifecycle(r)]
<1>1. seen' = [seen EXCEPT ![x] = new] /\ UNCHANGED <<experiments, rows, chat, receipts, reads>>
  BY DEF ReadLifecycle
<1>2. new.run = r
  OBVIOUS
<1> HIDE DEF new
<1>3. seen = [y \in Updates \cup Trashes \cup Restores |-> seen[y]]
  BY DEF RecordsInv, Fields
<1>4. /\ seen' = [y \in Updates \cup Trashes \cup Restores |-> seen'[y]] /\ seen'[x] = new
      /\ \A y \in (Updates \cup Trashes \cup Restores) \ {x} : seen'[y] = seen[y]
  BY <1>1, <1>3
<1>5. \A y \in Updates : seen'[y] = seen[y]
  BY <1>4, CommandsAssumption
<1>6. RecordTypes'
  BY <1>1 DEF RecordsInv, Fields, RecordTypes, rows, reads
<1>7. Fields'
  BY <1>1, <1>2, <1>4, <1>6 DEF RecordsInv, Fields, reads
<1>8. \A q \in RunIds : CardAgrees(q)' /\ StreamsAgree(q)' /\ CursorOK(q)'
  BY <1>1, SameViews DEF rows, reads
<1> QED BY <1>1, <1>5, <1>7, <1>8, RowsKept DEF rows

LEMMA ViewsKeep ==
  ASSUME RecordsInv, UNCHANGED <<experiments, rows, receipts, seen>>, RecordTypes',
         cursor' = [r \in RunIds |-> cursor'[r]],
         \A r \in RunIds : StreamsAgree(r)' /\ CursorOK(r)'
  PROVE  RecordsInv'
<1>1. Fields'
  BY DEF RecordsInv, Fields
<1>2. \A r \in RunIds : CardAgrees(r)'
  BY SameViews DEF rows
<1> QED BY <1>1, <1>2, RowsKept DEF rows

LEMMA DownloadsKeep ==
  ASSUME RecordsInv, NEW r \in RunIds, DownloadOutput(r) \/ DownloadEnds(r)
  PROVE  RecordsInv'
<1>1. /\ UNCHANGED <<experiments, rows, chat, receipts, seen, fenced, cursor>>
      /\ \/ downloads[r] > 0 /\ downloads' = [downloads EXCEPT ![r] = @ - 1]
         \/ downloads' = [downloads EXCEPT ![r] = @ + 1] /\ r \notin fenced /\ runs[r].status = "succeeded"
  BY DEF DownloadOutput, DownloadEnds, Downloadable
<1>2. downloads \in [RunIds -> Nat]
  BY DEF RecordsInv, Fields, RecordTypes
<1>3. downloads' \in [RunIds -> Nat] /\ \A q \in RunIds \ {r} : downloads'[q] = downloads[q]
  BY <1>1, <1>2
<1>4. RecordTypes'
  BY <1>1, <1>3 DEF RecordsInv, Fields, RecordTypes, rows
<1>5. StreamsAgree(r)'
  <2>1. StreamsAgree(r)
    BY DEF RecordsInv, RunOK
  <2> QED BY <1>1, <1>2, <2>1 DEF StreamsAgree, rows
<1>6. \A q \in RunIds : StreamsAgree(q)' /\ CursorOK(q)'
  BY <1>1, <1>3, <1>5, SameViews DEF rows
<1> QED BY <1>1, <1>4, <1>6, ViewsKeep DEF RecordsInv, Fields

LEMMA FencesKeep ==
  ASSUME RecordsInv, NEW x \in Trashes \cup Restores, TrashFails(x) \/ RestoreAgain(x)
  PROVE  RecordsInv'
<1>1. /\ UNCHANGED <<experiments, rows, chat, receipts, seen, cursor>>
      /\ \/ fenced' \subseteq fenced /\ downloads' = downloads
         \/ \E r \in RunIds : /\ downloads' = [downloads EXCEPT ![r] = 0]
                             /\ fenced' \in {fenced \ {r}, fenced \cup {r}}
  <2>1. CASE TrashFails(x)
    <3>1. seen[x].run \in RunIds
      BY <2>1 DEF RecordsInv, Fields, TrashFails, AsRead
    <3> QED BY <2>1, <3>1 DEF TrashFails
  <2>2. CASE RestoreAgain(x)
    BY <2>2 DEF RestoreAgain
  <2> QED BY <2>1, <2>2
<1>2. downloads \in [RunIds -> Nat] /\ fenced \subseteq RunIds
  BY DEF RecordsInv, Fields, RecordTypes
<1>3. /\ downloads' \in [RunIds -> Nat] /\ fenced' \subseteq RunIds
      /\ \A q \in RunIds : downloads'[q] = 0 \/ (downloads'[q] = downloads[q] /\ (q \in fenced' => q \in fenced))
  BY <1>1, <1>2
<1>4. RecordTypes'
  BY <1>1, <1>3 DEF RecordsInv, Fields, RecordTypes, rows
<1>5. \A q \in RunIds : StreamsAgree(q)' /\ CursorOK(q)'
  BY <1>1, <1>3, SameViews DEF rows
<1> QED BY <1>1, <1>4, <1>5, ViewsKeep DEF RecordsInv, Fields

LEMMA EventsKeep ==
  ASSUME RecordsInv, NEW r \in RunIds, NEW first \in BOOLEAN, ReadEvents(r, first)
  PROVE  RecordsInv'
<1>1. /\ runs[r].status = "succeeded" /\ cursor' = [cursor EXCEPT ![r] = EventLifecycle(r)]
      /\ UNCHANGED <<experiments, rows, chat, receipts, seen, downloads, fenced>>
  BY DEF ReadEvents
<1>2. cursor = [q \in RunIds |-> cursor[q]] /\ trash[r] \in Seq(Entries)
  BY DEF RecordsInv, Fields, RecordTypes
<1>3. Len(trash[r]) \in Nat
  BY <1>2, LenProperties
<1> DEFINE new == EventLifecycle(r)
<1>4. new \in Positions /\ new.status = "succeeded" /\ new.entries = Len(trash[r])
  BY <1>1, <1>3 DEF EventLifecycle, Positions, Statuses, Verdicts
<1> HIDE DEF new
<1>5. /\ cursor' = [q \in RunIds |-> cursor'[q]] /\ cursor'[r] = new
      /\ \A q \in RunIds \ {r} : cursor'[q] = cursor[q]
  BY <1>1, <1>2 DEF new
<1>6. RecordTypes'
  BY <1>1 DEF RecordsInv, Fields, RecordTypes, rows
<1>7. CursorOK(r)'
  BY <1>1, <1>3, <1>4, <1>5 DEF CursorOK, Verdict, rows
<1>8. \A q \in RunIds : StreamsAgree(q)' /\ CursorOK(q)'
  BY <1>1, <1>5, <1>7, SameViews DEF rows
<1> QED BY <1>1, <1>5, <1>6, <1>8, ViewsKeep

LEMMA ChatKeeps ==
  ASSUME RecordsInv, MoveChat("active", "trashed") \/ MoveChat("trashed", "active") \/ DeleteChat
  PROVE  RecordsInv' /\ \A r \in RunIds : r \in messages <=> r \in messages'
<1>1. /\ UNCHANGED <<experiments, runs, trash, card, receipts, seen, reads>>
      /\ chat' \in {"active", "trashed", "deleted"}
      /\ \/ messages' = messages
         \/ messages' = {} /\ \A r \in RunIds : ~runs[r].reports
  BY DEF MoveChat, DeleteChat, rows
<1>2. \A r \in RunIds : CardAgrees(r) /\ StreamsAgree(r) /\ CursorOK(r)
  BY DEF RecordsInv, RunOK
<1>3. \A r \in RunIds : r \in messages <=> r \in messages'
  BY <1>1, <1>2 DEF CardAgrees
<1>4. messages' \subseteq RunIds
  BY <1>1 DEF RecordsInv, Fields, RecordTypes
<1>5. RecordTypes'
  BY <1>1, <1>4 DEF RecordsInv, Fields, RecordTypes, reads
<1>6. Fields'
  BY <1>1, <1>5 DEF RecordsInv, Fields, reads
<1>7. \A r \in RunIds : CardAgrees(r)' /\ StreamsAgree(r)' /\ CursorOK(r)'
  BY <1>1, <1>2, <1>3 DEF CardAgrees, StreamsAgree, CursorOK, Ended, Verdict, reads
<1> QED BY <1>1, <1>3, <1>6, <1>7, RowsKept

LEMMA ReopenKeeps ==
  ASSUME RecordsInv, Reopen
  PROVE  RecordsInv' /\ card' = card /\ messages' = messages
<1>1. \A r \in RunIds : ~Settles(r)
  BY DEF RecordsInv, RunOK, CardAgrees, Settles, Ended, Verdict, Verdicts
<1>2. /\ card' = [r \in RunIds |-> IF Settles(r) THEN Disposition(r) ELSE card[r]]
      /\ messages' = messages \cup {r \in RunIds : Settles(r) /\ Disposition(r) = "published"}
      /\ downloads' = [r \in RunIds |-> 0] /\ fenced' = {}
      /\ UNCHANGED <<experiments, runs, trash, chat, receipts, seen, cursor>>
  BY DEF Reopen
<1>3. card' = card
  <2>1. card' = [r \in RunIds |-> card[r]]
    BY <1>1, <1>2
  <2> QED BY <2>1 DEF RecordsInv, Fields, RecordTypes
<1>4. messages' = messages
  BY <1>1, <1>2
<1>5. RecordTypes'
  BY <1>2, <1>3, <1>4 DEF RecordsInv, Fields, RecordTypes
<1>6. \A r \in RunIds : StreamsAgree(r)' /\ CursorOK(r)'
  BY <1>2, <1>3, <1>4, SameViews
<1>7. UNCHANGED rows
  BY <1>2, <1>3, <1>4 DEF rows
<1>8. RecordsInv'
  BY <1>2, <1>5, <1>6, <1>7, ViewsKeep DEF RecordsInv, Fields
<1> QED BY <1>3, <1>4, <1>8

-----------------------------------------------------------------------------
(* The trash. *)

\* A Run that ended is moved, with the same verdict.
LEMMA MovedStep ==
  ASSUME RecordsInv, NEW r \in RunIds, Ended(r), NEW x \in Trashes \cup Restores, NEW answer \in Moves,
         Commits(x, answer), UNCHANGED <<experiments, card, messages, chat, seen, cursor>>,
         runs' \in [RunIds -> RunRows], \A q \in RunIds \ {r} : SameRun(q),
         runs'[r].first = runs[r].first, runs'[r].config = runs[r].config,
         runs'[r].reports = runs[r].reports, runs'[r].status # "absent",
         Verdict(r)' = Verdict(r),
         trash' \in [RunIds -> Seq(Entries)], downloads' \in [RunIds -> Nat], fenced' \subseteq RunIds,
         TrashAgrees(r)', StreamsAgree(r)', CursorOK(r)',
         MoveOK(x)',
         \A y \in (Trashes \cup Restores) \ {x} : Committed(y) /\ receipts[y].run = r => MoveOK(y)'
  PROVE  RecordsInv'
<1>1. /\ ReceiptsStay /\ ~Committed(x) /\ receipts'[x] = answer
      /\ \A y \in Asked \ {x} : receipts'[y] = receipts[y]
      /\ receipts' = [y \in Asked |-> receipts'[y]]
  BY AnswerStays DEF RecordsInv, Asked
<1>2. \A y \in Updates \cup Starts \cup Cancels : receipts'[y] = receipts[y]
  BY <1>1, CommandsAssumption DEF Asked
<1>3. RecordTypes'
  BY DEF RecordsInv, Fields, RecordTypes
<1>4. Fields'
  BY <1>1, <1>3 DEF RecordsInv, Fields
<1>5. /\ ExperimentsOK'
      /\ \A q \in RunIds \ {r} : RunOK(q)' /\ StartOK(q)'
      /\ \A y \in Cancels : receipts'[y] = receipts[y] /\ (Committed(y) => receipts[y].run # r) => CancelOK(y)'
      /\ \A y \in Trashes \cup Restores :
           receipts'[y] = receipts[y] /\ (Committed(y) => receipts[y].run # r) => MoveOK(y)'
  BY <1>1, <1>2, OtherRuns DEF RunIds
<1>6. Ended(r)' /\ runs[r].first \in Cancels \cup {NoValue} /\ RunOK(r)
  BY DEF Ended, RecordsInv, Fields, RecordTypes, RunRows
<1>7. RunOK(r)'
  <2>1. runs[r].status \notin {"absent", "queued", "running"} /\ runs'[r].status \notin {"queued", "running"}
    BY <1>6 DEF Ended, Verdict, Verdicts
  <2>2. CardAgrees(r)'
    BY <1>6, <2>1 DEF RunOK, CardAgrees
  <2>3. receipts'[r] = receipts[r]
    BY <1>2 DEF RunIds
  <2>4. runs[r].first # NoValue => receipts'[runs[r].first] # NoValue
    BY <1>2, <1>6 DEF RunOK, Committed
  <2> QED BY <1>6, <2>1, <2>2, <2>3, <2>4 DEF RunOK, Committed
<1>8. StartOK(r)'
  BY <1>2 DEF RecordsInv, CommandsOK, StartOK, StartStands, Committed, RunIds
<1>9. ASSUME NEW y \in Cancels, Committed(y), receipts[y].run = r PROVE CancelOK(y)'
  BY <1>2, <1>6, <1>9 DEF RecordsInv, CommandsOK, CancelOK, CancelStands, Committed
<1>10. CommandsOK'
  BY <1>1, <1>2, <1>5, <1>8, <1>9 DEF CommandsOK, RunIds, Asked
<1> QED BY <1>4, <1>5, <1>7, <1>10 DEF RecordsInv

LEMMA TrashKeeps ==
  ASSUME RecordsInv, NEW x \in Trashes, TrashRun(x)
  PROVE  RecordsInv' /\ \A q \in RunIds : VerdictStands(q) /\ CursorsStayDead(q)
<1>1. /\ seen[x] # NoValue /\ runs[seen[x].run].status \in Verdicts
      /\ seen[x].run \in RunIds
  BY DEF TrashRun, AsRead, Trashable, RecordsInv, Fields
<1>2. PICK r \in RunIds, v \in Verdicts : r = seen[x].run /\ v = runs[r].status
  BY <1>1
<1>3. /\ RunOK(r) /\ trash[r] \in Seq(Entries) /\ runs[r] \in RunRows
      /\ runs \in [RunIds -> RunRows] /\ trash \in [RunIds -> Seq(Entries)]
  BY DEF RecordsInv, Fields, RecordTypes
<1>4. PICK n \in Nat : n = Len(trash[r])
  BY <1>3, LenProperties
<1> DEFINE entry == [prior |-> v, by |-> x, restored |-> NoValue]
           answer == [run |-> r, entry |-> n + 1, verdict |-> v]
<1>5. entry \in Entries /\ entry.prior = v /\ entry.by = x /\ entry.restored = NoValue
  BY DEF Entries
<1>6. answer \in Moves /\ answer.run = r /\ answer.entry = n + 1 /\ answer.verdict = v
  BY DEF Moves
<1>7. v \notin {"trashed", "absent", "queued", "running"} /\ v # NoValue
  BY CommandsAssumption DEF Verdicts
<1>8. Verdict(r) = v /\ Ended(r)
  BY <1>2, <1>7 DEF Ended, Verdict
<1>9. PICK new \in Seq(Entries) : new = Append(trash[r], entry)
  BY <1>3, <1>5, AppendProperties
<1>10. /\ Len(new) = n + 1 /\ new[n + 1] = entry
       /\ \A i \in 1..n : new[i] = trash[r][i]
  BY <1>3, <1>4, <1>5, <1>9, AppendProperties
<1>11. /\ Commits(x, answer)
       /\ runs' = [runs EXCEPT ![r].status = "trashed", ![r].prior = v]
       /\ trash' = [trash EXCEPT ![r] = new]
       /\ Fence(x, r)
       /\ UNCHANGED <<experiments, card, messages, chat, seen, cursor>>
  BY <1>2, <1>4, <1>9 DEF TrashRun
<1> HIDE DEF entry, answer
<1>12. /\ trash'[r] = new /\ trash' \in [RunIds -> Seq(Entries)]
       /\ \A q \in RunIds \ {r} : trash'[q] = trash[q]
  BY <1>3, <1>11
<1>13. /\ runs' \in [RunIds -> RunRows]
       /\ \A q \in RunIds \ {r} : runs'[q] = runs[q]
       /\ runs'[r].first = runs[r].first /\ runs'[r].config = runs[r].config
       /\ runs'[r].reports = runs[r].reports /\ runs'[r].status = "trashed" /\ runs'[r].prior = v
  BY <1>3, <1>11 DEF RunRows, Statuses
<1>14. /\ downloads' \in [RunIds -> Nat] /\ fenced' \subseteq RunIds
       /\ \A q \in RunIds \ {r} : downloads'[q] = downloads[q] /\ (q \in fenced' <=> q \in fenced)
       /\ IF x \in ByAgent THEN downloads'[r] = downloads[r] /\ (r \in fenced' <=> r \in fenced)
          ELSE downloads'[r] = 0
  <2>1. downloads \in [RunIds -> Nat] /\ fenced \subseteq RunIds
    BY DEF RecordsInv, Fields, RecordTypes
  <2>2. CASE x \in ByAgent
    BY <1>11, <2>1, <2>2 DEF Fence
  <2>3. CASE x \notin ByAgent
    BY <1>11, <2>1, <2>3 DEF Fence
  <2> QED BY <2>2, <2>3
<1>15. \A q \in RunIds \ {r} : SameRun(q)
  BY <1>11, <1>12, <1>13, <1>14 DEF SameRun
<1>16. (Verdict(r)' = Verdict(r)) /\ runs'[r].status # "absent"
  BY <1>8, <1>13 DEF Verdict
<1>17. \A i \in 1..n : trash[r][i].restored # NoValue
  BY <1>2, <1>3, <1>4, <1>7 DEF RunOK, TrashAgrees
<1>18. TrashAgrees(r)'
  <2> DEFINE open == {i \in 1..Len(new) : new[i].restored = NoValue}
  <2>1. open = {n + 1}
    BY <1>5, <1>10, <1>17
  <2>2. \A i \in open : new[i].prior = v
    BY <1>5, <1>10, <2>1
  <2> QED BY <1>7, <1>10, <1>12, <1>13, <2>1, <2>2 DEF TrashAgrees
<1>19. StreamsAgree(r)'
  <2>1. x \in ByAgent /\ downloads'[r] > 0 => v = "succeeded"
    BY <1>2, <1>3, <1>7, <1>14 DEF RunOK, StreamsAgree
  <2>2. trash'[r][Len(trash'[r])].by = x
    BY <1>5, <1>10, <1>12
  <2>3. downloads'[r] > 0 => x \in ByAgent
    BY <1>14
  <2>4. r \in fenced' => downloads'[r] = 0
    BY <1>3, <1>14 DEF RunOK, StreamsAgree
  <2> QED BY <1>13, <2>1, <2>2, <2>3, <2>4 DEF StreamsAgree
<1>20. CursorOK(r)'
  <2>1. cursor[r] # NoValue =>
          /\ cursor[r] \in Positions /\ cursor[r].status = "succeeded" /\ Verdict(r) = "succeeded"
          /\ cursor[r].entries <= n /\ cursor[r].entries \in Nat
    BY <1>3, <1>4 DEF RunOK, CursorOK, Positions
  <2> QED BY <1>10, <1>11, <1>12, <1>13, <1>16, <2>1 DEF CursorOK
<1>21. receipts'[x] = answer /\ \A y \in Asked \ {x} : receipts'[y] = receipts[y]
  BY <1>11, AnswerStays DEF RecordsInv, Asked
<1>22. MoveOK(x)'
  <2>1. n + 1 \in 1..Len(new)
    BY <1>10
  <2> QED BY <1>5, <1>6, <1>8, <1>10, <1>12, <1>16, <1>21, <2>1 DEF MoveOK, MoveStands
<1>23. ASSUME NEW y \in (Trashes \cup Restores) \ {x}, Committed(y), receipts[y].run = r PROVE MoveOK(y)'
  <2>1. receipts'[y] = receipts[y] /\ receipts[y] \in Moves /\ MoveStands(y)
    BY <1>21, <1>23 DEF RecordsInv, CommandsOK, MoveOK, Asked
  <2> PICK i \in Nat : i = receipts[y].entry
    BY <2>1 DEF Moves
  <2>2. i \in 1..n
    BY <1>4, <1>23, <2>1 DEF MoveStands
  <2>3. i \in 1..Len(new) /\ new[i] = trash[r][i]
    BY <1>10, <2>2
  <2> QED BY <1>12, <1>16, <1>23, <2>1, <2>3 DEF MoveOK, MoveStands
<1>24. RecordsInv'
  BY <1>6, <1>8, <1>11, <1>12, <1>13, <1>14, <1>15, <1>16, <1>18, <1>19, <1>20, <1>22, <1>23, MovedStep
<1>25. ASSUME NEW q \in RunIds PROVE VerdictStands(q) /\ CursorsStayDead(q)
  <2>1. CASE q = r
    BY <1>11, <1>13, <1>16, <2>1 DEF VerdictStands, CursorsStayDead, Usable
  <2>2. CASE q # r
    BY <1>15, <2>2 DEF SameRun, VerdictStands, CursorsStayDead, Usable, EventLifecycle, Verdict
  <2> QED BY <2>1, <2>2
<1> QED BY <1>24, <1>25

LEMMA RestoreKeeps ==
  ASSUME RecordsInv, NEW x \in Restores, RestoreRun(x)
  PROVE  RecordsInv' /\ \A q \in RunIds : VerdictStands(q) /\ CursorsStayDead(q)
<1>1. /\ seen[x] # NoValue /\ runs[seen[x].run].status = "trashed"
      /\ seen[x].run \in RunIds
  BY DEF RestoreRun, AsRead, RecordsInv, Fields
<1>2. PICK r \in RunIds : r = seen[x].run
  BY <1>1
<1>3. /\ RunOK(r) /\ trash[r] \in Seq(Entries) /\ runs[r] \in RunRows
      /\ runs \in [RunIds -> RunRows] /\ trash \in [RunIds -> Seq(Entries)]
  BY DEF RecordsInv, Fields, RecordTypes
<1>4. runs[r].prior # NoValue /\ runs[r].status = "trashed"
  BY <1>1, <1>2, <1>3 DEF RunOK, TrashAgrees
<1>5. PICK v \in Verdicts : v = runs[r].prior
  BY <1>3, <1>4 DEF RunRows
<1>6. PICK n \in Nat : n = Len(trash[r])
  BY <1>3, LenProperties
<1>7. /\ {i \in 1..n : trash[r][i].restored = NoValue} = {n}
      /\ trash[r][n].prior = v
  BY <1>3, <1>4, <1>5, <1>6 DEF RunOK, TrashAgrees
<1>8. n \in 1..n /\ \A i \in 1..n : trash[r][i].restored = NoValue => i = n
  BY <1>7
<1>9. PICK last \in Entries : last = trash[r][n]
  BY <1>3, <1>6, <1>8, ElementOfSeq
<1> DEFINE entry == [last EXCEPT !.restored = x]
           answer == [run |-> r, entry |-> n, verdict |-> v]
<1>10. entry \in Entries /\ entry.prior = v /\ entry.by = last.by /\ entry.restored = x
  BY <1>7, <1>9 DEF Entries
<1>11. answer \in Moves /\ answer.run = r /\ answer.entry = n /\ answer.verdict = v
  BY DEF Moves
<1>12. v \notin {"trashed", "absent", "queued", "running"} /\ v # NoValue /\ x # NoValue
  BY CommandsAssumption DEF Verdicts, Asked
<1>13. Verdict(r) = v /\ Ended(r)
  BY <1>4, <1>5 DEF Ended, Verdict
<1>14. PICK new \in Seq(Entries) : new = [trash[r] EXCEPT ![n] = entry]
  BY <1>3, <1>6, <1>8, <1>10, ExceptSeq
<1>15. Len(new) = n /\ \A i \in 1..n : new[i] = IF i = n THEN entry ELSE trash[r][i]
  BY <1>3, <1>6, <1>8, <1>10, <1>14, ExceptSeq
<1>16. Closed(r, x) = new
  BY <1>6, <1>9, <1>14 DEF Closed
<1>17. /\ Commits(x, answer)
       /\ runs' = [runs EXCEPT ![r].status = v, ![r].prior = NoValue]
       /\ trash' = [trash EXCEPT ![r] = new]
       /\ Unfence(x, r)
       /\ UNCHANGED <<experiments, card, messages, chat, seen, downloads, cursor>>
  BY <1>2, <1>5, <1>6, <1>16 DEF RestoreRun
<1> HIDE DEF entry, answer
<1>18. /\ trash'[r] = new /\ trash' \in [RunIds -> Seq(Entries)]
       /\ \A q \in RunIds \ {r} : trash'[q] = trash[q]
  BY <1>3, <1>17
<1>19. /\ runs' \in [RunIds -> RunRows]
       /\ \A q \in RunIds \ {r} : runs'[q] = runs[q]
       /\ runs'[r].first = runs[r].first /\ runs'[r].config = runs[r].config
       /\ runs'[r].reports = runs[r].reports /\ runs'[r].status = v /\ runs'[r].prior = NoValue
  BY <1>3, <1>17 DEF RunRows, Statuses
<1>20. /\ downloads' \in [RunIds -> Nat] /\ fenced' \subseteq RunIds
       /\ \A q \in RunIds \ {r} : downloads'[q] = downloads[q] /\ (q \in fenced' <=> q \in fenced)
       /\ r \in fenced' => r \in fenced
       /\ downloads' = downloads
  BY <1>17 DEF RecordsInv, Fields, RecordTypes, Unfence
<1>21. \A q \in RunIds \ {r} : SameRun(q)
  BY <1>17, <1>18, <1>19, <1>20 DEF SameRun
<1>22. (Verdict(r)' = Verdict(r)) /\ runs'[r].status # "absent"
  BY <1>12, <1>13, <1>19 DEF Verdict
<1>23. TrashAgrees(r)'
  <2> DEFINE open == {i \in 1..Len(new) : new[i].restored = NoValue}
  <2>1. open = {}
    BY <1>8, <1>10, <1>12, <1>15
  <2> QED BY <1>12, <1>15, <1>18, <1>19, <2>1 DEF TrashAgrees
<1>24. StreamsAgree(r)'
  BY <1>3, <1>4, <1>5, <1>19, <1>20 DEF RunOK, StreamsAgree
<1>25. cursor[r] # NoValue =>
         /\ cursor[r] \in Positions /\ cursor[r].status = "succeeded" /\ Verdict(r) = "succeeded"
         /\ cursor[r].entries < n
  BY <1>3, <1>4, <1>6 DEF RunOK, CursorOK
<1>26. CursorOK(r)'
  <2>1. cursor[r] # NoValue => cursor[r].entries \in Nat
    BY <1>25 DEF Positions
  <2> QED BY <1>12, <1>15, <1>17, <1>18, <1>19, <1>22, <1>25, <2>1 DEF CursorOK
<1>27. receipts'[x] = answer /\ \A y \in Asked \ {x} : receipts'[y] = receipts[y]
  BY <1>17, AnswerStays DEF RecordsInv, Asked
<1>28. x \notin Trashes
  BY CommandsAssumption
<1>29. MoveOK(x)'
  BY <1>8, <1>10, <1>11, <1>13, <1>15, <1>18, <1>22, <1>27, <1>28 DEF MoveOK, MoveStands
<1>30. ASSUME NEW y \in (Trashes \cup Restores) \ {x}, Committed(y), receipts[y].run = r PROVE MoveOK(y)'
  <2>1. receipts'[y] = receipts[y] /\ receipts[y] \in Moves /\ MoveStands(y)
    BY <1>27, <1>30 DEF RecordsInv, CommandsOK, MoveOK, Asked
  <2> PICK i \in Nat : i = receipts[y].entry
    BY <2>1 DEF Moves
  <2>2. i \in 1..n
    BY <1>6, <1>30, <2>1 DEF MoveStands
  <2>3. y # NoValue
    BY CommandsAssumption DEF Asked
  <2>4. /\ trash[r][i].prior = receipts[y].verdict /\ Verdict(r) = receipts[y].verdict
        /\ IF y \in Trashes THEN trash[r][i].by = y ELSE trash[r][i].restored = y
    BY <1>30, <2>1 DEF MoveStands
  <2>5. /\ new[i].prior = receipts[y].verdict
        /\ IF y \in Trashes THEN new[i].by = y ELSE new[i].restored = y
    <3>1. CASE i = n
      <4>1. trash[r][i].restored = NoValue
        BY <1>7, <3>1
      <4> QED BY <1>7, <1>9, <1>10, <1>15, <2>2, <2>3, <2>4, <3>1, <4>1
    <3>2. CASE i # n
      BY <1>15, <2>2, <2>4, <3>2
    <3> QED BY <3>1, <3>2
  <2> QED BY <1>15, <1>18, <1>22, <1>30, <2>1, <2>2, <2>4, <2>5 DEF MoveOK, MoveStands
<1>31. RecordsInv'
  BY <1>11, <1>13, <1>17, <1>18, <1>19, <1>20, <1>21, <1>22, <1>23, <1>24, <1>26, <1>29, <1>30, MovedStep
<1>32. ASSUME NEW q \in RunIds PROVE VerdictStands(q) /\ CursorsStayDead(q)
  <2>1. CASE q = r
    <3>1. CursorsStayDead(r)
      <4> SUFFICES ASSUME cursor'[r] = cursor[r], Usable(r)' PROVE FALSE
        BY DEF CursorsStayDead
      <4>1. cursor[r] = EventLifecycle(r)' /\ runs'[r].status = "succeeded"
        BY DEF Usable
      <4>2. EventLifecycle(r)' = [status |-> "succeeded", entries |-> n]
        BY <1>15, <1>18, <4>1 DEF EventLifecycle
      <4>3. cursor[r] \in Positions /\ cursor[r].entries = n
        BY <4>1, <4>2 DEF Positions, Statuses, Verdicts
      <4>4. cursor[r] # NoValue
        BY <4>3, CommandsAssumption
      <4> QED BY <1>25, <4>3, <4>4
    <3>2. VerdictStands(r)
      BY <1>17, <1>22 DEF VerdictStands
    <3> QED BY <2>1, <3>1, <3>2
  <2>2. CASE q # r
    BY <1>21, <2>2 DEF SameRun, VerdictStands, CursorsStayDead, Usable, EventLifecycle, Verdict
  <2> QED BY <2>1, <2>2
<1> QED BY <1>31, <1>32

-----------------------------------------------------------------------------
(* The theorems. *)

\* What stays where it is stands.
LEMMA SameStands ==
  ASSUME NEW r \in RunIds, UNCHANGED <<runs, trash, card>>, r \in messages <=> r \in messages'
  PROVE  VerdictStands(r) /\ CursorsStayDead(r)
  BY DEF VerdictStands, CursorsStayDead, Usable, EventLifecycle, Verdict

\* Nobody was told of the end of a Run that has not ended.
LEMMA LiveStands ==
  ASSUME RecordsInv, NEW r \in RunIds, runs[r].status \in {"absent", "queued", "running"},
         UNCHANGED <<trash, reads>>,
         \A q \in RunIds \ {r} : runs'[q] = runs[q] /\ card'[q] = card[q] /\ (q \in messages' <=> q \in messages)
  PROVE  \A q \in RunIds : VerdictStands(q) /\ CursorsStayDead(q)
<1>1. ~Ended(r) /\ cursor[r] = NoValue
  BY LiveRun
<1>2. CursorsStayDead(r)
  <2> SUFFICES ASSUME Usable(r)', cursor'[r] = NoValue PROVE FALSE
    BY <1>1 DEF CursorsStayDead
  <2>1. trash[r] \in Seq(Entries)
    BY DEF RecordsInv, Fields, RecordTypes
  <2>2. PICK n \in Nat : n = Len(trash[r])
    BY <2>1, LenProperties
  <2>3. EventLifecycle(r)' = [status |-> "succeeded", entries |-> n]
    BY <2>2 DEF EventLifecycle, Usable
  <2>4. EventLifecycle(r)' \in Positions
    BY <2>3 DEF Positions, Statuses, Verdicts
  <2> QED BY <2>4, CommandsAssumption DEF Usable
<1>3. VerdictStands(r)
  BY <1>1 DEF VerdictStands
<1>4. \A q \in RunIds \ {r} : VerdictStands(q) /\ CursorsStayDead(q)
  BY DEF VerdictStands, CursorsStayDead, Usable, EventLifecycle, Verdict, reads
<1> QED BY <1>2, <1>3, <1>4

LEMMA RecordsStep ==
  ASSUME RecordsInv, [RecordsNext]_recordVars
  PROVE  RecordsInv' /\ \A r \in RunIds : VerdictStands(r) /\ CursorsStayDead(r)
<1> DEFINE Stand == \A r \in RunIds : VerdictStands(r) /\ CursorsStayDead(r)
<1>1. UNCHANGED rows => Stand
  BY SameStands DEF rows
<1>2. ASSUME NEW x \in Creates, NEW c \in Configurations, CreateExperiment(x, c) PROVE RecordsInv' /\ Stand
  BY <1>1, <1>2, CreateExperimentKeeps DEF CreateExperiment
<1>3. ASSUME NEW x \in Updates, NEW e \in ExperimentIds, NEW c \in Configurations, ReadExperiment(x, e, c)
      PROVE  RecordsInv' /\ Stand
  BY <1>1, <1>3, ReadKeeps DEF ReadExperiment
<1>4. ASSUME NEW x \in Updates, SaveExperiment(x) PROVE RecordsInv' /\ Stand
  BY <1>1, <1>4, SaveKeeps DEF SaveExperiment
<1>5. ASSUME NEW x \in Starts, NEW e \in ExperimentIds, NEW reports \in BOOLEAN, StartRun(x, e, reports)
      PROVE  RecordsInv' /\ Stand
  <2>1. receipts[x] = NoValue /\ x \in RunIds
    BY <1>5 DEF StartRun, Commits, RunIds
  <2>2. runs[x].status = "absent"
    BY <2>1 DEF RecordsInv, RunOK, Committed
  <2>3. /\ \A q \in RunIds \ {x} : runs'[q] = runs[q] /\ card'[q] = card[q]
        /\ UNCHANGED <<trash, messages, reads>>
    BY <1>5, <2>1 DEF StartRun, RecordsInv, Fields, RecordTypes
  <2>4. Stand
    BY <2>1, <2>2, <2>3, LiveStands
  <2> QED BY <1>5, <2>4, StartKeeps
<1>6. ASSUME NEW r \in RunIds, ClaimRun(r) PROVE RecordsInv' /\ Stand
  <2>1. /\ runs[r].status = "queued" /\ UNCHANGED <<trash, card, messages, reads>>
        /\ \A q \in RunIds \ {r} : runs'[q] = runs[q]
    BY <1>6 DEF ClaimRun, RecordsInv, Fields, RecordTypes
  <2>2. Stand
    BY <2>1, LiveStands
  <2> QED BY <1>6, <2>2, ClaimKeeps
<1>7. ASSUME NEW r \in RunIds, NEW verdict \in Verdicts, RunEnds(r, verdict) PROVE RecordsInv' /\ Stand
  <2>1. /\ runs[r].status \in {"queued", "running"} /\ UNCHANGED <<trash, reads>>
        /\ \A q \in RunIds \ {r} : runs'[q] = runs[q] /\ card'[q] = card[q] /\ (q \in messages' <=> q \in messages)
    BY <1>7 DEF RunEnds, WithCard, RecordsInv, Fields, RecordTypes
  <2>2. Stand
    BY <2>1, LiveStands
  <2> QED BY <1>7, <2>2, EndKeeps
<1>8. ASSUME NEW x \in Cancels, NEW r \in RunIds, RequestCancel(x, r) PROVE RecordsInv' /\ Stand
  <2>1. /\ UNCHANGED <<trash, card, messages, reads>>
        /\ \A q \in RunIds : runs'[q].status = runs[q].status /\ runs'[q].prior = runs[q].prior
    <3>1. UNCHANGED <<trash, card, messages, reads>> /\ runs[r] \in RunRows
      BY <1>8 DEF RequestCancel, RecordsInv, Fields, RecordTypes
    <3>2. runs' = runs \/ \E f : runs' = [runs EXCEPT ![r].first = f]
      BY <1>8 DEF RequestCancel
    <3>3. \A f : runs' = [runs EXCEPT ![r].first = f] =>
            \A q \in RunIds : runs'[q].status = runs[q].status /\ runs'[q].prior = runs[q].prior
      BY <3>1 DEF RecordsInv, Fields, RecordTypes, RunRows
    <3> QED BY <3>1, <3>2, <3>3
  <2>2. Stand
    BY <2>1 DEF VerdictStands, CursorsStayDead, Usable, EventLifecycle, Verdict, reads
  <2> QED BY <1>8, <2>2, CancelKeeps
<1>9. ASSUME NEW x \in Trashes \cup Restores, NEW r \in RunIds, ReadLifecycle(x, r) PROVE RecordsInv' /\ Stand
  BY <1>1, <1>9, LookKeeps DEF ReadLifecycle
<1>10. ASSUME NEW x \in Trashes, TrashRun(x) \/ TrashFails(x) PROVE RecordsInv' /\ Stand
  <2>1. CASE TrashRun(x)
    BY <2>1, TrashKeeps
  <2>2. CASE TrashFails(x)
    BY <1>1, <2>2, FencesKeep DEF TrashFails
  <2> QED BY <1>10, <2>1, <2>2
<1>11. ASSUME NEW x \in Restores, RestoreRun(x) \/ RestoreAgain(x) PROVE RecordsInv' /\ Stand
  <2>1. CASE RestoreRun(x)
    BY <2>1, RestoreKeeps
  <2>2. CASE RestoreAgain(x)
    BY <1>1, <2>2, FencesKeep DEF RestoreAgain
  <2> QED BY <1>11, <2>1, <2>2
<1>12. ASSUME MoveChat("active", "trashed") \/ MoveChat("trashed", "active") \/ DeleteChat PROVE RecordsInv' /\ Stand
  <2>1. UNCHANGED <<runs, trash, card>>
    BY <1>12 DEF MoveChat, DeleteChat, rows
  <2> QED BY <1>12, <2>1, ChatKeeps, SameStands
<1>13. ASSUME NEW r \in RunIds, DownloadOutput(r) \/ DownloadEnds(r) PROVE RecordsInv' /\ Stand
  BY <1>1, <1>13, DownloadsKeep DEF DownloadOutput, DownloadEnds
<1>14. ASSUME NEW r \in RunIds, NEW first \in BOOLEAN, ReadEvents(r, first) PROVE RecordsInv' /\ Stand
  BY <1>1, <1>14, EventsKeep DEF ReadEvents
<1>15. ASSUME Reopen PROVE RecordsInv' /\ Stand
  <2>1. UNCHANGED <<runs, trash>>
    BY <1>15 DEF Reopen
  <2> QED BY <1>15, <2>1, ReopenKeeps, SameStands
<1>16. ASSUME UNCHANGED recordVars PROVE RecordsInv' /\ Stand
  <2>1. UNCHANGED <<experiments, rows, receipts, seen>> /\ RecordTypes' /\ UNCHANGED reads
    BY <1>16 DEF recordVars, rows, reads, RecordsInv, Fields, RecordTypes
  <2>2. \A q \in RunIds : StreamsAgree(q)' /\ CursorOK(q)'
    BY <2>1, SameViews DEF rows, reads
  <2>3. cursor' = [r \in RunIds |-> cursor'[r]]
    BY <2>1 DEF reads, RecordsInv, Fields
  <2> QED BY <1>1, <2>1, <2>2, <2>3, ViewsKeep
<1> HIDE DEF Stand
<1> SUFFICES RecordsInv' /\ Stand
  BY DEF Stand
<1> QED BY <1>2, <1>3, <1>4, <1>5, <1>6, <1>7, <1>8, <1>9, <1>10, <1>11, <1>12, <1>13, <1>14, <1>15, <1>16 DEF RecordsNext

LEMMA RecordsInitOK == RecordsInit => RecordsInv
<1> SUFFICES ASSUME RecordsInit PROVE RecordsInv
  OBVIOUS
<1> USE DEF RecordsInit
<1>1. NoRun \in RunRows /\ <<>> \in Seq(Entries) /\ Len(<<>>) = 0
  BY EmptySeq DEF NoRun, RunRows, Statuses
<1>2. RecordTypes
  BY <1>1 DEF RecordTypes
<1>3. Fields
  BY <1>2 DEF Fields
<1>4. \A x \in Asked : ~Committed(x)
  BY DEF Committed
<1>5. ExperimentsOK
  BY <1>4 DEF ExperimentsOK, Asked
<1>6. ASSUME NEW r \in RunIds PROVE RunOK(r)
  <2>1. runs[r] = NoRun /\ trash[r] = <<>> /\ card[r] = NoValue /\ r \notin messages /\ downloads[r] = 0 /\ cursor[r] = NoValue
    OBVIOUS
  <2>2. NoRun.status = "absent" /\ NoRun.prior = NoValue /\ NoRun.first = NoValue /\ NoRun.reports = FALSE
    BY DEF NoRun
  <2>3. TrashAgrees(r)
    BY <1>1, <2>1, <2>2 DEF TrashAgrees
  <2>4. CardAgrees(r)
    BY <2>1, <2>2, CommandsAssumption DEF CardAgrees, Dispositions, Ended, Verdict, Verdicts
  <2>5. CardAgrees(r) /\ StreamsAgree(r) /\ CursorOK(r)
    BY <2>1, <2>2, <2>4 DEF StreamsAgree, CursorOK
  <2> QED BY <1>4, <2>1, <2>2, <2>3, <2>5 DEF RunOK, Asked, RunIds
<1>7. CommandsOK
  BY <1>4 DEF CommandsOK, StartOK, CancelOK, MoveOK, Asked
<1> QED BY <1>3, <1>5, <1>6, <1>7 DEF RecordsInv

\* A Run's row, its trash, its completion card and the streams of its outputs agree after
\* any commands, repetitions, deletions of the Conversation and restarts.
THEOREM RecordsAgreeTheorem == RecordsSpec => []RecordsAgree
<1>1. RecordsInit => RecordsInv
  BY RecordsInitOK
<1>2. RecordsInv /\ [RecordsNext]_recordVars => RecordsInv'
  BY RecordsStep
<1>3. RecordsInv => RecordsAgree
  BY RecordsInvHolds
<1> QED BY <1>1, <1>2, <1>3, PTL DEF RecordsSpec

\* No repetition of a command finds its receipt in conflict with the rows, whatever other
\* commands came in between.
THEOREM ReceiptsStandUpTheorem == RecordsSpec => []ReceiptsStandUp
<1>1. RecordsInit => RecordsInv
  BY RecordsInitOK
<1>2. RecordsInv /\ [RecordsNext]_recordVars => RecordsInv'
  BY RecordsStep
<1>3. RecordsInv => ReceiptsStandUp
  BY RecordsInvHolds
<1> QED BY <1>1, <1>2, <1>3, PTL DEF RecordsSpec

\* No step gives a Run that ended another verdict or another card, or makes a dead cursor
\* good again.
THEOREM HistoryStandsTheorem == RecordsSpec => HistoryStands
<1>1. RecordsInit => RecordsInv
  BY RecordsInitOK
<1>2. RecordsInv /\ [RecordsNext]_recordVars => RecordsInv'
  BY RecordsStep
<1>3. RecordsInv /\ [RecordsNext]_recordVars =>
        [\A r \in RunIds : VerdictStands(r) /\ CursorsStayDead(r)]_recordVars
  BY RecordsStep
<1> QED BY <1>1, <1>2, <1>3, PTL DEF RecordsSpec, HistoryStands
==============================================================================
