------------------------------ MODULE RunSchema ------------------------------
(***************************************************************************)
(* What the database of the historical product permits: the row            *)
(* transitions that the triggers of product-schema.ts let through for a    *)
(* Run, its one attempt and the scratch leases, launch manifests and       *)
(* processes of its units, one definition per trigger or group of          *)
(* triggers.  It knows nothing of dispatchers, supervisors or recovery;    *)
(* whatever they commit has to be a step of this module.                   *)
(***************************************************************************)
EXTENDS Integers

CONSTANTS Runs, VisualRuns, Units

VARIABLES
  status, cancel, outputs,      \* runs, and the presence of its output_indexes
  attempt, owner, generation,   \* run_attempts, dispatcher_state
  lease, manifest, process,     \* run_scratch_leases, process_launch_manifests, process_attempts
  healthy, exitOk,              \* visual_health_receipts, exit code 0 without a signal
  recovery                      \* run_recovery_actions of the latest candidate

rows == <<status, cancel, outputs, attempt, owner, generation, lease, manifest, process,
          healthy, exitOk, recovery>>

Terminal == {"succeeded", "failed", "cancelled", "timed_out"}
LiveAttempt == {"claimed", "starting", "running"}
UnitsOf(r) == {u \in Units : u[1] = r}

Ends(r) == status'[r] # status[r] /\ status'[r] \in Terminal
Moves(row, x, permitted) == row'[x] # row[x] => <<row[x], row'[x]>> \in permitted
-----------------------------------------------------------------------------
(* runs *)

StatusTransition(r) ==
  Moves(status, r, {<<"absent", "queued">>}
                     \cup ({"queued"} \X {"running", "failed", "cancelled"})
                     \cup ({"running"} \X Terminal))

CancelIntent(r) ==
  cancel'[r] # cancel[r] => cancel'[r] /\ status[r] \in {"queued", "running"}

\* A Run ends as cancelled exactly if a cancellation was committed before.
CancelPrecedence(r) == Ends(r) => (status'[r] = "cancelled") = cancel[r]

VerifiedCleanup(r) ==
  Ends(r) => \A u \in UnitsOf(r) : process[u] \in {"none", "cleanup_complete"}

CancelledQueueNoLaunch(r) == cancel[r] /\ status[r] = "queued" => status'[r] # "running"

\* What a batch Run needs is left to the function the store registers for it.
SuccessContext(r) ==
  Ends(r) /\ status'[r] = "succeeded" /\ r \in VisualRuns =>
    /\ attempt'[r] = "succeeded"
    /\ \A u \in UnitsOf(r) :
         /\ process[u] = "cleanup_complete" /\ manifest[u] = "cleanup_complete"
         /\ lease[u] = "cleanup_complete" /\ exitOk[u] /\ healthy[u]

OutputContract(r) ==
  outputs'[r] # outputs[r] => outputs'[r] /\ status[r] = "running" /\ status'[r] = "succeeded"
-----------------------------------------------------------------------------
(* run_attempts *)

AttemptOwner(r) ==
  attempt[r] = "none" /\ attempt'[r] # "none" => status[r] \in {"queued", "running"}

\* Only the current dispatcher generation inserts or moves an attempt.
AttemptGeneration(r) == attempt'[r] # attempt[r] => owner'[r] = generation

AttemptBinding(r) == attempt[r] # "none" => owner'[r] = owner[r]

AttemptTransition(r) ==
  Moves(attempt, r,
    {<<"none", "claimed">>} \cup ({"claimed"} \X {"starting", "cancelled", "interrupted"})
      \cup ({"starting"} \X {"running", "failed", "cancelled", "timed_out", "interrupted"})
      \cup ({"running"} \X (Terminal \cup {"interrupted"})))

AttemptCancelPrecedence(r) ==
  attempt'[r] # attempt[r] /\ attempt'[r] \in Terminal => (attempt'[r] = "cancelled") = cancel[r]
-----------------------------------------------------------------------------
(* run_scratch_leases, process_launch_manifests, process_attempts *)

LeaseTransition(u) ==
  Moves(lease, u,
    {<<"none", "planned">>, <<"active", "cleanup_complete">>}
      \cup ({"planned"} \X {"created", "cleanup_complete"})
      \cup ({"created"} \X {"active", "cleanup_complete"}))

ManifestOwner(u) == manifest[u] = "none" /\ manifest'[u] # "none" => lease'[u] # "none"

ManifestTransition(u) ==
  Moves(manifest, u,
    {<<"none", "planned">>, <<"planned", "registered">>, <<"released", "exited">>,
     <<"exited", "cleanup_complete">>} \cup ({"registered"} \X {"released", "exited"}))

ProcessGeneration(u) == process'[u] # process[u] => owner[u[1]] = generation

ProcessTransition(u) ==
  Moves(process, u,
    {<<"none", "blocked">>, <<"running", "exited">>, <<"exited", "cleanup_complete">>}
      \cup ({"blocked"} \X {"released", "exited"}) \cup ({"released"} \X {"running", "exited"}))

\* A process is inserted, blocked, with the launch receipt its manifest and its lease
\* are bound to.
RequiresLaunchReceipt(u) ==
  process[u] = "none" /\ process'[u] # "none" =>
    lease'[u] = "active" /\ manifest'[u] = "registered"

ExitEvidence(u) == exitOk'[u] # exitOk[u] => process'[u] = "exited" /\ process[u] # "exited"

HealthTransition(u) ==
  healthy'[u] # healthy[u] =>
    /\ healthy'[u] /\ u[1] \in VisualRuns
    /\ process[u] = "running" /\ process'[u] = "running"
    /\ manifest[u] = "released" /\ lease[u] = "active"
-----------------------------------------------------------------------------
(* run_recovery_actions *)

RecoveryOwner(r) == recovery[r] = "none" /\ recovery'[r] # "none" => attempt[r] # "none"

\* A failed action stays; a later candidate begins one of its own.
RecoveryTransition(r) ==
  Moves(recovery, r, {<<"none", "started">>, <<"failed", "started">>}
                       \cup ({"started"} \X {"completed", "failed"}))
-----------------------------------------------------------------------------
SchemaInit ==
  /\ status = [r \in Runs |-> "absent"]
  /\ cancel = [r \in Runs |-> FALSE] /\ outputs = [r \in Runs |-> FALSE]
  /\ attempt = [r \in Runs |-> "none"]
  /\ owner = [r \in Runs |-> 0] /\ generation = 0
  /\ lease = [u \in Units |-> "none"] /\ manifest = [u \in Units |-> "none"]
  /\ process = [u \in Units |-> "none"]
  /\ healthy = [u \in Units |-> FALSE] /\ exitOk = [u \in Units |-> FALSE]
  /\ recovery = [r \in Runs |-> "none"]

Permitted ==
  /\ \A r \in Runs :
       /\ StatusTransition(r) /\ CancelIntent(r) /\ CancelPrecedence(r) /\ VerifiedCleanup(r)
       /\ CancelledQueueNoLaunch(r) /\ SuccessContext(r) /\ OutputContract(r)
       /\ AttemptOwner(r) /\ AttemptGeneration(r) /\ AttemptBinding(r)
       /\ AttemptTransition(r) /\ AttemptCancelPrecedence(r)
       /\ RecoveryOwner(r) /\ RecoveryTransition(r)
  /\ \A u \in Units :
       /\ LeaseTransition(u) /\ ManifestOwner(u) /\ ManifestTransition(u)
       /\ ProcessGeneration(u) /\ ProcessTransition(u) /\ RequiresLaunchReceipt(u)
       /\ ExitEvidence(u) /\ HealthTransition(u)

SchemaSpec == SchemaInit /\ [][Permitted]_rows
=============================================================================
