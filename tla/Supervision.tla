------------------------------ MODULE Supervision ------------------------------
(***************************************************************************)
(* What the dispatcher of the historical product and its two supervisors   *)
(* share: the processes, scratch directories and launch receipts on the    *)
(* machine, the memory of the backend process, and what an abort, a first  *)
(* failure and the end of a supervision do to them.                        *)
(*                                                                         *)
(* Every store call is one synchronous transaction.  The backend is one    *)
(* event loop: a handler runs to its next real wait before anything else   *)
(* starts (Quiet), but the machine can die between any two of its          *)
(* transactions, and the processes it launched live on without it.         *)
(***************************************************************************)
EXTENDS RunStore

CONSTANT Workers      \* limits.maxConcurrency

VARIABLES
  os, dir, receipt,            \* process group, scratch directory, launch receipt on disk
  server, boot, fatal,         \* this backend process and its latched lastError
  exec, aborted, failure,      \* per Run: #execute, its AbortController, the supervisor's fatal
  rejected,                    \* per Run: supervise threw while other samples still ran
  sup                          \* per unit: where its runSample stands

machine == <<os, dir, receipt>>
backend == <<server, boot, fatal>>
perRun == <<exec, aborted, failure, rejected>>
vars == <<rowVars, machine, backend, perRun, sup>>
-----------------------------------------------------------------------------
(* Where a unit stands in its supervisor. *)

InCall == {"planned", "made", "listed", "registered", "released"}
Active == {"starting", "running", "serving", "terminating"}
Ended == {"succeeded", "failed"}
Gone == {"ended", "finished"}

InFlight(r) == {u \in UnitsOf(r) : sup[u] \notin {"idle"} \cup Ended}
Idle(r) == {u \in UnitsOf(r) : sup[u] = "idle"}

\* A worker takes the next sample until one failed; the worker whose sample
\* threw out of runSample is gone.
WorkerFree(r) ==
  /\ exec[r] = "supervising" \/ rejected[r]
  /\ failure[r] = "none" /\ Idle(r) # {}
  /\ Cardinality(InFlight(r)) < (IF rejected[r] THEN Workers - 1 ELSE Workers)
  /\ r \in VisualRuns => ~rejected[r]

Settled(r) ==
  /\ exec[r] = "supervising" /\ InFlight(r) = {}
  /\ Idle(r) = {} \/ failure[r] # "none"

\* The event loop is free: no handler stands between two of its waits.
Quiet ==
  /\ server \in {"up", "stopping"}
  /\ \A u \in Units : sup[u] \notin InCall
  /\ \A r \in Runs : exec[r] \in {"idle", "supervising"} /\ ~WorkerFree(r) /\ ~Settled(r)
-----------------------------------------------------------------------------
(* Steps of one unit. *)

Goes(u, from, to) ==
  /\ sup[u] = from
  /\ sup' = [sup EXCEPT ![u] = to]

\* A step that commits rows only, and one that touches the machine only.
Commits(u, from, to) == Goes(u, from, to) /\ UNCHANGED <<machine, backend, perRun>>
Launches(u, from, to) == Goes(u, from, to) /\ UNCHANGED <<rowVars, backend, perRun>>

MakeDirectory(u) ==
  /\ dir' = [dir EXCEPT ![u] = TRUE]
  /\ UNCHANGED <<os, receipt>>

GroupBecomes(u, to) ==
  /\ os' = [os EXCEPT ![u] = to]
  /\ UNCHANGED <<dir, receipt>>
-----------------------------------------------------------------------------
(* Failures and aborts. *)

\* terminateAll: SIGTERM, then SIGKILL, to the groups of every active sample of r.
KillActive(rs, o) ==
  [u \in Units |-> IF UnitRun(u) \in rs /\ sup[u] \in Active /\ o[u] = "working"
                     THEN "dying" ELSE o[u]]

\* fail(kind): the first failure of a Run is the one that counts.
Fail(r, kind) ==
  failure' = [failure EXCEPT ![r] = IF @ = "none" THEN kind ELSE @]

\* In the batch supervisor the first failure also stops the other samples.
FailAndStop(r, kind) ==
  /\ Fail(r, kind)
  /\ os' = IF failure[r] = "none" /\ r \in BatchRuns THEN KillActive({r}, os) ELSE os
  /\ UNCHANGED <<rowVars, dir, receipt, backend, exec, rejected>>

\* abort(): a batch supervisor that still listens stops at once, a visual one at
\* its next wait.
Stopped(rs) == {r \in rs \cap BatchRuns :
                  exec[r] = "supervising" /\ failure[r] = "none"}
Abort(rs) ==
  /\ aborted' = [r \in Runs |-> aborted[r] \/ (r \in rs /\ exec[r] # "idle")]
  /\ failure' = [r \in Runs |-> IF r \in Stopped(rs) THEN "failed" ELSE failure[r]]
  /\ os' = KillActive(Stopped(rs), os)
  /\ UNCHANGED <<dir, receipt, rejected>>

\* #execute leaves its block for the next one, or for its end.
ExecGoes(r, to) ==
  /\ exec' = [exec EXCEPT ![r] = to]
  /\ UNCHANGED <<aborted, failure, rejected>>

Unwound(r) == ExecGoes(r, "idle") /\ UNCHANGED <<machine, backend, sup>>
=============================================================================
