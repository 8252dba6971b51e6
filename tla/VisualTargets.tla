---------------------------- MODULE VisualTargets ----------------------------
(***************************************************************************)
(* What a browser frame or an Agent may look at: the visual Runs of one    *)
(* Project, as the Store has them and as the operating system has them.    *)
(* The one visual lane executes a Run at a time, and the Runs get the same *)
(* loopback port, which other processes of the machine may take as well.   *)
(***************************************************************************)
CONSTANTS Runs, NoRun, Nobody, Stranger

ASSUME ListenersDiffer == Nobody # Stranger /\ {NoRun, Nobody, Stranger} \cap Runs = {}

VARIABLES
  row,      \* what the Store says of a Run and its process
  listener  \* the process that listens at the port: a Run's, a stranger's, or none

targetVars == <<row, listener>>

Rows == {"queued", "current", "lapsed", "cancelled", "over", "trashed", "deleted"}
Unfinished == {"current", "lapsed", "cancelled"}

TargetInit ==
  /\ row = [r \in Runs |-> "queued"]
  /\ listener = Nobody

\* A healthy process of a running Run that nobody cancelled and whose time is not up.
CurrentHealthyTarget(r) == row[r] = "current"

\* The listener of the port is the process the Store recorded for the Run (same pid,
\* start token and process group).
ListenerIs(r) == listener = r

Goes(r, s) == row' = [row EXCEPT ![r] = s]

\* recordVisualProcessHealth: the process listens, and its receipt is stored.
RecordHealth(r) ==
  /\ row[r] = "queued" /\ \A x \in Runs : row[x] \notin Unfinished
  /\ listener = Nobody
  /\ listener' = r
  /\ Goes(r, "current")

\* The time limit of the attempt passes; its Run is still running.
Lapse(r) ==
  /\ row[r] = "current"
  /\ Goes(r, "lapsed")
  /\ UNCHANGED listener

CancelRow(r) ==
  /\ row[r] \in {"current", "lapsed"}
  /\ Goes(r, "cancelled")
  /\ UNCHANGED listener

\* finalizeVisualRunTerminal: the process is gone, and its cleanup was verified.
FinalizeRow(r) ==
  /\ row[r] \in Unfinished /\ ~ListenerIs(r)
  /\ Goes(r, "over")
  /\ UNCHANGED listener

TrashRow(r) ==
  /\ row[r] = "over"
  /\ Goes(r, "trashed")
  /\ UNCHANGED listener

\* The Project is deleted for good, with all its Runs.
DeleteRows ==
  /\ \A r \in Runs : row[r] \notin Unfinished \cup {"deleted"}
  /\ row' = [r \in Runs |-> "deleted"]
  /\ UNCHANGED listener

\* The backend dies, and the next one recovers what it left: no process of a Run
\* survives that, and no Run it was executing.
RecoverRows ==
  /\ row' = [r \in Runs |-> IF row[r] \in Unfinished THEN "over" ELSE row[r]]
  /\ listener' = IF listener \in Runs THEN Nobody ELSE listener

\* A process ends, or another one takes or leaves the port.  A Run's process that
\* has stopped listening does not listen again.
ProcessEnds == listener \in Runs /\ listener' = Nobody /\ UNCHANGED row
StrangerListens == listener = Nobody /\ listener' = Stranger /\ UNCHANGED row
StrangerLeaves == listener = Stranger /\ listener' = Nobody /\ UNCHANGED row

Machine == ProcessEnds \/ StrangerListens \/ StrangerLeaves

TargetTypes == row \in [Runs -> Rows] /\ listener \in Runs \cup {Nobody, Stranger}
=============================================================================
