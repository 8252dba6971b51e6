------------------------------ MODULE WriterLock ------------------------------
(***************************************************************************)
(* The writer lock of object-store.ts: a file that names the process which *)
(* may change the product store.  A process that finds the lock of a dead  *)
(* process moves it aside and tries once more.                             *)
(*                                                                         *)
(* Every step is one file operation; processes of one machine start and    *)
(* interleave as they like and may die at any time.  A process is one      *)
(* incarnation: it starts once, and the start token in the lock tells it   *)
(* from any other process with its pid.                                    *)
(***************************************************************************)
EXTENDS Naturals

CONSTANT MaxProcesses  \* bound: processes that are ever started

ASSUME LockAssumption == MaxProcesses \in Nat

Processes == 1..MaxProcesses   \* in the order in which they start

VARIABLES
  lockFile,   \* the process that created the file at the lock path, if there is one
  record,     \* has that process written its record into it?
  writer,     \* what a process is doing
  attempt     \* how often it tried

lockVars == <<lockFile, record, writer, attempt>>

NoFile == 0
Earlier == MaxProcesses + 1    \* a process that died before
Starting == {"trying", "writing", "stale"}
Live(p) == p \in Processes /\ writer[p] \notin {"off", "gone"}

LockInit ==
  /\ lockFile \in {NoFile, Earlier} /\ record \in BOOLEAN /\ (record => lockFile = Earlier)
  /\ writer = [p \in Processes |-> "off"] /\ attempt = [p \in Processes |-> 0]

WriterStep(p, from, to) ==
  /\ writer[p] = from
  /\ writer' = [writer EXCEPT ![p] = to]

StartWriter(p) ==
  /\ \A q \in 1..(p - 1) : writer[q] # "off"
  /\ WriterStep(p, "off", "trying")
  /\ attempt' = [attempt EXCEPT ![p] = 1]
  /\ UNCHANGED <<lockFile, record>>

\* openSync with O_CREAT and O_EXCL.
CreateLock(p) ==
  /\ lockFile = NoFile
  /\ WriterStep(p, "trying", "writing")
  /\ lockFile' = p /\ record' = FALSE
  /\ UNCHANGED attempt

\* The record goes to the file the process created, wherever it is by now.
WriteLock(p) ==
  /\ WriterStep(p, "writing", "owner")
  /\ record' = IF lockFile = p THEN TRUE ELSE record
  /\ UNCHANGED <<lockFile, attempt>>

\* Another process made the file: it is corrupt as long as it has no record, and
\* in force as long as that process lives.
LockHeld(p) ==
  /\ lockFile # NoFile /\ (~record \/ Live(lockFile))
  /\ WriterStep(p, "trying", "gone")
  /\ UNCHANGED <<lockFile, record, attempt>>

LockRecorded(p) ==
  /\ lockFile # NoFile /\ record
  /\ WriterStep(p, "trying", "stale")
  /\ UNCHANGED <<lockFile, record, attempt>>

LockStale(p) ==
  /\ lockFile # NoFile /\ record /\ ~Live(lockFile)
  /\ WriterStep(p, "trying", "stale")
  /\ UNCHANGED <<lockFile, record, attempt>>

\* renameSync to the quarantine moves whatever is at the path by now.
Quarantine(p) ==
  /\ IF lockFile # NoFile /\ attempt[p] < 2
       THEN WriterStep(p, "stale", "trying") ELSE WriterStep(p, "stale", "gone")
  /\ attempt' = [attempt EXCEPT ![p] = @ + 1]
  /\ lockFile' = NoFile /\ record' = FALSE

\* releaseWriterLock, and the end of the process.
ReleaseLock(p) ==
  /\ WriterStep(p, "owner", "gone")
  /\ IF lockFile = p THEN lockFile' = NoFile /\ record' = FALSE
                     ELSE UNCHANGED <<lockFile, record>>
  /\ UNCHANGED attempt

WriterDies(p) ==
  /\ Live(p)
  /\ writer' = [writer EXCEPT ![p] = "gone"]
  /\ UNCHANGED <<lockFile, record, attempt>>

AcquireSteps(p) ==
  \/ CreateLock(p) \/ WriteLock(p) \/ LockHeld(p) \/ LockStale(p) \/ Quarantine(p)

LockNext ==
  \E p \in Processes :
    StartWriter(p) \/ AcquireSteps(p) \/ ReleaseLock(p) \/ WriterDies(p)

LockSpec == LockInit /\ [][LockNext]_lockVars
-----------------------------------------------------------------------------
LockTypeOK ==
  /\ lockFile \in {NoFile, Earlier} \cup Processes /\ record \in BOOLEAN
  /\ writer \in [Processes -> {"off", "owner", "gone"} \cup Starting]
  /\ attempt \in [Processes -> Nat]

Owners == {p \in Processes : writer[p] = "owner"}

\* p owns the store and the lock says so; no other process is about to own it or
\* about to move a lock aside.
Holds(p) ==
  /\ writer[p] = "owner" /\ lockFile = p /\ record
  /\ \A q \in Processes \ {p} : writer[q] \notin {"owner", "writing", "stale"}

\* A writer that holds the lock while no other process is taking it over stays the only
\* writer until it releases the lock or dies, whoever starts and dies meanwhile: an
\* acquireWriterLock that reads the record of a live process gives up.
WriterKeepsLock ==
  [][\A p \in Processes : Holds(p) /\ writer'[p] = "owner" => Holds(p)']_lockVars
=============================================================================
