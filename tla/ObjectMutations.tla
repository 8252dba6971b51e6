--------------------------- MODULE ObjectMutations ---------------------------
(***************************************************************************)
(* mutation-coordinator.ts: a mutation changes files of the object tree    *)
(* and the database rows that describe them.  The files are journaled: the *)
(* next and the prior bytes go to a staging directory, a manifest is       *)
(* published, and the receipt that is committed with the rows decides      *)
(* whether the manifest is rolled forward or back.                         *)
(*                                                                         *)
(* Every step is one file operation or one database transaction; the       *)
(* process may die between any two, and any of them may fail.  A mutation  *)
(* runs on one synchronous call of the coordinator of a process that owns  *)
(* the writer lock.                                                        *)
(*                                                                         *)
(* One coordinator is open at a time: what two of them would do to each    *)
(* other, should two processes come to own the store, is not modelled.     *)
(***************************************************************************)
EXTENDS WriterLock

CONSTANTS Objects, Contents

Absent == "absent"
Content == Contents \cup {Absent}

ASSUME ContentsAssumption == Absent \notin Contents

VARIABLES
  file,      \* contents of the object tree
  row,       \* contents the committed rows of object_files describe
  ops,       \* objects the manifest names,
  want,      \* with their next
  prior,     \* and prior contents
  dir,       \* the staging directory exists,
  next,      \* with next bytes,
  backup,    \* copies of prior bytes
  removed,   \* and removed files
  manifest,  \* the manifest is published
  receipt,   \* its receipt is in committed_mutations
  stray,     \* there are other staging directories, without a manifest
  left,      \* objects of manifests that a failed #prepare left behind
  contested, \* history: objects a mutation was begun on while they were in left
  opener,    \* the process whose coordinator is open,
  coord,     \* the coordinator: closed, recovering, ready or poisoned
  phase,     \* where its mutation stands
  todo       \* objects the phase still has to handle

remains == <<stray, left, contested>>
disk == <<file, row, ops, want, prior, dir, next, backup, removed, manifest, receipt, remains>>
memory == <<opener, coord, phase, todo>>
vars == <<disk, memory, lockVars>>

Nobody == 0
Deletes == {o \in ops : want[o] = Absent}

Init ==
  /\ LockInit
  /\ row \in [Objects -> Content] /\ file = row
  /\ ops = {} /\ want = row /\ prior = row
  /\ dir = FALSE /\ next = {} /\ backup = {} /\ removed = {}
  /\ manifest = FALSE /\ receipt = FALSE
  /\ stray = FALSE /\ left = {} /\ contested = {}
  /\ opener = Nobody /\ coord = "closed" /\ phase = "idle" /\ todo = {}

Goes(from, to, rest) ==
  /\ phase = from
  /\ phase' = to /\ todo' = rest
  /\ UNCHANGED <<opener, coord, lockVars>>

Handles(in, o) == o \in todo /\ Goes(in, in, todo \ {o})
-----------------------------------------------------------------------------
(* #prepare: the staging directory and the manifest. *)

\* The caller names what it found in the rows; a delete needs something to delete.
Begin(objects, to) ==
  /\ coord = "ready" /\ objects # {}
  /\ \A o \in objects : file[o] = row[o] /\ (to[o] = Absent => row[o] # Absent)
  /\ \A o \in Objects \ objects : to[o] = row[o]
  /\ Goes("idle", "staging", objects)
  /\ ops' = objects /\ want' = to /\ prior' = row /\ dir' = TRUE
  /\ contested' = contested \cup (objects \cap left)
  /\ UNCHANGED <<file, row, next, backup, removed, manifest, receipt, stray, left>>

Stage(o) ==
  /\ Handles("staging", o)
  /\ next' = IF want[o] # Absent THEN next \cup {o} ELSE next
  /\ backup' = IF want[o] # Absent /\ prior[o] # Absent THEN backup \cup {o} ELSE backup
  /\ UNCHANGED <<file, row, ops, want, prior, dir, removed, manifest, receipt, remains>>

Publish ==
  /\ todo = {} /\ Goes("staging", "published", {})
  /\ manifest' = TRUE /\ receipt' = FALSE
  /\ UNCHANGED <<file, row, ops, want, prior, dir, next, backup, removed, remains>>

\* It throws; the manifest may have been renamed into place before that.
PrepareThrows(renamed) ==
  /\ renamed => todo = {}
  /\ Goes("staging", "aborting", {})
  /\ manifest' = renamed
  /\ UNCHANGED <<file, row, ops, want, prior, dir, next, backup, removed, receipt, remains>>

RemovesDirectory == dir' = FALSE /\ next' = {} /\ backup' = {} /\ removed' = {}

\* Without a manifest there is no mutation.
Forgotten == manifest' = FALSE /\ ops' = {} /\ want' = row /\ prior' = row /\ receipt' = FALSE

\* The catch of #prepare unlinks the manifest and removes the directory,
AbortManifest ==
  /\ manifest /\ Goes("aborting", "aborting", {})
  /\ manifest' = FALSE
  /\ UNCHANGED <<file, row, ops, want, prior, dir, next, backup, removed, receipt, remains>>

AbortDirectory ==
  /\ ~manifest /\ Goes("aborting", "idle", {})
  /\ RemovesDirectory /\ Forgotten
  /\ UNCHANGED <<file, row, remains>>

\* and leaves them behind if it throws: the coordinator stays ready.
AbortFails ==
  /\ Goes("aborting", "idle", {})
  /\ IF manifest THEN left' = left \cup ops /\ stray' = stray
                 ELSE left' = left /\ stray' = TRUE
  /\ RemovesDirectory /\ Forgotten
  /\ UNCHANGED <<file, row, contested>>
-----------------------------------------------------------------------------
(* #execute, once the manifest is published. *)

BeginTransaction ==
  /\ \A o \in ops : file[o] = prior[o] /\ row[o] = prior[o]
  /\ Goes("published", "deleting", Deletes)
  /\ UNCHANGED disk

StageDelete(o) ==
  /\ Handles("deleting", o) /\ file[o] = prior[o] /\ o \notin removed
  /\ file' = [file EXCEPT ![o] = Absent] /\ removed' = removed \cup {o}
  /\ UNCHANGED <<row, ops, want, prior, dir, next, backup, manifest, receipt, remains>>

\* The rows and the receipt are written, but not committed.
RunStatements ==
  /\ todo = {} /\ Deletes \subseteq removed
  /\ Goes("deleting", "promoting", ops)
  /\ UNCHANGED disk

\* #rollForward of one object.  Of a delete, the target is gone by then (if there is
\* one again, it is not the file the manifest knows), and its staged bytes must be
\* there, or no directory any more.
CanForward(o) ==
  IF want[o] = Absent THEN file[o] = Absent /\ (o \in removed \/ ~dir)
  ELSE file[o] = want[o] \/ (file[o] \in {prior[o], Absent} /\ o \in next)

Forward(o) ==
  /\ CanForward(o)
  /\ file' = [file EXCEPT ![o] = want[o]]
  /\ next' = IF file[o] = want[o] THEN next ELSE next \ {o}
  /\ UNCHANGED <<row, ops, want, prior, dir, backup, removed, manifest, receipt, remains>>

Promote(o) == Handles("promoting", o) /\ Forward(o)

Commit ==
  /\ todo = {} /\ Goes("promoting", "cleaning", {})
  /\ row' = [o \in Objects |-> IF o \in ops THEN want[o] ELSE row[o]]
  /\ receipt' = TRUE
  /\ UNCHANGED <<file, ops, want, prior, dir, next, backup, removed, manifest, remains>>

\* #cleanup, after a commit ("cleaning") or a recovery ("tidying"): rmSync removes the
\* files of the directory in some order, then the directory; then the manifest goes.
Cleanups == {"cleaning", "tidying"}
Cleans == dir /\ \E at \in Cleanups : Goes(at, at, {})

CleanFile(o) ==
  /\ Cleans
  /\ \/ o \in next /\ next' = next \ {o} /\ UNCHANGED <<backup, removed>>
     \/ o \in backup /\ backup' = backup \ {o} /\ UNCHANGED <<next, removed>>
     \/ o \in removed /\ removed' = removed \ {o} /\ UNCHANGED <<next, backup>>
  /\ UNCHANGED <<file, row, ops, want, prior, dir, manifest, receipt, remains>>

CleanDirectory ==
  /\ Cleans /\ next = {} /\ backup = {} /\ removed = {}
  /\ dir' = FALSE
  /\ UNCHANGED <<file, row, ops, want, prior, next, backup, removed, manifest, receipt, remains>>

CleanManifest ==
  /\ ~dir /\ \E at \in Cleanups : Goes(at, "idle", {})
  /\ Forgotten
  /\ UNCHANGED <<file, row, dir, next, backup, removed, remains>>

\* Anything may throw; what was not committed is rolled back in the database.
Throws ==
  /\ \E from \in {"published", "deleting", "promoting", "cleaning"} :
       Goes(from, "recovering", ops)
  /\ coord = "ready"
  /\ UNCHANGED disk
-----------------------------------------------------------------------------
(* #recoverOne, after an error and when the store is opened. *)

Restorable(o) ==
  IF want[o] = Absent THEN (file[o] = prior[o] /\ o \notin removed)
                           \/ (file[o] = Absent /\ o \in removed)
  ELSE \/ file[o] = prior[o]
       \/ file[o] \in {want[o], Absent} /\ (prior[o] = Absent \/ o \in backup)

\* #rollBack of one object.
Back(o) ==
  /\ Restorable(o)
  /\ file' = [file EXCEPT ![o] = prior[o]]
  /\ removed' = removed \ {o}
  /\ UNCHANGED <<row, ops, want, prior, dir, next, backup, manifest, receipt, remains>>

CanRecover(o) == IF receipt THEN CanForward(o) ELSE Restorable(o)

Recover(o) ==
  /\ Handles("recovering", o)
  /\ IF receipt THEN Forward(o) ELSE Back(o)

RecoveredFirst ==
  /\ Goes("recovering", "tidying", {})
  /\ UNCHANGED disk

Recovered ==
  /\ todo = {} /\ Goes("recovering", "tidying", {})
  /\ UNCHANGED disk

\* Recovery fails: a live coordinator is poisoned and keeps the lock.
Poison ==
  /\ coord = "ready" /\ phase \in {"recovering", "tidying"}
  /\ coord' = "poisoned" /\ phase' = "idle" /\ todo' = {}
  /\ UNCHANGED <<disk, opener, lockVars>>
-----------------------------------------------------------------------------
(* The life of the coordinator. *)

Closes == opener' = Nobody /\ coord' = "closed" /\ phase' = "idle" /\ todo' = {}

OpenStore(p) ==
  /\ writer[p] = "owner" /\ coord = "closed"
  /\ opener' = p /\ coord' = "recovering"
  /\ UNCHANGED <<disk, phase, todo, lockVars>>

Opening == coord = "recovering" /\ phase = "idle"

\* recoverPending takes up the manifests it finds: the one of the last mutation,
TakeUp ==
  /\ Opening /\ manifest
  /\ Goes("idle", "recovering", ops)
  /\ UNCHANGED disk

\* and those a failed #prepare left.  They are rolled back, which changes nothing if
\* nobody changed their objects meanwhile; what it makes of a contested object depends
\* on its bytes and is left open here.
RecoverLeft(o, content) ==
  /\ Opening /\ o \in left \cap contested
  /\ file' = [file EXCEPT ![o] = content]
  /\ UNCHANGED <<row, ops, want, prior, dir, next, backup, removed, manifest, receipt, remains,
                 memory, lockVars>>

CleanLeft(objects) ==
  /\ Opening /\ objects \subseteq left /\ objects # {}
  /\ left' = left \ objects
  /\ UNCHANGED <<file, row, ops, want, prior, dir, next, backup, removed, manifest, receipt,
                 stray, contested, memory, lockVars>>

\* A staging directory without a manifest never took effect.
DropUnpublished ==
  /\ Opening /\ ~manifest /\ left = {} /\ (dir \/ stray)
  /\ RemovesDirectory /\ Forgotten /\ stray' = FALSE
  /\ UNCHANGED <<file, row, left, contested, memory, lockVars>>

Opened ==
  /\ Opening /\ ~manifest /\ left = {} /\ ~dir /\ ~stray
  /\ coord' = "ready"
  /\ UNCHANGED <<disk, opener, phase, todo, lockVars>>

OpenFails(p) ==
  /\ opener = p /\ coord = "recovering" /\ ReleaseLock(p)
  /\ Closes
  /\ UNCHANGED disk

CloseStore(p) ==
  /\ opener = p /\ coord = "ready" /\ phase = "idle" /\ ReleaseLock(p)
  /\ Closes
  /\ UNCHANGED disk

Dies(p) ==
  /\ WriterDies(p)
  /\ IF opener = p THEN Closes ELSE UNCHANGED memory
  /\ UNCHANGED disk
-----------------------------------------------------------------------------
Acquires(p) == (StartWriter(p) \/ AcquireSteps(p)) /\ UNCHANGED <<disk, memory>>

Mutates ==
  \/ \E o \in Objects : Stage(o) \/ StageDelete(o) \/ Promote(o) \/ Recover(o) \/ CleanFile(o)
  \/ Publish \/ AbortManifest \/ AbortDirectory \/ BeginTransaction \/ RunStatements \/ Commit
  \/ CleanDirectory \/ CleanManifest \/ Recovered \/ TakeUp
  \/ \E objects \in SUBSET Objects : CleanLeft(objects)
  \/ DropUnpublished \/ Opened

Next ==
  \/ \E p \in Processes : Acquires(p) \/ OpenStore(p) \/ OpenFails(p) \/ CloseStore(p) \/ Dies(p)
  \/ \E objects \in SUBSET Objects, to \in [Objects -> Content] : Begin(objects, to)
  \/ \E o \in Objects, content \in Content : RecoverLeft(o, content)
  \/ \E renamed \in BOOLEAN : PrepareThrows(renamed)
  \/ Mutates \/ AbortFails \/ Throws \/ Poison

Spec == Init /\ [][Next]_vars

-----------------------------------------------------------------------------
(* Properties. *)

DiskTypes ==
  /\ file \in [Objects -> Content] /\ row \in [Objects -> Content]
  /\ ops \subseteq Objects /\ want \in [Objects -> Content] /\ prior \in [Objects -> Content]
  /\ dir \in BOOLEAN /\ manifest \in BOOLEAN /\ receipt \in BOOLEAN
  /\ next \subseteq ops /\ backup \subseteq ops /\ removed \subseteq ops
  /\ stray \in BOOLEAN /\ left \subseteq Objects /\ contested \subseteq Objects

MemoryTypes ==
  /\ opener \in Processes \cup {Nobody}
  /\ coord \in {"closed", "recovering", "ready", "poisoned"}
  /\ phase \in {"idle", "staging", "aborting", "published", "deleting", "promoting", "cleaning", "tidying",
                "recovering"}
  /\ todo \subseteq Objects

TypeOK == DiskTypes /\ MemoryTypes /\ LockTypeOK

\* What a recovery from here would leave in the object tree: what the manifest calls
\* for if its receipt was committed, and what was there before it if it was not.
Outcome ==
  [o \in Objects |-> IF ~manifest \/ o \notin ops THEN file[o]
                     ELSE IF receipt THEN want[o] ELSE prior[o]]

Uncontested == Objects \ contested

\* Wherever a mutation fails or its process dies, a recovery makes every file what its
\* committed row says; in a store that is open and at rest it is that already.  This
\* is not so of an object that was changed after a failed #prepare left a manifest
\* behind which names it: the next start rolls that manifest back.
FilesMatchRows ==
  \A o \in Uncontested :
    Outcome[o] = row[o] /\ (coord = "ready" /\ phase = "idle" => file[o] = row[o])

\* A recovery finds every object in a state it can take on to the outcome, also when
\* the recovery before it was cut short.  Only a committed delete whose cleanup was cut
\* short may find less, and its object is as its row says already.
AlwaysRecoverable ==
  manifest => \A o \in ops \ contested :
    CanRecover(o) \/ (receipt /\ want[o] = Absent /\ file[o] = row[o])

\* Files, journal and rows agree, or a recovery can make them agree.
ObjectsAreSafe == TypeOK /\ FilesMatchRows /\ AlwaysRecoverable

\* The mutation in progress that has not been committed yet.
Asked == IF phase \in {"staging", "published", "deleting", "promoting"} THEN {want} ELSE {}

\* What a recovery leaves; of a contested object, what its row says.
Visible == [o \in Objects |-> IF o \in contested THEN row[o] ELSE Outcome[o]]

\* A mutation changes all its objects at once or none, as a recovery leaves them: the
\* coordinator implements the atomic object store of AtomicObjects.
Atomic == INSTANCE AtomicObjects WITH content <- Visible, asked <- Asked
AtomicSpec == Atomic!Spec
=============================================================================
