------------------------ MODULE ObjectMutationsProofs ------------------------
(***************************************************************************)
(* Proofs about the mutation coordinator and the writer lock.              *)
(***************************************************************************)
EXTENDS ObjectMutations, TLAPS

(* The journal: what the files, rows and manifest are to each other. *)

Outside == \A o \in Objects \ ops : want[o] = row[o] /\ (o \notin contested => file[o] = row[o])
NotCommitted == ~receipt => \A o \in ops : row[o] = prior[o]
Committed ==
  receipt => manifest /\ \A o \in ops : row[o] = want[o] /\ (o \notin contested => file[o] = want[o])
Undoable == manifest /\ ~receipt => \A o \in ops \ contested : Restorable(o)
NotPublished == ~manifest => \A o \in Uncontested : file[o] = row[o]
NoDirectory == ~dir => next = {} /\ backup = {} /\ removed = {}

Journal == Outside /\ NotCommitted /\ Committed /\ Undoable /\ NotPublished /\ NoDirectory

(* The coordinator: what each phase has behind it. *)

BackedUp(o) == prior[o] # Absent => o \in backup
Staged(o) == want[o] # Absent => o \in next /\ BackedUp(o)
Restored(o) == file[o] = prior[o] /\ o \notin removed
Deleted(o) == file[o] = Absent /\ o \in removed

AtStaging ==
  phase = "staging" =>
    /\ dir /\ ~manifest /\ ~receipt /\ removed = {} /\ todo \subseteq ops
    /\ \A o \in ops : file[o] = prior[o] /\ (o \notin todo => Staged(o))

AtAborting ==
  phase = "aborting" => ~receipt /\ removed = {} /\ \A o \in ops : file[o] = prior[o]

AtPublished ==
  phase = "published" =>
    dir /\ manifest /\ ~receipt /\ \A o \in ops : Restored(o) /\ Staged(o)

AtDeleting ==
  phase = "deleting" =>
    /\ dir /\ manifest /\ ~receipt /\ todo \subseteq Deletes
    /\ \A o \in ops : Staged(o) /\ (o \in Deletes \ todo => Deleted(o))
                                /\ (o \notin Deletes \ todo => Restored(o))

AtPromoting ==
  phase = "promoting" =>
    /\ manifest /\ ~receipt /\ todo \subseteq ops
    /\ \A o \in ops :
         /\ want[o] = Absent => Deleted(o)
         /\ want[o] # Absent =>
              BackedUp(o) /\ file[o] = (IF o \in todo THEN prior[o] ELSE want[o])

AtCleaning == phase = "cleaning" => receipt

AtRecovering ==
  phase = "recovering" =>
    /\ manifest /\ todo \subseteq ops
    /\ ~receipt => \A o \in ops \ todo : Restored(o)

AtTidying ==
  phase = "tidying" => manifest /\ (~receipt => \A o \in ops : Restored(o))

AtRest == coord = "ready" /\ phase = "idle" => ~dir /\ ~manifest

Phases ==
  /\ AtStaging /\ AtAborting /\ AtPublished /\ AtDeleting /\ AtPromoting
  /\ AtCleaning /\ AtRecovering /\ AtTidying /\ AtRest

Inv == TypeOK /\ Journal /\ Phases
-----------------------------------------------------------------------------
(* Types. *)

\* A step of the lock leaves it well typed.
LEMMA LockTypes ==
  ASSUME LockTypeOK, NEW p \in Processes,
         \/ StartWriter(p) \/ AcquireSteps(p) \/ ReleaseLock(p) \/ WriterDies(p)
         \/ UNCHANGED lockVars
  PROVE  LockTypeOK'
<1> USE DEF LockTypeOK, WriterStep, Starting
<1>1. CASE StartWriter(p)  BY <1>1 DEF StartWriter
<1>2. CASE CreateLock(p)   BY <1>2 DEF CreateLock
<1>3. CASE WriteLock(p)    BY <1>3 DEF WriteLock
<1>4. CASE LockHeld(p)     BY <1>4 DEF LockHeld
<1>5. CASE LockStale(p)    BY <1>5 DEF LockStale
<1>6. CASE Quarantine(p)
  <2>1. WriterStep(p, "stale", "trying") \/ WriterStep(p, "stale", "gone")
    BY <1>6 DEF Quarantine
  <2>2. attempt' = [attempt EXCEPT ![p] = @ + 1] /\ lockFile' = NoFile /\ record' = FALSE
    BY <1>6 DEF Quarantine
  <2>3. attempt' \in [Processes -> Nat]
    BY <2>2
  <2>4. writer' \in [Processes -> {"off", "owner", "gone"} \cup Starting]
    BY <2>1
  <2>5. QED  BY <2>2, <2>3, <2>4
<1>7. CASE ReleaseLock(p)  BY <1>7 DEF ReleaseLock
<1>8. CASE WriterDies(p)   BY <1>8 DEF WriterDies
<1>9. CASE UNCHANGED lockVars  BY <1>9 DEF lockVars
<1>10. QED  BY <1>1, <1>2, <1>3, <1>4, <1>5, <1>6, <1>7, <1>8, <1>9 DEF AcquireSteps

\* The steps that leave the disk alone.
Keeps ==
  \/ \E p \in Processes : Acquires(p) \/ OpenStore(p) \/ OpenFails(p) \/ CloseStore(p) \/ Dies(p)
  \/ BeginTransaction \/ RunStatements \/ Recovered \/ TakeUp \/ Throws \/ Poison \/ Opened
  \/ UNCHANGED vars

LEMMA KeepsDisk == Keeps => UNCHANGED disk
BY DEF Keeps, Acquires, OpenStore, OpenFails, CloseStore, Dies, BeginTransaction, RunStatements,
       Recovered, TakeUp, Throws, Poison, Opened, vars

\* The steps of a #prepare that fails, and those that handle what it left behind.
Aborts ==
  (\E renamed \in BOOLEAN : PrepareThrows(renamed)) \/ AbortManifest \/ AbortDirectory \/ AbortFails
Leaves ==
  \/ \E o \in Objects, content \in Content : RecoverLeft(o, content)
  \/ \E objects \in SUBSET Objects : CleanLeft(objects)

\* The steps that change it, one object or one operation at a time.
Changes ==
  \/ \E objects \in SUBSET Objects, to \in [Objects -> Content] : Begin(objects, to)
  \/ \E o \in Objects : Stage(o) \/ StageDelete(o) \/ Promote(o) \/ Recover(o)
  \/ \E o \in Objects : CleanFile(o)
  \/ Publish \/ Commit \/ CleanDirectory \/ CleanManifest \/ DropUnpublished
  \/ Aborts \/ Leaves

LEMMA Steps == [Next]_vars => Keeps \/ Changes
BY DEF Next, Mutates, Keeps, Changes, Aborts, Leaves

LEMMA ChangesKeepLock == Changes => UNCHANGED lockVars
BY DEF Changes, Begin, Stage, StageDelete, Promote, Recover, Publish, Commit, CleanDirectory,
       CleanManifest, CleanFile, Cleans, DropUnpublished, Aborts, Leaves,
       PrepareThrows, AbortManifest, AbortDirectory, AbortFails, RecoverLeft, CleanLeft, Handles, Goes

LEMMA LockTypesStep == LockTypeOK /\ [Next]_vars => LockTypeOK'
<1> SUFFICES ASSUME LockTypeOK, [Next]_vars PROVE LockTypeOK'
  OBVIOUS
<1>1. CASE Changes
  BY <1>1, ChangesKeepLock DEF LockTypeOK, lockVars
<1>2. CASE Keeps
  <2>1. ASSUME NEW p \in Processes,
               Acquires(p) \/ OpenStore(p) \/ OpenFails(p) \/ CloseStore(p) \/ Dies(p)
        PROVE  LockTypeOK'
    BY <2>1, LockTypes DEF Acquires, OpenStore, OpenFails, CloseStore, Dies
  <2>2. CASE UNCHANGED lockVars
    BY <2>2 DEF LockTypeOK, lockVars
  <2>3. QED
    BY <1>2, <2>1, <2>2 DEF Keeps, BeginTransaction, RunStatements, Recovered, TakeUp, Throws,
       Poison, Opened, Goes, vars
<1>3. QED  BY <1>1, <1>2, Steps

\* What the phase says of the object a step handles.
LEMMA Handled ==
  ASSUME Inv, NEW o \in Objects, Stage(o) \/ StageDelete(o) \/ Promote(o) \/ Recover(o)
  PROVE  o \in ops
BY DEF Inv, Phases, AtStaging, AtDeleting, AtPromoting, AtRecovering, Deletes,
       Stage, StageDelete, Promote, Recover, Handles, Goes

LEMMA DiskTypesStep == Inv /\ [Next]_vars => DiskTypes'
<1> SUFFICES ASSUME Inv, [Next]_vars PROVE DiskTypes'
  OBVIOUS
<1> USE DEF DiskTypes, remains
<1>0. DiskTypes  BY DEF Inv, TypeOK
<1>1. CASE Keeps
  BY <1>0, <1>1, KeepsDisk DEF disk
<1>2. ASSUME NEW objects \in SUBSET Objects, NEW to \in [Objects -> Content], Begin(objects, to)
      PROVE  DiskTypes'
  <2>1. next = {} /\ backup = {} /\ removed = {}
    BY <1>2 DEF Begin, Goes, Inv, Phases, AtRest, Journal, NoDirectory
  <2>2. QED  BY <1>0, <1>2, <2>1 DEF Begin
<1>3. ASSUME NEW o \in Objects, Stage(o) \/ StageDelete(o) \/ Promote(o) \/ Recover(o)
      PROVE  DiskTypes'
  <2>1. o \in ops  BY <1>3, Handled
  <2>2. CASE Stage(o)        BY <1>0, <2>1, <2>2 DEF Stage
  <2>3. CASE StageDelete(o)  BY <1>0, <2>1, <2>3 DEF StageDelete, Content
  <2>4. CASE Forward(o)      BY <1>0, <2>1, <2>4 DEF Forward
  <2>5. CASE Back(o)         BY <1>0, <2>1, <2>5 DEF Back
  <2>6. QED  BY <1>3, <2>2, <2>3, <2>4, <2>5 DEF Promote, Recover
<1>4. CASE Publish         BY <1>0, <1>4 DEF Publish
<1>5. CASE Commit          BY <1>0, <1>5 DEF Commit
<1>6. CASE CleanDirectory  BY <1>0, <1>6 DEF CleanDirectory
<1>7. CASE CleanManifest
  BY <1>0, <1>7 DEF CleanManifest, Forgotten, Inv, Journal, NoDirectory
<1>8. CASE Aborts
  BY <1>0, <1>8 DEF Aborts, PrepareThrows, AbortManifest, AbortDirectory, AbortFails,
     RemovesDirectory, Forgotten
<1>9. CASE DropUnpublished BY <1>0, <1>9 DEF DropUnpublished, RemovesDirectory, Forgotten
<1>10. ASSUME NEW o \in Objects, CleanFile(o) PROVE DiskTypes'
  BY <1>0, <1>10 DEF CleanFile
<1>11. CASE Leaves
  BY <1>0, <1>11 DEF Leaves, RecoverLeft, CleanLeft, remains
<1>12. QED
  BY <1>1, <1>2, <1>3, <1>4, <1>5, <1>6, <1>7, <1>8, <1>9, <1>10, <1>11, Steps DEF Changes

LEMMA MemoryTypesStep == TypeOK /\ [Next]_vars => MemoryTypes'
<1> SUFFICES ASSUME TypeOK, [Next]_vars PROVE MemoryTypes'
  OBVIOUS
<1> USE DEF MemoryTypes, Goes, memory
<1>0. MemoryTypes /\ ops \subseteq Objects  BY DEF TypeOK, DiskTypes
<1>1. CASE Keeps
  BY <1>0, <1>1 DEF Keeps, Acquires, OpenStore, OpenFails, CloseStore, Dies, Closes,
     BeginTransaction, RunStatements, Recovered, TakeUp, Throws, Poison, Opened, Deletes, vars
<1>2. CASE Changes
  BY <1>0, <1>2 DEF Changes, Begin, Stage, StageDelete, Promote, Recover, Publish, Commit,
     CleanDirectory, CleanManifest, CleanFile, Cleans, DropUnpublished, Aborts, Leaves,
       PrepareThrows, AbortManifest, AbortDirectory, AbortFails, RecoverLeft, CleanLeft, Handles, Cleanups
<1>3. QED  BY <1>1, <1>2, Steps
-----------------------------------------------------------------------------
(* The journal. *)

LEMMA KeepsJournal == Journal /\ UNCHANGED disk => Journal'
BY DEF Journal, Outside, NotCommitted, Committed, Undoable, NotPublished, NoDirectory,
       Uncontested, Restorable, disk, remains

LEMMA BeginJournal ==
  ASSUME Inv, NEW objects \in SUBSET Objects, NEW to \in [Objects -> Content], Begin(objects, to)
  PROVE  Journal'
<1>1. ~dir /\ ~manifest /\ coord = "ready" /\ phase = "idle"
  BY DEF Begin, Goes, Inv, Phases, AtRest
<1>2. ~receipt /\ (\A o \in Uncontested : file[o] = row[o])
      /\ next = {} /\ backup = {} /\ removed = {}
  BY <1>1 DEF Inv, Journal, Committed, NotPublished, NoDirectory
<1>3. QED
  BY <1>1, <1>2 DEF Begin, Journal, Outside, NotCommitted, Committed, Undoable, NotPublished,
     NoDirectory, Uncontested

LEMMA ForwardJournal ==
  ASSUME DiskTypes, Journal, NEW o \in ops, Forward(o), manifest,
         ~receipt => (want[o] # Absent => BackedUp(o)) /\ (want[o] = Absent => Deleted(o))
  PROVE  Journal'
BY DEF DiskTypes, Forward, Journal, Outside, NotCommitted, Committed, Undoable, NotPublished,
       NoDirectory, Uncontested, CanForward, Restorable, BackedUp, Deleted, remains

LEMMA BackJournal ==
  ASSUME DiskTypes, Journal, NEW o \in ops, Back(o), manifest, ~receipt
  PROVE  Journal'
BY DEF DiskTypes, Back, Journal, Outside, NotCommitted, Committed, Undoable, NotPublished,
       NoDirectory, Uncontested, Restorable, remains

LEMMA JournalStep == Inv /\ [Next]_vars => Journal'
<1> SUFFICES ASSUME Inv, [Next]_vars PROVE Journal'
  OBVIOUS
<1>0. DiskTypes /\ Journal /\ Phases  BY DEF Inv, TypeOK
<1> USE DEF Journal, Outside, NotCommitted, Committed, Undoable, NotPublished, NoDirectory,
            Uncontested, remains
<1>1. CASE Keeps
  BY <1>0, <1>1, KeepsDisk, KeepsJournal
<1>2. ASSUME NEW objects \in SUBSET Objects, NEW to \in [Objects -> Content], Begin(objects, to)
      PROVE  Journal'
  BY <1>2, BeginJournal
<1>3. ASSUME NEW o \in Objects, Stage(o) \/ StageDelete(o) \/ Promote(o) \/ Recover(o)
      PROVE  Journal'
  <2>1. o \in ops  BY <1>3, Handled
  <2>2. CASE Stage(o)
    <3>1. dir /\ ~manifest /\ ~receipt
      BY <1>0, <2>2 DEF Phases, AtStaging, Stage, Handles, Goes
    <3>2. QED  BY <1>0, <2>2, <3>1 DEF Stage
  <2>3. CASE StageDelete(o)
    <3>1. /\ dir /\ manifest /\ ~receipt /\ want[o] = Absent
          /\ o \in todo
      BY <1>0, <2>3 DEF Phases, AtDeleting, StageDelete, Handles, Goes, Deletes
    <3>2. QED  BY <1>0, <2>1, <2>3, <3>1 DEF StageDelete, Restorable, DiskTypes
  <2>4. CASE Promote(o)
    <3>1. /\ manifest /\ ~receipt
          /\ (want[o] # Absent => BackedUp(o)) /\ (want[o] = Absent => Deleted(o))
      BY <1>0, <2>1, <2>4 DEF Phases, AtPromoting, Promote, Handles, Goes
    <3>2. QED  BY <1>0, <2>1, <2>4, <3>1, ForwardJournal DEF Promote
  <2>5. CASE Recover(o)
    <3>1. manifest  BY <1>0, <2>5 DEF Phases, AtRecovering, Recover, Handles, Goes
    <3>2. CASE receipt   BY <1>0, <2>1, <2>5, <3>1, <3>2, ForwardJournal DEF Recover
    <3>3. CASE ~receipt  BY <1>0, <2>1, <2>5, <3>1, <3>3, BackJournal DEF Recover
    <3>4. QED  BY <3>2, <3>3
  <2>6. QED  BY <1>3, <2>2, <2>3, <2>4, <2>5
<1>4. CASE Publish
  <2>1. /\ ~manifest /\ ~receipt /\ removed = {} /\ \A o \in ops : file[o] = prior[o]
    BY <1>0, <1>4 DEF Phases, AtStaging, Publish, Goes
  <2>2. QED  BY <1>0, <1>4, <2>1 DEF Publish, Restorable
<1>5. CASE Commit
  <2>1. manifest /\ \A o \in ops : file[o] = want[o]
    BY <1>0, <1>5 DEF Phases, AtPromoting, Commit, Goes, Deleted
  <2>2. QED  BY <1>0, <1>5, <2>1 DEF Commit, DiskTypes
<1>6. CASE CleanDirectory
  BY <1>0, <1>6 DEF CleanDirectory, Restorable
<1>7. CASE CleanManifest
  <2>1. ~receipt => \A o \in ops : Restored(o)
    BY <1>0, <1>7 DEF Phases, AtCleaning, AtTidying, CleanManifest, Cleanups, Goes
  <2>2. \A o \in Uncontested : file[o] = row[o]
    BY <1>0, <2>1 DEF Restored
  <2>3. QED  BY <1>0, <1>7, <2>2 DEF CleanManifest, Forgotten
<1>8. CASE Aborts
  <2>1. ASSUME NEW renamed \in BOOLEAN, PrepareThrows(renamed) PROVE Journal'
    <3>1. ~manifest /\ ~receipt /\ removed = {} /\ \A o \in ops : file[o] = prior[o]
      BY <1>0, <2>1 DEF Phases, AtStaging, PrepareThrows, Goes
    <3>2. QED  BY <1>0, <2>1, <3>1 DEF PrepareThrows, Restorable
  <2>2. CASE AbortManifest \/ AbortDirectory \/ AbortFails
    <3>1. ~receipt /\ \A o \in Uncontested : file[o] = row[o]
      BY <1>0, <2>2 DEF Phases, AtAborting, AbortManifest, AbortDirectory, AbortFails, Goes
    <3>2. QED
      BY <1>0, <2>2, <3>1
      DEF AbortManifest, AbortDirectory, AbortFails, RemovesDirectory, Forgotten
  <2>3. QED  BY <1>8, <2>1, <2>2 DEF Aborts
<1>9. CASE DropUnpublished
  BY <1>0, <1>9 DEF DropUnpublished, RemovesDirectory, Forgotten
<1>10. ASSUME NEW o \in Objects, CleanFile(o) PROVE Journal'
  <2>1. dir /\ (~receipt => \A u \in ops : Restored(u))
    BY <1>0, <1>10 DEF Phases, AtCleaning, AtTidying, CleanFile, Cleans, Cleanups, Goes
  <2>2. removed' \subseteq removed
    BY <1>10 DEF CleanFile
  <2>3. QED  BY <1>0, <1>10, <2>1, <2>2 DEF CleanFile, Restorable, Restored
<1>11. CASE Leaves
  <2>1. ASSUME NEW o \in Objects, NEW content \in Content, RecoverLeft(o, content) PROVE Journal'
    BY <1>0, <2>1 DEF RecoverLeft, Restorable, DiskTypes
  <2>2. ASSUME NEW objects \in SUBSET Objects, CleanLeft(objects) PROVE Journal'
    BY <1>0, <2>2 DEF CleanLeft, Restorable
  <2>3. QED  BY <1>11, <2>1, <2>2 DEF Leaves
<1>12. QED
  BY <1>1, <1>2, <1>3, <1>4, <1>5, <1>6, <1>7, <1>8, <1>9, <1>10, <1>11, Steps DEF Changes
-----------------------------------------------------------------------------
(* The phases. *)

LEMMA KeepsPhases == Inv /\ Keeps => Phases'
<1> SUFFICES ASSUME Inv, Keeps PROVE Phases'
  OBVIOUS
<1> USE DEF Phases, AtStaging, AtAborting, AtPublished, AtDeleting, AtPromoting, AtCleaning, AtRecovering,
            AtTidying, AtRest, Staged, BackedUp, Restored, Deleted, Deletes, remains
<1>0. TypeOK /\ Journal /\ Phases /\ UNCHANGED disk
  BY KeepsDisk DEF Inv
<1>1. CASE UNCHANGED memory  BY <1>0, <1>1 DEF disk, memory
<1>2. CASE Closes            BY <1>0, <1>2 DEF Closes
<1>3. ASSUME NEW p \in Processes, OpenStore(p) PROVE Phases'
  BY <1>0, <1>3 DEF OpenStore, disk
<1>4. CASE BeginTransaction  BY <1>0, <1>4 DEF BeginTransaction, Goes, disk
<1>5. CASE RunStatements     BY <1>0, <1>5 DEF RunStatements, Goes, disk
<1>6. CASE Recovered         BY <1>0, <1>6 DEF Recovered, Goes, disk
<1>7. CASE Throws
  <2>1. manifest  BY <1>0, <1>7 DEF Throws, Goes, Journal, Committed
  <2>2. QED  BY <1>0, <1>7, <2>1 DEF Throws, Goes, disk
<1>8. CASE Poison            BY <1>0, <1>8 DEF Poison, disk
<1>9. CASE Opened            BY <1>0, <1>9 DEF Opened, Opening, disk
<1>10. CASE TakeUp           BY <1>0, <1>10 DEF TakeUp, Opening, Goes, disk
<1>11. QED
  BY <1>1, <1>2, <1>3, <1>4, <1>5, <1>6, <1>7, <1>8, <1>9, <1>10
  DEF Keeps, Acquires, OpenFails, CloseStore, Dies, vars, memory

LEMMA ChangesPhases == Inv /\ Changes => Phases'
<1> SUFFICES ASSUME Inv, Changes PROVE Phases'
  OBVIOUS
<1> USE DEF Phases, AtStaging, AtAborting, AtPublished, AtDeleting, AtPromoting, AtCleaning, AtRecovering,
            AtTidying, AtRest, Staged, BackedUp, Restored, Deleted, Deletes, Goes, Handles,
            remains
<1>0. DiskTypes /\ Journal /\ Phases
  BY DEF Inv, TypeOK
<1>1. ASSUME NEW objects \in SUBSET Objects, NEW to \in [Objects -> Content], Begin(objects, to)
      PROVE  Phases'
  <2>1. ~dir /\ ~manifest /\ ~receipt /\ removed = {}
    BY <1>0, <1>1 DEF Begin, Journal, Committed, NoDirectory
  <2>2. QED  BY <1>0, <1>1, <2>1 DEF Begin
<1>2. ASSUME NEW o \in Objects, Stage(o) PROVE Phases'
  BY <1>0, <1>2 DEF Stage, DiskTypes
<1>3. ASSUME NEW o \in Objects, StageDelete(o) PROVE Phases'
  BY <1>0, <1>3 DEF StageDelete, DiskTypes
<1>4. ASSUME NEW o \in Objects, Promote(o) PROVE Phases'
  BY <1>0, <1>4 DEF Promote, Forward, DiskTypes
<1>5. ASSUME NEW o \in Objects, Recover(o) PROVE Phases'
  <2>1. CASE receipt
    BY <1>0, <1>5, <2>1 DEF Recover, Forward
  <2>2. CASE ~receipt
    BY <1>0, <1>5, <2>2 DEF Recover, Back, DiskTypes
  <2>3. QED  BY <2>1, <2>2
<1>6. CASE Publish         BY <1>0, <1>6 DEF Publish
<1>7. CASE Commit          BY <1>0, <1>7 DEF Commit
<1>8. CASE CleanDirectory  BY <1>0, <1>8 DEF CleanDirectory, Cleans, Cleanups
<1>9. CASE CleanManifest   BY <1>0, <1>9 DEF CleanManifest, Forgotten, Cleanups
<1>10. CASE Aborts
  BY <1>0, <1>10 DEF Aborts, PrepareThrows, AbortManifest, AbortDirectory, AbortFails,
     RemovesDirectory, Forgotten
<1>11. CASE DropUnpublished
  BY <1>0, <1>11 DEF DropUnpublished, Opening, RemovesDirectory, Forgotten, memory
<1>12. ASSUME NEW o \in Objects, CleanFile(o) PROVE Phases'
  BY <1>0, <1>12 DEF CleanFile, Cleans, Cleanups
<1>13. CASE Leaves
  BY <1>0, <1>13 DEF Leaves, RecoverLeft, CleanLeft, Opening, memory
<1>14. QED
  BY <1>1, <1>2, <1>3, <1>4, <1>5, <1>6, <1>7, <1>8, <1>9, <1>10, <1>11, <1>12, <1>13 DEF Changes

LEMMA InvInit == Init => Inv
<1> SUFFICES ASSUME Init PROVE Inv
  OBVIOUS
<1>1. DiskTypes /\ MemoryTypes
  BY DEF Init, DiskTypes, MemoryTypes, Nobody
<1>2. LockTypeOK
  BY DEF Init, LockInit, LockTypeOK
<1>3. Journal
  BY DEF Init, Journal, Outside, NotCommitted, Committed, Undoable, NotPublished, NoDirectory,
     Uncontested
<1>4. Phases
  BY DEF Init, Phases, AtStaging, AtAborting, AtPublished, AtDeleting, AtPromoting, AtCleaning,
     AtRecovering, AtTidying, AtRest
<1>5. QED  BY <1>1, <1>2, <1>3, <1>4 DEF Inv, TypeOK

LEMMA InvStep == Inv /\ [Next]_vars => Inv'
<1>1. Inv /\ [Next]_vars => Phases'
  BY Steps, KeepsPhases, ChangesPhases
<1>2. QED
  BY <1>1, DiskTypesStep, MemoryTypesStep, LockTypesStep, JournalStep DEF Inv, TypeOK

LEMMA InvAlways == Spec => []Inv
BY InvInit, InvStep, PTL DEF Spec
-----------------------------------------------------------------------------
(* The theorems. *)

\* The journal, the coordinator and the lock are always well typed; what is staged
\* always belongs to the objects of the manifest.
THEOREM TypeCorrect == Spec => []TypeOK
<1>1. Inv => TypeOK  BY DEF Inv
<1>2. QED  BY <1>1, InvAlways, PTL

LEMMA OutcomeIsRow == Inv => \A o \in Uncontested : Outcome[o] = row[o]
BY DEF Inv, TypeOK, DiskTypes, Journal, Outside, NotCommitted, Committed, NotPublished, Outcome,
       Uncontested

LEMMA VisibleIsRow == Inv => Visible = row
BY OutcomeIsRow DEF Inv, TypeOK, DiskTypes, Visible, Uncontested

LEMMA VisibleIsRowNext == Inv' => Visible' = row'
<1> SUFFICES ASSUME Inv' PROVE Visible' = row'
  OBVIOUS
<1>1. \A o \in Objects \ contested' : Outcome'[o] = row'[o]
  BY DEF Inv, TypeOK, DiskTypes, Journal, Outside, NotCommitted, Committed, NotPublished, Outcome,
         Uncontested
<1>2. QED  BY <1>1 DEF Inv, TypeOK, DiskTypes, Visible

\* For any objects and contents, any number of mutations and any failure or crash between
\* two steps of them: a recovery would make every file what its row says, unless its
\* object was changed under a manifest that a failed #prepare left behind.
THEOREM FilesMatchRowsTheorem == Spec => []FilesMatchRows
<1>1. Inv => FilesMatchRows
  BY OutcomeIsRow DEF Inv, Journal, NotPublished, Phases, AtRest, FilesMatchRows
<1>2. QED  BY <1>1, InvAlways, PTL

\* And that recovery is always possible, but for a committed delete that was cleaned up
\* in part: nothing is left to do for that one, yet #rollForward throws.
THEOREM AlwaysRecoverableTheorem == Spec => []AlwaysRecoverable
<1>1. Inv => AlwaysRecoverable
  BY DEF Inv, Journal, Committed, Undoable, AlwaysRecoverable, CanRecover, CanForward
<1>2. QED  BY <1>1, InvAlways, PTL
\* Every step maps to a step of the abstract store, or to none.
LEMMA AskedSteps == Inv /\ [Next]_vars => [Atomic!Next]_(Atomic!vars)
<1> SUFFICES ASSUME Inv, [Next]_vars PROVE [Atomic!Next]_(Atomic!vars)
  OBVIOUS
<1>0. Visible = row /\ Visible' = row' /\ DiskTypes
  BY InvStep, VisibleIsRow, VisibleIsRowNext DEF Inv, TypeOK
<1> USE DEF Atomic!Next, Atomic!vars, Atomic!Ask, Atomic!TakeEffect, Atomic!Refuse,
            Atomic!Content, Atomic!Absent, Goes
<1>1. ASSUME row' = row, Asked' = Asked \/ Asked' = {} PROVE [Atomic!Next]_(Atomic!vars)
  BY <1>0, <1>1
<1>2. CASE Keeps
  <2>1. UNCHANGED disk  BY <1>2, KeepsDisk
  <2>2. Asked' = Asked \/ Asked' = {}
    BY <1>2, <2>1 DEF Keeps, Asked, disk, memory, Acquires, OpenStore, OpenFails, CloseStore, Dies,
       Closes, BeginTransaction, RunStatements, Recovered, TakeUp, Throws, Poison, Opened, vars
  <2>3. QED  BY <1>1, <2>1, <2>2 DEF disk
<1>3. ASSUME NEW objects \in SUBSET Objects, NEW to \in [Objects -> Content], Begin(objects, to)
      PROVE  [Atomic!Next]_(Atomic!vars)
  <2>1. Asked = {} /\ Asked' = {to} /\ row' = row
    BY <1>3 DEF Begin, Asked
  <2>2. QED  BY <1>0, <2>1 DEF Content, Absent
<1>4. CASE \E o \in Objects : Stage(o) \/ StageDelete(o) \/ Promote(o) \/ Recover(o)
  <2>1. row' = row /\ Asked' = Asked
    BY <1>4 DEF Asked, Stage, StageDelete, Promote, Recover, Handles, Forward, Back
  <2>2. QED  BY <1>1, <2>1
<1>5. CASE Commit
  <2>1. row' = want
    BY <1>0, <1>5 DEF Commit, Inv, Journal, Outside, DiskTypes
  <2>2. Asked = {want} /\ Asked' = {}
    BY <1>5 DEF Commit, Asked
  <2>3. QED  BY <1>0, <2>1, <2>2
<1>6. CASE \/ Publish \/ CleanDirectory \/ CleanManifest \/ DropUnpublished \/ Aborts \/ Leaves
           \/ \E o \in Objects : CleanFile(o)
  <2>1. CASE CleanDirectory \/ CleanManifest \/ \E o \in Objects : CleanFile(o)
    <3>1. row' = row /\ Asked = {} /\ Asked' = {}
      BY <2>1 DEF Asked, CleanDirectory, CleanManifest, CleanFile, Cleans, Cleanups
    <3>2. QED  BY <1>1, <3>1
  <2>2. CASE Publish \/ Aborts
    <3>1. row' = row /\ (Asked' = Asked \/ Asked' = {})
      BY <2>2 DEF Asked, Publish, Aborts, PrepareThrows, AbortManifest, AbortDirectory, AbortFails
    <3>2. QED  BY <1>1, <3>1
  <2>3. CASE DropUnpublished \/ Leaves
    <3>1. row' = row /\ phase' = phase /\ phase \notin {"staging", "published", "deleting", "promoting"}
      BY <2>3 DEF DropUnpublished, Leaves, RecoverLeft, CleanLeft, Opening, memory
    <3>2. Asked' = {}
      BY <3>1 DEF Asked
    <3>3. QED  BY <1>1, <3>1, <3>2
  <2>4. QED  BY <1>6, <2>1, <2>2, <2>3
<1>7. QED
  BY <1>2, <1>3, <1>4, <1>5, <1>6, Steps DEF Changes

\* The coordinator implements the atomic object store: a mutation of any objects takes
\* effect as a whole, with its commit, or not at all.
THEOREM AtomicTheorem == Spec => AtomicSpec
<1>1. Init => Atomic!Init
  BY InvInit, VisibleIsRow DEF Init, Atomic!Init, Asked, Content, Atomic!Content, Absent, Atomic!Absent
<1>2. Inv /\ [Next]_vars => [Atomic!Next]_(Atomic!vars)
  BY AskedSteps
<1>3. QED  BY <1>1, <1>2, InvAlways, PTL DEF Spec, AtomicSpec, Atomic!Spec
-----------------------------------------------------------------------------
(* The writer lock. *)

\* A process that reads the record of a live one gives up, and the path is taken.
LEMMA HolderStays ==
  ASSUME LockTypeOK, NEW p \in Processes, Holds(p), writer'[p] = "owner", NEW q \in Processes,
         StartWriter(q) \/ AcquireSteps(q) \/ ReleaseLock(q) \/ WriterDies(q)
  PROVE  Holds(p)'
<1>1. lockFile # NoFile /\ Live(lockFile)
  BY LockAssumption DEF Holds, Live, NoFile, Processes
<1> USE DEF LockTypeOK, Holds, WriterStep
<1>2. CASE StartWriter(q)  BY <1>2 DEF StartWriter
<1>3. CASE CreateLock(q)   BY <1>1, <1>3 DEF CreateLock
<1>4. CASE WriteLock(q)    BY <1>4 DEF WriteLock
<1>5. CASE LockHeld(q)     BY <1>5 DEF LockHeld
<1>6. CASE LockStale(q)    BY <1>1, <1>6 DEF LockStale
<1>7. CASE Quarantine(q)   BY <1>7 DEF Quarantine
<1>8. CASE ReleaseLock(q)  BY <1>8 DEF ReleaseLock
<1>9. CASE WriterDies(q)   BY <1>9 DEF WriterDies
<1>10. QED
  BY <1>2, <1>3, <1>4, <1>5, <1>6, <1>7, <1>8, <1>9 DEF AcquireSteps

LEMMA LockStep ==
  [Next]_vars =>
    \/ UNCHANGED lockVars
    \/ \E q \in Processes : StartWriter(q) \/ AcquireSteps(q) \/ ReleaseLock(q) \/ WriterDies(q)
<1>1. Changes => UNCHANGED lockVars
  BY ChangesKeepLock
<1>2. Keeps => \/ UNCHANGED lockVars
               \/ \E q \in Processes :
                    StartWriter(q) \/ AcquireSteps(q) \/ ReleaseLock(q) \/ WriterDies(q)
  BY DEF Keeps, Acquires, OpenStore, OpenFails, CloseStore, Dies, BeginTransaction, RunStatements,
         Recovered, TakeUp, Throws, Poison, Opened, Goes, vars
<1>3. QED  BY <1>1, <1>2, Steps

\* Whatever processes start, race and die: a writer that holds the lock while nobody is
\* taking it over stays the only writer until it releases the lock or dies.
THEOREM WriterKeepsLockTheorem == Spec => WriterKeepsLock
<1>1. LockTypeOK /\ [Next]_vars =>
        [\A p \in Processes : Holds(p) /\ writer'[p] = "owner" => Holds(p)']_lockVars
  <2> SUFFICES ASSUME LockTypeOK, [Next]_vars, NEW p \in Processes, Holds(p),
                      writer'[p] = "owner", lockVars' # lockVars
               PROVE  Holds(p)'
    OBVIOUS
  <2>1. PICK q \in Processes :
          StartWriter(q) \/ AcquireSteps(q) \/ ReleaseLock(q) \/ WriterDies(q)
    BY LockStep
  <2>2. QED  BY <2>1, HolderStays
<1>2. TypeOK => LockTypeOK
  BY DEF TypeOK
<1>3. QED  BY <1>1, <1>2, TypeCorrect, PTL DEF Spec, WriterKeepsLock

\* Files, journal and rows agree or can be made to, for any objects and contents,
\* and however many processes die at whatever file operation.
THEOREM ObjectsSafeTheorem == Spec => []ObjectsAreSafe
<1>1. TypeOK /\ FilesMatchRows /\ AlwaysRecoverable => ObjectsAreSafe
  BY DEF ObjectsAreSafe
<1>2. QED  BY <1>1, TypeCorrect, FilesMatchRowsTheorem, AlwaysRecoverableTheorem, PTL
=============================================================================
