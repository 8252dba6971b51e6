-------------------------- MODULE WorkspacesProofs --------------------------
(***************************************************************************)
(* Proofs about the workspaces of the product store: that of a Model, and  *)
(* the owned resources, the workspaces bound to them and the guides that   *)
(* bind them.                                                              *)
(***************************************************************************)
EXTENDS ModelWorkspace, GuidedWorkspaces, TLAPS

(* The workspace of a Model. *)

\* A check sees the attachments come in and not go, and while it is recorded the Model
\* is being checked or a draft: nothing else can be published of it.
CheckAgrees ==
  check # Nothing => check.adopted \subseteq adopted /\ status \in {"checking", "draft"}

ModelInv == StatusIsTrue /\ CheckAgrees

OrderTypes == [Commands -> Orders \cup {Nothing}]

LEMMA EditedTyped ==
  ASSUME NEW texts \in [Parts -> Texts], NEW e \in Edits
  PROVE  Edited(texts, e) \in [Parts -> Texts]
<1>1. PICK S \in SUBSET Parts : e \in [S -> Texts]
  BY EditsAssumption DEF ChangesAFile
<1>2. QED
  BY <1>1 DEF Edited

LEMMA CapturedTyped == ModelTypes => Captured \in Works /\ Captured # Nothing
BY NothingAssumption DEF ModelTypes, Captured, Works

LEMMA ModelInitial == ModelInit => ModelInv
BY DEF ModelInit, ModelInv, StatusIsTrue, ModelTypeOK, ModelTypes, CheckTypes, Statuses, ExecutablePartsPassed, CheckingIsTrue,
       CheckAgrees

-----------------------------------------------------------------------------
(* Commands. *)

LEMMA OrderMade ==
  ASSUME ModelTypeOK, NEW kind \in {"proposal", "direct"}, NEW c \in Commands, NEW e \in Edits, Ordered(kind, c, e)
  PROVE  orders' \in OrderTypes
<1>1. Workspace \in [status : Statuses, parts : [Parts -> Texts], adopted : SUBSET Attachments]
  BY DEF Workspace, ModelTypeOK, ModelTypes
<1>2. [kind |-> kind, edit |-> e, found |-> Workspace, state |-> "pending"] \in Orders
  BY <1>1 DEF Orders
<1>3. QED
  BY <1>2 DEF Ordered, OrderTypes, ModelTypeOK

LEMMA OrderResolved ==
  ASSUME ModelTypeOK, NEW kind \in {"proposal", "direct"}, NEW c \in Commands, Pending(kind, c),
         NEW to \in {"applied", "rejected"}, Resolved(c, to)
  PROVE  /\ orders' \in OrderTypes /\ orders[c] \in Orders
         /\ orders'[c] = [orders[c] EXCEPT !.state = to] /\ orders'[c].state = to
         /\ \A d \in Commands \ {c} : orders'[d] = orders[d]
<1>1. orders[c] \in Orders /\ orders \in OrderTypes
  BY DEF ModelTypeOK, Pending, OrderTypes
<1>2. [orders[c] EXCEPT !.state = to] \in Orders /\ [orders[c] EXCEPT !.state = to].state = to
  BY <1>1 DEF Orders
<1>3. orders' = [orders EXCEPT ![c] = [orders[c] EXCEPT !.state = to]]
  BY DEF Resolved
<1>4. QED
  BY <1>1, <1>2, <1>3 DEF OrderTypes

-----------------------------------------------------------------------------
(* Each step keeps the invariant. *)

\* A change to the workspace makes the Model a draft, checked or not.
LEMMA MutationKeeps ==
  ASSUME ModelInv, NEW e \in Edits, Mutated(e), orders' \in OrderTypes
  PROVE  ModelInv'
<1> USE DEF ModelInv, StatusIsTrue, ModelTypeOK, Mutated, OrderTypes
<1>1. ModelTypes'
  BY EditedTyped DEF ModelTypes, Statuses
<1>2. CheckTypes'
  BY DEF CheckTypes, checkVars
<1>3. ExecutablePartsPassed' /\ CheckingIsTrue' /\ CheckAgrees'
  BY DEF ExecutablePartsPassed, CheckingIsTrue, CheckAgrees, checkVars
<1>4. QED
  BY <1>1, <1>2, <1>3

\* What leaves the workspace and the check as they are.
LEMMA RestKeeps ==
  ASSUME ModelInv, UNCHANGED <<status, parts, adopted, checkVars>>, ModelTypes', orders' \in OrderTypes
  PROVE  ModelInv'
BY DEF ModelInv, StatusIsTrue, ModelTypeOK, CheckTypes, ExecutablePartsPassed, CheckingIsTrue, CheckAgrees, OrderTypes,
       checkVars

LEMMA CommandsKeep ==
  ASSUME ModelInv, NEW c \in Commands,
         \/ \E e \in Edits : Propose(c, e) \/ Prepare(c, e)
         \/ ApplyModelChangeSet(c) \/ RejectModelChangeSet(c) \/ CommitDirectModelChanges(c)
  PROVE  ModelInv'
<1>1. ModelTypeOK /\ ModelTypes
  BY DEF ModelInv, StatusIsTrue, ModelTypeOK
<1>2. ASSUME UNCHANGED modelVars
      PROVE  ModelTypes'
  BY <1>1, <1>2 DEF ModelTypes, modelVars
<1>3. ASSUME NEW e \in Edits, Propose(c, e) \/ Prepare(c, e)
      PROVE  ModelInv'
  BY <1>1, <1>2, <1>3, OrderMade, RestKeeps DEF Propose, Prepare, modelVars
<1>4. CASE RejectModelChangeSet(c)
  BY <1>1, <1>2, <1>4, OrderResolved, RestKeeps DEF RejectModelChangeSet, modelVars
<1>5. CASE ApplyModelChangeSet(c) \/ CommitDirectModelChanges(c)
  <2>1. PICK kind \in {"proposal", "direct"} : Pending(kind, c)
    BY <1>5 DEF ApplyModelChangeSet, CommitDirectModelChanges
  <2>2. Mutated(orders[c].edit) /\ Resolved(c, "applied")
    BY <1>5 DEF ApplyModelChangeSet, CommitDirectModelChanges
  <2>3. orders' \in OrderTypes /\ orders[c] \in Orders
    BY <1>1, <2>1, <2>2, OrderResolved
  <2>4. orders[c].edit \in Edits
    BY <2>3 DEF Orders
  <2>5. QED
    BY <2>2, <2>3, <2>4, MutationKeeps
<1>6. QED
  BY <1>3, <1>4, <1>5

LEMMA ChecksKeep ==
  ASSUME ModelInv,
         \/ StartTechnicalCheck \/ FinishThrows \/ Restart
         \/ \E outcome \in {"passed", "failed", "cancelled"} : FinishTechnicalCheck(outcome)
  PROVE  ModelInv'
<1> USE DEF ModelInv, StatusIsTrue, ModelTypeOK, ModelTypes, CheckTypes, ExecutablePartsPassed, CheckingIsTrue, CheckAgrees,
        modelVars
<1>1. CASE StartTechnicalCheck
  BY <1>1, CapturedTyped DEF StartTechnicalCheck, Captured, Statuses
<1>2. CASE FinishThrows
  BY <1>2 DEF FinishThrows
<1>3. CASE Restart
  BY <1>3 DEF Restart, Statuses
<1>4. ASSUME NEW outcome \in {"passed", "failed", "cancelled"}, FinishTechnicalCheck(outcome)
      PROVE  ModelInv'
  <2>1. CASE Publishes
    <3>1. check \in Works /\ check.parts = parts /\ check # Nothing
      BY <1>4, <2>1, CapturedTyped DEF FinishTechnicalCheck, Publishes, Captured
    <3>2. /\ UNCHANGED <<modelLife, modelBefore, parts, adopted, orders>> /\ checker' = FALSE /\ check' = Nothing
          /\ \/ status' = "executable" /\ verdict' = check
             \/ status' = "failed" /\ verdict' = verdict
      BY <1>4, <2>1 DEF FinishTechnicalCheck
    <3>3. QED
      BY <3>1, <3>2 DEF Statuses
  <2>2. CASE ~Publishes
    <3>1. status = "checking" => adopted # {}
      <4>1. CASE check.parts = parts /\ adopted = {}
        <5>1. check \in Works /\ check.adopted = {}
          BY <1>4, <4>1 DEF FinishTechnicalCheck
        <5>2. check = [parts |-> parts, adopted |-> {}]
          BY <4>1, <5>1 DEF Works
        <5>3. QED
          BY <2>2, <4>1, <5>2 DEF Publishes, Captured
      <4>2. QED
        BY <4>1
    <3>2. QED
      BY <1>4, <2>2, <3>1 DEF FinishTechnicalCheck
  <2>3. QED  BY <2>1, <2>2
<1>5. QED
  BY <1>1, <1>2, <1>3, <1>4

LEMMA AdoptionKeeps ==
  ASSUME ModelInv, NEW a \in Attachments, AdoptAttachment(a)
  PROVE  ModelInv'
BY DEF AdoptAttachment, ModelInv, StatusIsTrue, ModelTypeOK, ModelTypes, CheckTypes, ExecutablePartsPassed, CheckingIsTrue,
       CheckAgrees, checkVars

LEMMA LifecycleKeeps ==
  ASSUME ModelInv, ArchiveModel \/ TrashModel \/ RestoreModel \/ UNCHANGED workspaceVars
  PROVE  ModelInv'
<1>1. ModelTypes'
  BY NothingAssumption DEF ModelInv, StatusIsTrue, ModelTypeOK, ModelTypes, ArchiveModel, TrashModel, RestoreModel, ModelLives, workspaceVars, modelVars
<1>2. QED
  BY <1>1, RestKeeps DEF ModelInv, StatusIsTrue, ModelTypeOK, OrderTypes, ArchiveModel, TrashModel, RestoreModel, ModelLives, workspaceVars, modelVars

LEMMA ModelPreserved == ModelInv /\ [ModelNext]_workspaceVars => ModelInv'
BY CommandsKeep, ChecksKeep, AdoptionKeeps, LifecycleKeeps DEF ModelNext

LEMMA Invariant == ModelSpec => []ModelInv
<1>1. QED
  BY ModelInitial, ModelPreserved, PTL DEF ModelSpec

\* What a Model says of itself is true of its workspace, for any files, texts,
\* attachments and commands: an executable Model has exactly the texts a check passed,
\* and a Model that says it is being checked can still be told the result.
THEOREM StatusIsTrueTheorem == ModelSpec => []StatusIsTrue
<1>1. QED
  BY Invariant, PTL DEF ModelInv
-----------------------------------------------------------------------------
(* What commands do to the workspace. *)

AppliesReviewed ==
  \A c \in Commands : Pending("proposal", c) /\ orders'[c].state = "applied"
    => /\ parts' = Edited(orders[c].found.parts, orders[c].edit)
       /\ adopted' = orders[c].found.adopted

TakesEffectOnce ==
  parts' # parts =>
    \E c \in Commands :
      /\ orders[c] # Nothing /\ orders[c].state = "pending" /\ orders'[c].state = "applied"
      /\ \A f \in Files : parts'[f] # parts[f] => parts[f] = orders[c].found.parts[f]

LEMMA ProposalsAreReviewed ==
  ASSUME ModelTypeOK, [ModelNext]_workspaceVars
  PROVE  AppliesReviewed
<1> SUFFICES ASSUME NEW c \in Commands, Pending("proposal", c), orders'[c].state = "applied"
             PROVE  parts' = Edited(orders[c].found.parts, orders[c].edit) /\ adopted' = orders[c].found.adopted
  BY DEF AppliesReviewed
<1>1. orders[c].state = "pending" /\ orders[c] # Nothing /\ orders[c].kind = "proposal" /\ orders \in OrderTypes
  BY DEF Pending, ModelTypeOK, OrderTypes
<1>2. orders'[c] # orders[c]
  BY <1>1
<1>3. ApplyModelChangeSet(c)
  <2>1. ASSUME NEW d \in Commands, NEW e \in Edits, Propose(d, e) \/ Prepare(d, e)
        PROVE  FALSE
    BY <1>1, <1>2, <2>1 DEF Propose, Prepare, Ordered, OrderTypes
  <2>2. ASSUME NEW d \in Commands, RejectModelChangeSet(d)
        PROVE  FALSE
    BY <1>1, <1>2, <2>2, OrderResolved DEF RejectModelChangeSet
  <2>3. ASSUME NEW d \in Commands, ApplyModelChangeSet(d)
        PROVE  d = c
    BY <1>2, <2>3, OrderResolved DEF ApplyModelChangeSet
  <2>4. ASSUME NEW d \in Commands, CommitDirectModelChanges(d)
        PROVE  FALSE
    <3>1. d = c
      BY <1>2, <2>4, OrderResolved DEF CommitDirectModelChanges
    <3>2. QED
      BY <1>1, <2>4, <3>1 DEF CommitDirectModelChanges, Pending
  <2>5. ~(UNCHANGED orders)
    BY <1>2
  <2>6. QED
    BY <2>1, <2>2, <2>3, <2>4, <2>5 DEF ModelNext, AdoptAttachment, StartTechnicalCheck, FinishThrows, Restart,
       FinishTechnicalCheck, ArchiveModel, TrashModel, RestoreModel, ModelLives, workspaceVars
<1>4. orders[c].found.parts = parts /\ orders[c].found.adopted = adopted
  BY <1>3 DEF ApplyModelChangeSet, Workspace
<1>5. QED
  BY <1>3, <1>4 DEF ApplyModelChangeSet, Mutated

LEMMA ChangesOnlyByCommands ==
  ASSUME ModelTypeOK, [ModelNext]_workspaceVars
  PROVE  TakesEffectOnce
<1> SUFFICES ASSUME parts' # parts PROVE TakesEffectOnce
  BY DEF TakesEffectOnce
<1>1. PICK c \in Commands : ApplyModelChangeSet(c) \/ CommitDirectModelChanges(c)
  BY DEF ModelNext, Propose, Prepare, RejectModelChangeSet, AdoptAttachment, StartTechnicalCheck, FinishThrows, Restart,
     FinishTechnicalCheck, ArchiveModel, TrashModel, RestoreModel, ModelLives, workspaceVars, modelVars
<1>2. PICK kind \in {"proposal", "direct"} : Pending(kind, c)
  BY <1>1 DEF ApplyModelChangeSet, CommitDirectModelChanges
<1>3. /\ Resolved(c, "applied") /\ Mutated(orders[c].edit)
      /\ orders[c].found = Workspace \/ PriorMatches(c)
  BY <1>1 DEF ApplyModelChangeSet, CommitDirectModelChanges
<1>4. orders[c] \in Orders /\ orders'[c].state = "applied" /\ orders[c] # Nothing /\ orders[c].state = "pending"
  BY <1>2, <1>3, OrderResolved DEF Pending
<1>5. ASSUME NEW f \in Files, parts'[f] # parts[f]
      PROVE  parts[f] = orders[c].found.parts[f]
  <2>1. f \in DOMAIN orders[c].edit
    BY <1>3, <1>5 DEF Mutated, Edited, Parts
  <2>2. QED
    BY <1>3, <2>1 DEF Workspace, PriorMatches
<1>6. QED
  BY <1>4, <1>5 DEF TakesEffectOnce

\* Applying a change set gives what its reviewer saw with the change made; a command
\* takes effect once, and a direct change over nothing its author had not read.
THEOREM ChangesAreAsMadeTheorem == ModelSpec => ChangesAreAsMade
<1>1. ModelInv => ModelTypeOK
  BY DEF ModelInv, StatusIsTrue
<1>2. ModelTypeOK /\ [ModelNext]_workspaceVars => [AppliesReviewed]_workspaceVars /\ [TakesEffectOnce]_workspaceVars
  BY ProposalsAreReviewed, ChangesOnlyByCommands
<1>3. ModelSpec => [][AppliesReviewed]_workspaceVars /\ [][TakesEffectOnce]_workspaceVars
  BY <1>1, <1>2, Invariant, PTL DEF ModelSpec
<1>4. QED
  BY <1>3, PTL DEF ChangesAreAsMade, AppliesWhatWasReviewed, ChangesTakeEffectOnce, AppliesReviewed, TakesEffectOnce

-----------------------------------------------------------------------------

(* The resources. *)

\* A Project names its Model and a Conversation its owner for as long as they are.
Placed ==
  /\ \A p \in Projects : Exists(p) => source[p] \in Models
  /\ \A c \in Chats : Exists(c) => owner[c] \in Owners

\* A token is for what exists, and as long as it is fresh for all that would be deleted.
ShownIsTrue ==
  \A r \in Resources : shown[r] # None =>
    /\ Exists(r) /\ r \in shown[r].closure
    /\ shown[r].fresh => shown[r].closure = Closure(r)

ResourcesOK == ResourceTypes /\ NothingDangles /\ Placed /\ ShownIsTrue

(* The bindings. *)

\* A workspace has its Conversation as long as it is bound.
BoundHasChat ==
  \A k \in Keys : IF binding[k].state = "bound" THEN binding[k].chat \in Chats ELSE binding[k].chat = None

UnmadeIsNew == \A k \in Keys : binding[k].state = "absent" => binding[k].gen = 0

BindingsOK == BindingTypes /\ BoundOwnersExist /\ BoundHasChat /\ UnmadeIsNew

(* The guides. *)

GuideRows == [Guides -> [at : Stages, key : Keys \cup {None}, gen : Nat, ref : Nat]]

GuideTypes ==
  /\ guide \in GuideRows
  /\ call \in [Guides -> {"none", "open", "committed", "refused"}]
  /\ cap \subseteq Guides /\ holder \in Guides \cup {None}

\* A turn has its workspace from when it was asked; what it committed moved that
\* workspace past the generation it was asked for.
Asked ==
  \A t \in Guides :
    /\ ~At(t, "unasked") => K(t) \in Keys
    /\ call[t] # "none" => ~At(t, "unasked")
    /\ call[t] = "committed" => binding[K(t)].gen > guide[t].gen

GuidesOK == GuideTypes /\ ToolsOfOneTurn /\ Asked

IInv == ResourcesOK /\ BindingsOK /\ GuidesOK
-----------------------------------------------------------------------------
(* Tokens. *)

ShownTypes == shown \in [Resources -> {None} \cup [closure : SUBSET Resources, fresh : BOOLEAN]]

\* A step that touches some resources spoils the tokens for them, and no token gets better.
Spoils(changed) ==
  /\ ShownTypes'
  /\ \A r \in Resources : shown'[r] # None =>
       /\ shown[r] # None /\ shown'[r].closure = shown[r].closure
       /\ shown'[r].fresh => shown[r].fresh /\ shown[r].closure \cap changed = {}

LEMMA TouchesSpoils ==
  ASSUME ShownTypes, NEW changed, Touches(changed)
  PROVE  Spoils(changed)
<1>1. ASSUME NEW r \in Resources
      PROVE  /\ shown'[r] \in {None} \cup [closure : SUBSET Resources, fresh : BOOLEAN]
             /\ shown'[r] # None =>
                  /\ shown[r] # None /\ shown'[r].closure = shown[r].closure
                  /\ shown'[r].fresh => shown[r].fresh /\ shown[r].closure \cap changed = {}
  <2>1. shown[r] \in {None} \cup [closure : SUBSET Resources, fresh : BOOLEAN]
    BY DEF ShownTypes
  <2>2. CASE shown[r] # None /\ shown[r].closure \cap changed # {}
    <3>1. shown'[r] = [shown[r] EXCEPT !.fresh = FALSE] /\ shown[r] \in [closure : SUBSET Resources, fresh : BOOLEAN]
      BY <2>1, <2>2 DEF Touches
    <3>2. shown'[r] = [closure |-> shown[r].closure, fresh |-> FALSE]
      BY <3>1
    <3>3. QED  BY <2>2, <3>1, <3>2
  <2>3. CASE ~(shown[r] # None /\ shown[r].closure \cap changed # {})
    <3>1. shown'[r] = shown[r]
      BY <2>3 DEF Touches
    <3>2. QED  BY <2>1, <2>3, <3>1
  <2>4. QED  BY <2>2, <2>3
<1>2. shown' = [r \in Resources |-> shown'[r]]
  BY DEF Touches
<1>3. QED
  BY <1>1, <1>2 DEF Spoils, ShownTypes

LEMMA UnchangedSpoils == ShownTypes /\ UNCHANGED shown => Spoils({})
BY DEF Spoils, ShownTypes
-----------------------------------------------------------------------------
(* Steps of the resources. *)

\* What exists, its place and its tokens stay when only states, work and cards change.
LEMMA NothingComesOrGoes ==
  ASSUME ResourcesOK, NEW changed, Spoils(changed), UNCHANGED <<owner, source>>,
         life' \in [Resources -> Lives], \A r \in Resources : Exists(r)' = Exists(r),
         before' \in [Resources -> {None, "active", "archived"}],
         \A r \in Resources : (life'[r] = "trashed") = (before'[r] # None),
         busy' \subseteq {r \in Resources : Exists(r)}, cards' \subseteq {c \in Chats : Exists(c)}
  PROVE  ResourcesOK'
<1>1. ResourceTypes'
  BY DEF ResourcesOK, ResourceTypes, Spoils, ShownTypes
<1>2. Projects \subseteq Resources /\ Chats \subseteq Resources /\ Models \subseteq Resources /\ Owners \subseteq Resources
  BY DEF Resources, Owners
<1>3. NothingDangles' /\ Placed'
  BY <1>2 DEF ResourcesOK, NothingDangles, Placed
<1>4. \A r \in Resources : Closure(r)' = Closure(r)
  BY <1>2 DEF Closure
<1>5. ShownIsTrue'
  BY <1>4 DEF ResourcesOK, ShownIsTrue, Spoils
<1>6. QED
  BY <1>1, <1>3, <1>5 DEF ResourcesOK

LEMMA ResourceKept ==
  ASSUME ResourcesOK, UNCHANGED resourceVars
  PROVE  ResourcesOK'
BY DEF ResourcesOK, ResourceTypes, NothingDangles, Placed, ShownIsTrue, Exists, Closure, resourceVars

LEMMA ResourceMoves ==
  ASSUME NamesDiffer, ResourcesOK, NEW r \in Resources, Archive(r) \/ Trash(r) \/ Restore(r)
  PROVE  ResourcesOK'
<1> USE DEF Lives
<1>1. ResourceTypes /\ ShownTypes
  BY DEF ResourcesOK, ResourceTypes, ShownTypes
<1>2. PICK to \in {"active", "archived", "trashed"}, prior \in {None, "active", "archived"} :
        /\ life' = [life EXCEPT ![r] = to] /\ before' = [before EXCEPT ![r] = prior]
        /\ life[r] \in {"active", "archived", "trashed"} /\ (to = "trashed") = (prior # None)
        /\ Touches({r}) /\ UNCHANGED <<owner, source, busy, cards>>
  <2>1. CASE Archive(r)
    BY <2>1 DEF Archive, Moves
  <2>2. CASE Trash(r)
    BY <2>2, NamesDiffer DEF Trash, Moves, NamesDiffer
  <2>3. CASE Restore(r)
    <3>1. CASE Moves(r, {"archived"}, "active", None)
      BY <3>1 DEF Moves
    <3>2. CASE Moves(r, {"trashed"}, before[r], None)
      BY <1>1, <3>2 DEF Moves, ResourceTypes
    <3>3. QED  BY <2>3, <3>1, <3>2 DEF Restore
  <2>4. QED  BY <2>1, <2>2, <2>3
<1>3. life' \in [Resources -> Lives] /\ before' \in [Resources -> {None, "active", "archived"}]
  BY <1>1, <1>2 DEF ResourceTypes
<1>4. \A x \in Resources : Exists(x)' = Exists(x)
  BY <1>1, <1>2 DEF ResourceTypes, Exists
<1>5. \A x \in Resources : (life'[x] = "trashed") = (before'[x] # None)
  BY <1>1, <1>2 DEF ResourceTypes
<1>6. busy' \subseteq {x \in Resources : Exists(x)} /\ cards' \subseteq {c \in Chats : Exists(c)}
  BY <1>1, <1>2 DEF ResourcesOK, ResourceTypes, NothingDangles
<1>7. QED
  BY <1>1, <1>2, <1>3, <1>4, <1>5, <1>6, TouchesSpoils, NothingComesOrGoes

LEMMA ResourceWorks ==
  ASSUME ResourcesOK, NEW r \in Resources,
         (\E c \in Chats \cup {None} : StartWork(r, c)) \/ EndWork(r)
  PROVE  ResourcesOK'
<1>1. ResourceTypes /\ ShownTypes
  BY DEF ResourcesOK, ResourceTypes, ShownTypes
<1>2. UNCHANGED <<life, before, owner, source>> /\ \E changed : Touches(changed)
  BY DEF StartWork, EndWork
<1>3. \E changed : Spoils(changed)
  BY <1>1, <1>2, TouchesSpoils
<1>4. busy \subseteq {x \in Resources : Exists(x)} /\ cards \subseteq {c \in Chats : Exists(c)}
  BY DEF ResourcesOK, ResourceTypes, NothingDangles
<1>5. busy' \subseteq {x \in Resources : Exists(x)} /\ cards' \subseteq {c \in Chats : Exists(c)}
  BY <1>4 DEF StartWork, EndWork, Exists
<1>6. /\ life' \in [Resources -> Lives] /\ before' \in [Resources -> {None, "active", "archived"}]
      /\ \A x \in Resources : (life'[x] = "trashed") = (before'[x] # None)
      /\ \A x \in Resources : Exists(x)' = Exists(x)
  BY <1>1, <1>2 DEF ResourceTypes, Exists
<1>7. QED
  BY <1>2, <1>3, <1>5, <1>6, NothingComesOrGoes

LEMMA ResourceShown ==
  ASSUME ResourcesOK, NEW r \in Resources, Preview(r) \/ Expire(r)
  PROVE  ResourcesOK'
<1>1. UNCHANGED <<life, before, owner, source, busy, cards>>
  BY DEF Preview, Expire
<1>2. Closure(r) \in SUBSET Resources /\ r \in Closure(r)
  BY DEF Closure, Resources
<1>3. [closure |-> Closure(r), fresh |-> TRUE] \in [closure : SUBSET Resources, fresh : BOOLEAN]
  BY <1>2
<1>4. ShownTypes'
  BY <1>3 DEF ResourcesOK, ResourceTypes, ShownTypes, Preview, Expire
<1>5. ResourceTypes' /\ NothingDangles' /\ Placed'
  BY <1>1, <1>4 DEF ResourcesOK, ResourceTypes, NothingDangles, Placed, Exists, ShownTypes
<1>6. \A x \in Resources : Closure(x)' = Closure(x) /\ Exists(x)' = Exists(x)
  BY <1>1 DEF Closure, Exists
<1>7. ShownIsTrue'
  <2> SUFFICES ASSUME NEW x \in Resources, shown'[x] # None
               PROVE  Exists(x) /\ x \in shown'[x].closure /\ (shown'[x].fresh => shown'[x].closure = Closure(x))
    BY <1>6 DEF ShownIsTrue
  <2>1. CASE shown'[x] = shown[x]
    BY <2>1 DEF ResourcesOK, ShownIsTrue
  <2>2. CASE x = r /\ shown'[x] = [closure |-> Closure(r), fresh |-> TRUE] /\ Exists(r)
    BY <1>2, <2>2
  <2>3. QED
    BY <2>1, <2>2 DEF Preview, Expire, ResourcesOK, ResourceTypes
<1>8. QED
  BY <1>5, <1>7 DEF ResourcesOK

LEMMA ResourcesReopened ==
  ASSUME ResourcesOK, Reopened
  PROVE  ResourcesOK'
BY DEF ResourcesOK, Reopened, ResourceTypes, NothingDangles, Placed, ShownIsTrue, Exists, Closure
-----------------------------------------------------------------------------
(* Creation. *)

\* A Conversation comes with its owner or to one that is there; the owner's tokens are
\* spoiled, or there are none.
LEMMA SomethingComes ==
  ASSUME NamesDiffer, ResourcesOK, NEW o \in Owners, NEW c \in Chats, NEW changed, Spoils(changed),
         life[c] = "absent", life[o] = "absent" \/ (life[o] = "active" /\ o \in changed),
         life' = [life EXCEPT ![o] = "active", ![c] = "active"], owner' = [owner EXCEPT ![c] = o],
         source' \in [Projects -> Models \cup {None}],
         \A p \in Projects : IF p = o THEN Exists(source'[p]) /\ source'[p] \in Models ELSE source'[p] = source[p],
         UNCHANGED <<before, busy, cards>>
  PROVE  ResourcesOK'
<1> USE DEF ResourcesOK
<1>1. /\ Projects \subseteq Resources /\ Chats \subseteq Resources /\ Models \subseteq Resources
      /\ Owners \subseteq Resources /\ Owners \cap Chats = {} /\ Projects \subseteq Owners
  BY DEF Resources, Owners, NamesDiffer
<1>2. life' \in [Resources -> Lives] /\ owner' \in [Chats -> Owners \cup {None}]
  BY <1>1 DEF ResourceTypes, Lives
<1>3. /\ \A r \in Resources \ {o, c} : life'[r] = life[r]
      /\ life'[o] = "active" /\ life'[c] = "active"
      /\ owner'[c] = o /\ \A d \in Chats \ {c} : owner'[d] = owner[d]
  BY <1>1 DEF ResourceTypes
<1>4. ResourceTypes'
  <2>1. \A r \in Resources : (life'[r] = "trashed") = (before'[r] # None)
    BY <1>1, <1>3 DEF ResourceTypes
  <2>2. QED
    BY <1>2, <2>1 DEF ResourceTypes, Spoils, ShownTypes
<1>5. \A r \in Resources : Exists(r) => Exists(r)'
  BY <1>3 DEF Exists
<1>6. \A r \in Resources : Exists(r)' => Exists(r) \/ r \in {o, c}
  BY <1>3 DEF Exists
<1>7. Placed'
  <2>1. ASSUME NEW p \in Projects, Exists(p)' PROVE source'[p] \in Models
    <3>1. CASE p = o
      BY <3>1
    <3>2. CASE p # o
      <4>1. Exists(p) /\ source'[p] = source[p]
        BY <1>1, <1>6, <2>1, <3>2
      <4>2. QED  BY <4>1 DEF Placed
    <3>3. QED  BY <3>1, <3>2
  <2>2. ASSUME NEW d \in Chats, Exists(d)' PROVE owner'[d] \in Owners
    <3>1. d # c => Exists(d)
      BY <1>1, <1>6, <2>2
    <3>2. QED  BY <1>3, <3>1 DEF Placed
  <2>3. QED  BY <2>1, <2>2 DEF Placed
<1>8. NothingDangles'
  <2>1. \A p \in Projects : Exists(p)' => Exists(source[p])'
    <3> SUFFICES ASSUME NEW p \in Projects, Exists(p)' PROVE Exists(source[p])'
      OBVIOUS
    <3>1. source'[p] \in Models /\ Exists(source'[p])
      <4>1. CASE p = o
        BY <4>1
      <4>2. CASE p # o
        <5>1. Exists(p) /\ source'[p] = source[p]
          BY <1>1, <1>6, <4>2
        <5>2. QED  BY <5>1 DEF Placed, NothingDangles
      <4>3. QED  BY <4>1, <4>2
    <3>2. QED
      BY <1>1, <1>3, <3>1 DEF Exists
  <2>2. \A d \in Chats : Exists(d)' => Exists(owner[d])'
    <3> SUFFICES ASSUME NEW d \in Chats, Exists(d)' PROVE Exists(owner[d])'
      OBVIOUS
    <3>1. CASE d = c
      BY <1>3, <3>1 DEF Exists
    <3>2. CASE d # c
      <4>1. Exists(d) /\ owner[d] \in Owners /\ Exists(owner[d])
        BY <1>1, <1>6, <3>2 DEF Placed, NothingDangles
      <4>2. QED
        BY <1>1, <1>3, <1>5, <3>2, <4>1 DEF Exists
    <3>3. QED  BY <3>1, <3>2
  <2>3. (\A r \in busy' : Exists(r)') /\ (\A d \in cards' : Exists(d)')
    BY <1>1, <1>5 DEF NothingDangles, ResourceTypes
  <2>4. QED  BY <2>1, <2>2, <2>3 DEF NothingDangles
<1>9. ShownIsTrue'
  <2> SUFFICES ASSUME NEW r \in Resources, shown'[r] # None
               PROVE  /\ Exists(r)' /\ r \in shown'[r].closure
                      /\ shown'[r].fresh => shown'[r].closure = Closure(r)'
    BY DEF ShownIsTrue
  <2>1. /\ Exists(r) /\ r \in shown[r].closure /\ shown'[r].closure = shown[r].closure
        /\ shown'[r].fresh => shown[r].closure = Closure(r) /\ shown[r].closure \cap changed = {}
    BY DEF Spoils, ShownIsTrue
  <2>2. ASSUME shown'[r].fresh
        PROVE  Closure(r)' = Closure(r)
    <3>1. r # o /\ r # c
      BY <2>1, <2>2 DEF Exists
    <3>2. \A d \in Chats : owner'[d] = r /\ Exists(d)' <=> owner[d] = r /\ Exists(d)
      BY <1>1, <1>3, <3>1 DEF Exists
    <3>3. QED  BY <3>2 DEF Closure
  <2>3. QED
    BY <1>5, <2>1, <2>2
<1>10. QED
  BY <1>4, <1>7, <1>8, <1>9

LEMMA Created ==
  ASSUME NamesDiffer, ResourcesOK, NEW c \in Chats,
         \/ \E m \in Models : NewModel(m, c)
         \/ \E p \in Projects, m \in Models : NewProject(p, m, c)
         \/ \E o \in Owners : NewChat(o, c)
  PROVE  ResourcesOK'
<1>1. ShownTypes /\ ResourceTypes
  BY DEF ResourcesOK, ResourceTypes, ShownTypes
<1>2. ASSUME NEW m \in Models, NewModel(m, c)
      PROVE  ResourcesOK'
  <2>1. m \in Owners /\ m \notin Projects
    BY DEF Owners, NamesDiffer
  <2>2. QED
    BY <1>1, <1>2, <2>1, UnchangedSpoils, SomethingComes DEF NewModel, CreatedWith, ResourceTypes
<1>3. ASSUME NEW p \in Projects, NEW m \in Models, NewProject(p, m, c)
      PROVE  ResourcesOK'
  <2>1. p \in Owners /\ Spoils({m}) /\ life[p] = "absent" /\ life[c] = "absent"
    BY <1>1, <1>3, TouchesSpoils DEF Owners, NewProject, CreatedWith
  <2>2. /\ source' \in [Projects -> Models \cup {None}] /\ source'[p] = m
        /\ \A q \in Projects \ {p} : source'[q] = source[q]
    BY <1>1, <1>3 DEF NewProject, ResourceTypes
  <2>3. Exists(m)
    BY <1>3 DEF NewProject, Exists
  <2>4. QED
    BY <1>3, <2>1, <2>2, <2>3, SomethingComes DEF NewProject, CreatedWith
<1>4. ASSUME NEW o \in Owners, NewChat(o, c)
      PROVE  ResourcesOK'
  <2>1. Spoils({o}) /\ o # c
    BY <1>1, <1>4, TouchesSpoils DEF NewChat
  <2>2. life' = [life EXCEPT ![o] = "active", ![c] = "active"]
    BY <1>1, <1>4 DEF NewChat, ResourceTypes, Resources
  <2>3. \A p \in Projects : p = o => Exists(source[p]) /\ source[p] \in Models
    BY <1>4 DEF NewChat, ResourcesOK, NothingDangles, Placed, Exists
  <2>4. QED
    BY <1>1, <1>4, <2>1, <2>2, <2>3, SomethingComes DEF NewChat, ResourceTypes
<1>5. QED
  BY <1>2, <1>3, <1>4
-----------------------------------------------------------------------------
(* Permanent deletion. *)

LEMMA DeletedShown ==
  ASSUME ShownTypes, NEW r \in Resources, Deleted(r)
  PROVE  Spoils(Closure(r)) /\ \A x \in Resources \cap Closure(r) : shown'[x] = None
<1>1. ASSUME NEW x \in Resources
      PROVE  /\ shown'[x] \in {None} \cup [closure : SUBSET Resources, fresh : BOOLEAN]
             /\ x \in Closure(r) => shown'[x] = None
             /\ shown'[x] # None =>
                  /\ shown[x] # None /\ shown'[x].closure = shown[x].closure
                  /\ shown'[x].fresh => shown[x].fresh /\ shown[x].closure \cap Closure(r) = {}
  <2>1. shown[x] \in {None} \cup [closure : SUBSET Resources, fresh : BOOLEAN]
    BY DEF ShownTypes
  <2>2. CASE x \in Closure(r)
    BY <2>2 DEF Deleted
  <2>3. CASE x \notin Closure(r) /\ shown[x] # None /\ shown[x].closure \cap Closure(r) # {}
    <3>1. shown'[x] = [shown[x] EXCEPT !.fresh = FALSE] /\ shown[x] \in [closure : SUBSET Resources, fresh : BOOLEAN]
      BY <2>1, <2>3 DEF Deleted
    <3>2. shown'[x] = [closure |-> shown[x].closure, fresh |-> FALSE]
      BY <3>1
    <3>3. QED  BY <2>3, <3>1, <3>2
  <2>4. CASE x \notin Closure(r) /\ ~(shown[x] # None /\ shown[x].closure \cap Closure(r) # {})
    <3>1. shown'[x] = shown[x]
      BY <2>4 DEF Deleted
    <3>2. QED  BY <2>1, <2>4, <3>1
  <2>5. QED  BY <2>2, <2>3, <2>4
<1>2. shown' = [x \in Resources |-> shown'[x]]
  BY DEF Deleted
<1>3. QED
  BY <1>1, <1>2 DEF Spoils, ShownTypes

\* What is deleted takes nothing with it that something else needs.
LEMMA SomethingGoes ==
  ASSUME NamesDiffer, ResourcesOK, NEW r \in Resources, Deletable(r), Deleted(r)
  PROVE  ResourcesOK'
<1> USE DEF ResourcesOK
<1>1. /\ Projects \subseteq Resources /\ Chats \subseteq Resources /\ Models \subseteq Resources
      /\ Owners \subseteq Resources /\ Owners \cap Chats = {} /\ Projects \cap Models = {}
      /\ Projects \cap Chats = {} /\ Models \cap Chats = {} /\ Projects \subseteq Owners
  BY DEF Resources, Owners, NamesDiffer
<1>2. r \in Closure(r) /\ Closure(r) \subseteq {r} \cup Chats
  BY DEF Closure
<1>3. \A x \in Resources : life'[x] = (IF x \in Closure(r) THEN "deleted" ELSE life[x])
  BY DEF Deleted
<1>4. \A x \in Resources : Exists(x)' = (Exists(x) /\ x \notin Closure(r))
  BY <1>3 DEF Exists
<1>5. ShownTypes /\ UNCHANGED <<owner, source, busy>>
  BY DEF ResourceTypes, ShownTypes, Deleted
<1>6. Spoils(Closure(r)) /\ \A x \in Resources \cap Closure(r) : shown'[x] = None
  BY <1>5, DeletedShown
<1>7. ResourceTypes'
  <2>1. life' \in [Resources -> Lives]
    BY DEF Deleted, ResourceTypes, Lives
  <2>2. before' \in [Resources -> {None, "active", "archived"}]
    BY DEF Deleted, ResourceTypes
  <2>3. \A x \in Resources : (life'[x] = "trashed") = (before'[x] # None)
    BY <1>3 DEF Deleted, ResourceTypes
  <2>4. cards' \subseteq Chats
    BY DEF Deleted, ResourceTypes
  <2>5. QED
    BY <1>5, <1>6, <2>1, <2>2, <2>3, <2>4 DEF ResourceTypes, Spoils, ShownTypes
<1>8. Placed'
  BY <1>1, <1>4, <1>5 DEF Placed
<1>9. NothingDangles'
  <2>1. \A p \in Projects : Exists(p)' => Exists(source[p])'
    <3> SUFFICES ASSUME NEW p \in Projects, Exists(p)' PROVE Exists(source[p])'
      OBVIOUS
    <3>1. Exists(p) /\ source[p] \in Models /\ Exists(source[p])
      BY <1>1, <1>4 DEF Placed, NothingDangles
    <3>2. source[p] # r
      BY <3>1 DEF Deletable, Blocked
    <3>3. source[p] \notin Closure(r)
      BY <1>1, <1>2, <3>1, <3>2
    <3>4. QED
      BY <1>1, <1>4, <1>5, <3>1, <3>3 DEF Exists
  <2>2. \A c \in Chats : Exists(c)' => Exists(owner[c])'
    <3> SUFFICES ASSUME NEW c \in Chats, Exists(c)' PROVE Exists(owner[c])'
      OBVIOUS
    <3>1. Exists(c) /\ owner[c] \in Owners /\ Exists(owner[c]) /\ c \notin Closure(r)
      BY <1>1, <1>4 DEF Placed, NothingDangles
    <3>2. owner[c] # r
      BY <3>1 DEF Closure
    <3>3. owner[c] \notin Closure(r)
      BY <1>1, <1>2, <3>1, <3>2
    <3>4. QED
      BY <1>1, <1>4, <1>5, <3>1, <3>3 DEF Exists
  <2>3. \A x \in busy' : Exists(x)'
    BY <1>4, <1>5 DEF Deletable, Active, NothingDangles, ResourceTypes
  <2>4. \A c \in cards' : Exists(c)'
    BY <1>1, <1>4 DEF Deleted, NothingDangles, ResourceTypes
  <2>5. QED  BY <2>1, <2>2, <2>3, <2>4 DEF NothingDangles
<1>10. ShownIsTrue'
  <2> SUFFICES ASSUME NEW x \in Resources, shown'[x] # None
               PROVE  /\ Exists(x)' /\ x \in shown'[x].closure
                      /\ shown'[x].fresh => shown'[x].closure = Closure(x)'
    BY DEF ShownIsTrue
  <2>1. /\ Exists(x) /\ x \in shown[x].closure /\ shown'[x].closure = shown[x].closure /\ x \notin Closure(r)
        /\ shown'[x].fresh => shown[x].closure = Closure(x) /\ shown[x].closure \cap Closure(r) = {}
    BY <1>6 DEF Spoils, ShownIsTrue
  <2>2. ASSUME shown'[x].fresh
        PROVE  Closure(x)' = Closure(x)
    <3>1. Closure(x) \cap Closure(r) = {}
      BY <2>1, <2>2
    <3>2. \A c \in Chats : owner'[c] = x /\ Exists(c)' <=> owner[c] = x /\ Exists(c)
      BY <1>1, <1>4, <1>5, <3>1 DEF Closure
    <3>3. QED  BY <3>2 DEF Closure
  <2>3. QED
    BY <1>4, <2>1, <2>2
<1>11. QED
  BY <1>7, <1>8, <1>9, <1>10
-----------------------------------------------------------------------------
(* The bindings. *)

SessionTypes == session \in [Keys -> [gen : Nat, state : {"closed", "creating", "available", "lost"}]]

\* Nothing that a workspace may be bound to goes, or changes its owner.
NothingGoes ==
  /\ \A r \in Resources : Exists(r) => Exists(r)'
  /\ \A c \in Chats : Exists(c) => owner'[c] = owner[c]

\* A Conversation that was not there is there, with its owner.
Makes(o, c) == ~Exists(c) /\ Exists(o)' /\ Exists(c)' /\ owner'[c] = o /\ o \in Owners

LEMMA CreationMakes ==
  ASSUME NamesDiffer, ResourceTypes, NEW c \in Chats, NEW o \in Owners,
         \/ NewModel(o, c)
         \/ \E m \in Models : NewProject(o, m, c)
         \/ NewChat(o, c)
  PROVE  NothingGoes /\ Makes(o, c)
<1>1. o \in Resources /\ c \in Resources /\ o # c
  BY DEF NamesDiffer, Owners, Resources
<1>2. CASE CreatedWith(o, c)
  BY <1>1, <1>2 DEF CreatedWith, NothingGoes, Makes, Exists, ResourceTypes
<1>3. CASE NewChat(o, c)
  BY <1>1, <1>3 DEF NewChat, NothingGoes, Makes, Exists, ResourceTypes
<1>4. QED
  BY <1>2, <1>3 DEF NewModel, NewProject

LEMMA OthersKeepAll ==
  ASSUME ResourceTypes, NEW r \in Resources,
         \/ Archive(r) \/ Trash(r) \/ Restore(r) \/ Preview(r) \/ Expire(r) \/ EndWork(r)
         \/ \E c \in Chats \cup {None} : StartWork(r, c)
  PROVE  NothingGoes
<1>1. UNCHANGED owner
  BY DEF Archive, Trash, Restore, Moves, Preview, Expire, EndWork, StartWork
<1>2. \/ UNCHANGED life
      \/ \E to \in {"active", "archived", "trashed"} \cup {before[r]} :
           /\ life' = [life EXCEPT ![r] = to]
           /\ to = before[r] => life[r] = "trashed" \/ to \in {"active", "archived", "trashed"}
  BY DEF Archive, Trash, Restore, Moves, Preview, Expire, EndWork, StartWork
<1>3. life[r] = "trashed" => before[r] \in {"active", "archived"}
  BY DEF ResourceTypes
<1>4. QED
  BY <1>1, <1>2, <1>3 DEF NothingGoes, Exists, ResourceTypes

LEMMA BindingsKept ==
  ASSUME BindingsOK, UNCHANGED binding, SessionTypes', NothingGoes
  PROVE  BindingsOK'
<1>1. Owners \subseteq Resources /\ Chats \subseteq Resources
  BY DEF Resources
<1>2. BindingTypes' /\ BoundHasChat' /\ UnmadeIsNew'
  BY DEF BindingsOK, BindingTypes, SessionTypes, BoundHasChat, UnmadeIsNew
<1>3. ASSUME NEW k \in Keys, binding[k].state = "bound"
      PROVE  /\ Exists(binding[k].owner)' /\ Exists(binding[k].chat)'
             /\ owner'[binding[k].chat] = binding[k].owner
  <2>1. /\ binding[k].owner # None /\ Exists(binding[k].owner) /\ Exists(binding[k].chat)
        /\ owner[binding[k].chat] = binding[k].owner
    BY <1>3 DEF BindingsOK, BoundOwnersExist
  <2>2. binding[k].owner \in Owners \cup {None} /\ binding[k].chat \in Chats \cup {None}
    BY DEF BindingsOK, BindingTypes
  <2>3. binding[k].chat \in Chats
    BY <1>3, <2>1, <2>2 DEF BindingsOK, BoundOwnersExist, BoundHasChat
  <2>4. QED
    BY <1>1, <2>1, <2>2, <2>3 DEF NothingGoes, Exists
<1>4. BoundOwnersExist'
  BY <1>3 DEF BindingsOK, BoundOwnersExist
<1>5. QED
  BY <1>2, <1>4 DEF BindingsOK

LEMMA BindingsBound ==
  ASSUME BindingsOK, NEW k \in Keys, NEW gen \in Nat, NEW o, NEW c \in Chats,
         NamesDiffer, NothingGoes, Makes(o, c), Bound(k, gen, o, c)
  PROVE  BindingsOK'
<1> USE DEF BindingsOK
<1>1. Owners \subseteq Resources /\ Chats \subseteq Resources
  BY DEF Resources
<1>2. /\ binding'[k] = [state |-> "bound", gen |-> gen + 1, provider |-> TRUE, owner |-> o, chat |-> c]
      /\ \A j \in Keys \ {k} : binding'[j] = binding[j]
  BY DEF Bound, BindingTypes
<1>3. BindingTypes'
  BY DEF Bound, BindingTypes, Makes
<1>4. BoundHasChat' /\ UnmadeIsNew'
  BY <1>2 DEF BoundHasChat, UnmadeIsNew
<1>5. ASSUME NEW j \in Keys \ {k}
      PROVE  /\ (binding'[j].state = "bound") = (binding'[j].owner # None)
             /\ binding'[j].chat # c
             /\ binding'[j].state = "bound" =>
                  /\ Exists(binding[j].owner)' /\ Exists(binding[j].chat)'
                  /\ owner'[binding'[j].chat] = binding'[j].owner
  <2>1. binding'[j] = binding[j] /\ binding[j].owner \in Owners \cup {None}
    BY <1>2 DEF BindingTypes
  <2>2. binding[j].state = "bound" => binding[j].owner \in Resources /\ binding[j].chat \in Chats
    BY <1>1, <2>1 DEF BoundOwnersExist, BoundHasChat
  <2>3. binding[j].chat # c
    <3>1. CASE binding[j].state = "bound"
      BY <3>1 DEF BoundOwnersExist, Makes, Exists
    <3>2. CASE binding[j].state # "bound"
      <4>1. binding[j].chat = None
        BY <3>2 DEF BoundHasChat
      <4>2. QED  BY <4>1, NamesDiffer DEF NamesDiffer, Resources
    <3>3. QED  BY <3>1, <3>2
  <2>4. QED
    BY <1>1, <2>1, <2>2, <2>3 DEF BoundOwnersExist, NothingGoes, Exists
<1>6. BoundOwnersExist'
  <2>1. ASSUME NEW j \in Keys \ {k}, NEW i \in Keys \ {j}, binding'[j].state = "bound"
        PROVE  binding'[i].chat # binding'[j].chat
    <3>1. CASE i = k
      BY <1>2, <1>5, <3>1
    <3>2. CASE i # k
      BY <1>2, <2>1, <3>2 DEF BoundOwnersExist
    <3>3. QED  BY <3>1, <3>2
  <2>2. \A i \in Keys \ {k} : binding'[i].chat # binding'[k].chat
    BY <1>2, <1>5
  <2>3. (binding'[k].state = "bound") = (binding'[k].owner # None)
    BY <1>2, NamesDiffer DEF Makes, NamesDiffer, Resources
  <2>4. binding'[k].state = "bound" =>
           /\ Exists(binding[k].owner)' /\ Exists(binding[k].chat)'
           /\ owner'[binding'[k].chat] = binding'[k].owner
    BY <1>2 DEF Makes, Exists
  <2>5. QED
    BY <1>5, <2>1, <2>2, <2>3, <2>4 DEF BoundOwnersExist
<1>7. QED
  BY <1>3, <1>4, <1>6


LEMMA BindingsDeleted ==
  ASSUME NamesDiffer, ResourcesOK, BindingsOK, NEW r \in Resources, PermanentDelete(r)
  PROVE  BindingsOK'
<1> USE DEF BindingsOK
<1>1. Owners \subseteq Resources /\ Chats \subseteq Resources /\ Owners \cap Chats = {}
  BY DEF Resources, Owners, NamesDiffer
<1>2. UNCHANGED owner /\ \A x \in Resources : Exists(x)' = (Exists(x) /\ x \notin Closure(r))
  BY DEF PermanentDelete, Deleted, Exists
<1>3. ASSUME NEW k \in Keys
      PROVE  /\ binding'[k] \in [state : {"absent", "unbound", "bound", "recovery_required"},
                  gen : Nat, provider : BOOLEAN, owner : Owners \cup {None}, chat : Chats \cup {None}]
             /\ \/ binding'[k] = binding[k] /\ ~OwnerOrChat(k, r)
                \/ binding'[k].state = "recovery_required" /\ binding'[k].owner = None /\ binding'[k].chat = None
  <2>1. binding[k] \in [state : {"absent", "unbound", "bound", "recovery_required"},
            gen : Nat, provider : BOOLEAN, owner : Owners \cup {None}, chat : Chats \cup {None}]
    BY DEF BindingTypes
  <2>2. binding'[k] = (IF OwnerOrChat(k, r) THEN Recovered(binding[k]) ELSE binding[k])
    BY DEF PermanentDelete
  <2>3. QED
    BY <2>1, <2>2 DEF Recovered
<1>4. BindingTypes'
  <2>1. binding' = [k \in Keys |-> binding'[k]] /\ UNCHANGED session
    BY DEF PermanentDelete
  <2>2. QED
    BY <1>3, <2>1 DEF BindingTypes
<1>5. BoundHasChat'
  <2> SUFFICES ASSUME NEW k \in Keys
               PROVE  IF binding'[k].state = "bound" THEN binding'[k].chat \in Chats ELSE binding'[k].chat = None
    BY DEF BoundHasChat
  <2>1. QED
    BY <1>3 DEF BoundHasChat
<1>5a. UnmadeIsNew'
  BY <1>3 DEF UnmadeIsNew
<1>6. ASSUME NEW k \in Keys, binding'[k].state = "bound"
      PROVE  /\ binding'[k] = binding[k]
             /\ Exists(binding[k].owner)' /\ Exists(binding[k].chat)'
             /\ owner'[binding[k].chat] = binding[k].owner
             /\ binding[k].chat # None
  <2>1. binding'[k] = binding[k] /\ ~OwnerOrChat(k, r)
    BY <1>3, <1>6
  <2>2. binding[k].owner \in Owners \cup {None} /\ binding[k].owner # None /\ binding[k].chat \in Chats
    BY <1>6, <2>1 DEF BindingTypes, BoundOwnersExist, BoundHasChat
  <2>3. /\ Exists(binding[k].owner) /\ Exists(binding[k].chat)
        /\ owner[binding[k].chat] = binding[k].owner
    BY <1>6, <2>1 DEF BoundOwnersExist
  <2>4. binding[k].owner # r /\ binding[k].chat # r
    BY <1>6, <2>1 DEF OwnerOrChat
  <2>5. binding[k].owner \notin Closure(r) /\ binding[k].chat \notin Closure(r)
    BY <1>1, <2>2, <2>3, <2>4 DEF Closure
  <2>6. binding[k].chat # None
    BY <1>1, <2>2, NamesDiffer DEF NamesDiffer
  <2>7. binding[k].owner \in Resources /\ binding[k].chat \in Resources
    BY <1>1, <2>2
  <2>8. Exists(binding[k].owner)' /\ Exists(binding[k].chat)'
    BY <1>2, <2>1, <2>3, <2>5, <2>7 DEF Exists
  <2>9. QED
    BY <1>2, <2>1, <2>3, <2>6, <2>8
<1>7. BoundOwnersExist'
  <2>1. ASSUME NEW k \in Keys, NEW j \in Keys \ {k}, binding'[k].state = "bound"
        PROVE  binding'[j].chat # binding'[k].chat
    BY <1>3, <1>6, <2>1 DEF BoundOwnersExist
  <2>2. ASSUME NEW k \in Keys
        PROVE  (binding'[k].state = "bound") = (binding'[k].owner # None)
    BY <1>3 DEF BoundOwnersExist
  <2>3. ASSUME NEW k \in Keys, binding'[k].state = "bound"
        PROVE  /\ Exists(binding[k].owner)' /\ Exists(binding[k].chat)'
               /\ owner'[binding'[k].chat] = binding'[k].owner
    BY <1>6, <2>3 DEF Exists
  <2>4. QED
    BY <2>1, <2>2, <2>3 DEF BoundOwnersExist
<1>8. QED
  BY <1>4, <1>5, <1>5a, <1>7

\* The generation of a binding is never lowered.
GensGrow == \A k \in Keys : binding'[k].gen >= binding[k].gen

LEMMA BindingDrafted ==
  ASSUME NamesDiffer, BindingsOK, NEW k \in Keys, UNCHANGED resourceVars,
         CreateWorkspaceBinding(k) \/ \E p \in BOOLEAN : UpdateWorkspaceBindingDraft(k, p)
  PROVE  BindingsOK' /\ GensGrow
<1> USE DEF BindingsOK
<1>1. \A r \in Resources : Exists(r)' = Exists(r)
  BY DEF resourceVars, Exists
<1>2. binding[k].gen \in Nat /\ binding[k].gen + 1 \in Nat
  BY DEF BindingTypes
<1>3. PICK p \in BOOLEAN, g \in Nat :
        /\ binding[k].state \in {"absent", "unbound"} /\ g >= binding[k].gen
        /\ binding' = [binding EXCEPT ![k] = Unbound(g, p)]
  <2>1. CASE CreateWorkspaceBinding(k)
    <3>1. 1 \in Nat /\ 1 >= binding[k].gen
      BY <2>1 DEF CreateWorkspaceBinding, UnmadeIsNew
    <3>2. FALSE \in BOOLEAN /\ binding[k].state = "absent" /\ binding' = [binding EXCEPT ![k] = Unbound(1, FALSE)]
      BY <2>1 DEF CreateWorkspaceBinding
    <3>3. binding[k].state \in {"absent", "unbound"}
      BY <3>2
    <3>4. QED
      BY <3>1, <3>2, <3>3, Zenon
  <2>2. ASSUME NEW p \in BOOLEAN, UpdateWorkspaceBindingDraft(k, p)
        PROVE  /\ binding[k].state \in {"absent", "unbound"} /\ binding[k].gen + 1 >= binding[k].gen
               /\ binding' = [binding EXCEPT ![k] = Unbound(binding[k].gen + 1, p)]
    <3>1. binding[k].state = "unbound" /\ binding' = [binding EXCEPT ![k] = Unbound(@.gen + 1, p)]
      BY <2>2 DEF UpdateWorkspaceBindingDraft
    <3>2. binding[k].gen + 1 >= binding[k].gen
      BY <1>2
    <3>3. QED  BY <3>1, <3>2
  <2>3. QED  BY <1>2, <2>1, <2>2, Zenon
<1>4. /\ binding'[k] = [state |-> "unbound", gen |-> g, provider |-> p, owner |-> None, chat |-> None]
      /\ \A j \in Keys \ {k} : binding'[j] = binding[j]
  BY <1>3 DEF BindingTypes, Unbound
<1>5. GensGrow
  BY <1>3, <1>4 DEF BindingTypes, GensGrow
<1>6. BindingTypes'
  BY <1>3 DEF BindingTypes, Unbound, CreateWorkspaceBinding, UpdateWorkspaceBindingDraft
<1>7. BoundHasChat' /\ UnmadeIsNew'
  BY <1>4 DEF BoundHasChat, UnmadeIsNew
<1>8. BoundOwnersExist'
  <2>1. ASSUME NEW j \in Keys \ {k}, binding[j].state = "bound"
        PROVE  binding[j].chat # None
    BY <2>1, NamesDiffer DEF BoundHasChat, NamesDiffer, Resources
  <2>2. \A j \in Keys \ {k} : Exists(binding[j].owner)' = Exists(binding[j].owner) /\ Exists(binding[j].chat)' = Exists(binding[j].chat)
    BY <1>4 DEF Exists, resourceVars
  <2>3. \A j \in Keys \ {k} : \A i \in Keys \ {j} : binding[j].state = "bound" => binding'[i].chat # binding'[j].chat
    BY <1>4, <2>1 DEF BoundOwnersExist
  <2>4. UNCHANGED owner
    BY DEF resourceVars
  <2>5. QED
    BY <1>4, <2>2, <2>3, <2>4 DEF BoundOwnersExist
<1>9. QED  BY <1>5, <1>6, <1>7, <1>8

LEMMA BootstrapMakes ==
  ASSUME NamesDiffer, ResourcesOK, BindingsOK, NEW k \in Keys, NEW gen \in Nat, BootstrapMutation(k, gen)
  PROVE  ResourcesOK' /\ BindingsOK' /\ GensGrow /\ binding'[k].gen = gen + 1
<1>1. PICK c \in Chats, o \in Owners :
        /\ Bound(k, gen, o, c)
        /\ (NewModel(o, c) /\ o \in Models) \/ (\E m \in Models : o \in Projects /\ NewProject(o, m, c)) \/ NewChat(o, c)
  BY DEF BootstrapMutation, Owners
<1>2. ResourcesOK'
  BY <1>1, Created
<1>3. NothingGoes /\ Makes(o, c)
  BY <1>1, CreationMakes DEF ResourcesOK
<1>4. BindingsOK'
  BY <1>1, <1>3, BindingsBound
<1>5. GensGrow /\ binding'[k].gen = gen + 1
  BY <1>1 DEF BindingsOK, BindingTypes, Bound, Current, GensGrow
<1>6. QED
  BY <1>2, <1>4, <1>5
-----------------------------------------------------------------------------
(* The guides. *)

\* A turn that was asked for goes on; its workspace and its generation stay.
Advances(t, stage) ==
  /\ guide' \in GuideRows /\ ~At(t, "unasked")
  /\ guide'[t].at = stage /\ guide'[t].key = guide[t].key /\ guide'[t].gen = guide[t].gen
  /\ \A u \in Guides \ {t} : guide'[u] = guide[u]

LEMMA GoesAdvances ==
  ASSUME GuideTypes, NEW t \in Guides, ~At(t, "unasked"), NEW stage \in Stages, Goes(t, stage)
  PROVE  Advances(t, stage)
BY DEF GuideTypes, GuideRows, Goes, Advances

LEMMA GoesWithAdvances ==
  ASSUME GuideTypes, NEW t \in Guides, ~At(t, "unasked"), NEW stage \in Stages, NEW ref \in Nat,
         GoesWith(t, stage, ref)
  PROVE  Advances(t, stage)
BY DEF GuideTypes, GuideRows, GoesWith, Advances

LEMMA GuideAdvances ==
  ASSUME GuidesOK, NEW t \in Guides, NEW stage, stage # "unasked", Advances(t, stage),
         UNCHANGED <<binding, call>>, cap' \subseteq cap \cup {t}, holder' \in Guides \cup {None},
         (stage = "prompting") = (holder' = t),
         \A u \in Guides \ {t} : (holder' = u) = (holder = u),
         t \in cap' => stage \in {"waiting", "prompting"}
  PROVE  GuidesOK'
<1> USE DEF GuidesOK
<1>1. GuideTypes'
  BY DEF GuideTypes, Advances, GuideRows
<1>2. ToolsOfOneTurn'
  <2>1. \A u \in Guides : guide'[u].at = (IF u = t THEN stage ELSE guide[u].at)
    BY DEF Advances
  <2>2. \A u \in Guides : (guide'[u].at = "prompting") = (holder' = u)
    BY <2>1 DEF ToolsOfOneTurn, At
  <2>3. \A u \in cap' : guide'[u].at \in {"waiting", "prompting"}
    BY <2>1 DEF ToolsOfOneTurn, At, GuideTypes
  <2>4. QED
    BY <2>2, <2>3 DEF ToolsOfOneTurn, At
<1>3. Asked'
  BY DEF Asked, Advances, At, K
<1>4. QED
  BY <1>1, <1>2, <1>3

LEMMA GuideKept ==
  ASSUME GuidesOK, GensGrow, BindingTypes, BindingTypes', UNCHANGED guideVars
  PROVE  GuidesOK'
<1> USE DEF GuidesOK
<1>1. GuideTypes' /\ ToolsOfOneTurn'
  BY DEF GuideTypes, GuideRows, ToolsOfOneTurn, At, guideVars
<1>2. Asked'
  <2> SUFFICES ASSUME NEW t \in Guides
               PROVE  /\ ~At(t, "unasked") => K(t) \in Keys
                      /\ call[t] # "none" => ~At(t, "unasked")
                      /\ call[t] = "committed" => binding'[K(t)].gen > guide[t].gen
    BY DEF Asked, At, K, guideVars
  <2>1. call[t] = "committed" => K(t) \in Keys /\ binding[K(t)].gen > guide[t].gen
    BY DEF Asked
  <2>2. guide[t].gen \in Nat
    BY DEF GuideTypes, GuideRows
  <2>3. \A k \in Keys : binding[k].gen \in Nat /\ binding'[k].gen \in Nat /\ binding'[k].gen >= binding[k].gen
    BY DEF BindingTypes, GensGrow
  <2>4. QED
    BY <2>1, <2>2, <2>3 DEF Asked
<1>3. QED
  BY <1>1, <1>2

LEMMA SessionSteps ==
  ASSUME SessionTypes, NEW k \in Keys, NEW gen, NEW s,
         \/ BeginBootstrapSession(k, gen) \/ ActivateBootstrapSession(k, s)
         \/ LoseBootstrapSession(k, s) \/ UNCHANGED session
  PROVE  SessionTypes'
<1>1. session[k].gen \in Nat /\ session[k].gen + 1 \in Nat
  BY DEF SessionTypes
<1>2. CASE BeginBootstrapSession(k, gen)
  BY <1>1, <1>2 DEF BeginBootstrapSession, SessionTypes
<1>3. CASE ActivateBootstrapSession(k, s)
  BY <1>3 DEF ActivateBootstrapSession, SessionTypes
<1>4. CASE LoseBootstrapSession(k, s)
  BY <1>4 DEF LoseBootstrapSession, SessionTypes
<1>5. CASE UNCHANGED session
  BY <1>5 DEF SessionTypes
<1>6. QED
  BY <1>2, <1>3, <1>4, <1>5

\* A step of a turn changes no row but its session's.
LEMMA GuideSteps ==
  ASSUME None \notin Guides, SessionTypes, GuidesOK, NEW t \in Guides, Guide(t)
  PROVE  UNCHANGED <<resourceVars, binding>> /\ SessionTypes' /\ GuidesOK'
<1> USE DEF GuidesOK
<1>1. GuideTypes /\ guide[t].ref \in Nat
  BY DEF GuideTypes, GuideRows
<1>2. K(t) \in Keys /\ session[K(t)].gen + 1 \in Nat /\ ~At(t, "unasked")
  <2>1. ~At(t, "unasked")
    BY DEF Guide, Probe, Rebuild, SessionAlive, SessionDead, SessionCreated, SessionNotCreated, Acquire,
           PromptAnswers, PromptFails, SetupFails, Aborted, At
  <2>2. QED  BY <2>1 DEF Asked, SessionTypes
<1>3. UNCHANGED <<resourceVars, binding>>
  BY DEF Guide, Probe, Rebuild, SessionAlive, SessionDead, SessionCreated, SessionNotCreated, Acquire, Grant,
         PromptAnswers, PromptFails, SetupFails, Aborted, bindingVars
<1>4. SessionTypes'
  BY <1>2, SessionSteps DEF Guide, Probe, Rebuild, SessionAlive, SessionDead, SessionCreated, SessionNotCreated,
         Acquire, Grant, PromptAnswers, PromptFails, SetupFails, Aborted, bindingVars
<1> DEFINE Fits(stage) ==
      /\ stage # "unasked" /\ Advances(t, stage)
      /\ UNCHANGED <<binding, call>> /\ cap' \subseteq cap \cup {t} /\ holder' \in Guides \cup {None}
      /\ (stage = "prompting") = (holder' = t)
      /\ \A u \in Guides \ {t} : (holder' = u) = (holder = u)
      /\ t \in cap' => stage \in {"waiting", "prompting"}
<1>5. \E stage : Fits(stage)
  <2>1. CASE Probe(t)
    <3>1. Advances(t, "probe")
      BY <1>1, <1>2, <2>1, GoesAdvances DEF Probe, Stages
    <3>2. Fits("probe")
      BY <1>1, <2>1, <3>1 DEF Probe, ToolsOfOneTurn, At, GuideTypes, bindingVars
    <3>3. QED  BY <3>2
  <2>2. CASE Rebuild(t)
    <3>1. Advances(t, "creating")
      BY <1>1, <1>2, <2>2, GoesWithAdvances DEF Rebuild, Stages
    <3>2. Fits("creating")
      BY <1>1, <2>2, <3>1 DEF Rebuild, ToolsOfOneTurn, At, GuideTypes
    <3>3. QED  BY <3>2
  <2>3. CASE SessionAlive(t)
    <3>1. Advances(t, "waiting")
      BY <1>1, <1>2, <2>3, GoesAdvances DEF SessionAlive, Grant, Stages
    <3>2. Fits("waiting")
      BY <1>1, <2>3, <3>1 DEF SessionAlive, Grant, ToolsOfOneTurn, At, GuideTypes
    <3>3. QED  BY <3>2
  <2>4. CASE SessionDead(t)
    <3>1. Advances(t, "creating") \/ Advances(t, "failed")
      <4>1. GoesWith(t, "creating", session[K(t)].gen + 1) \/ GoesWith(t, "failed", 0)
        BY <2>4 DEF SessionDead
      <4>2. "creating" \in Stages /\ "failed" \in Stages /\ 0 \in Nat
        BY DEF Stages
      <4>3. QED  BY <1>1, <1>2, <4>1, <4>2, GoesWithAdvances
    <3>2. Fits("creating") \/ Fits("failed")
      BY <1>1, <2>4, <3>1 DEF SessionDead, ToolsOfOneTurn, At, GuideTypes
    <3>3. QED  BY <3>2
  <2>5. CASE SessionCreated(t)
    <3>1. Advances(t, "waiting")
      BY <1>1, <1>2, <2>5, GoesAdvances DEF SessionCreated, Grant, Stages
    <3>2. Fits("waiting")
      BY <1>1, <2>5, <3>1 DEF SessionCreated, Grant, ToolsOfOneTurn, At, GuideTypes
    <3>3. QED  BY <3>2
  <2>6. CASE SessionNotCreated(t)
    <3>1. Advances(t, "failed")
      BY <1>1, <1>2, <2>6, GoesAdvances DEF SessionNotCreated, Stages
    <3>2. Fits("failed")
      BY <1>1, <2>6, <3>1 DEF SessionNotCreated, ToolsOfOneTurn, At, GuideTypes
    <3>3. QED  BY <3>2
  <2>7. CASE Acquire(t)
    <3>1. Advances(t, "prompting")
      BY <1>1, <1>2, <2>7, GoesAdvances DEF Acquire, Stages
    <3>2. Fits("prompting")
      BY <1>1, <2>7, <3>1 DEF Acquire, ToolsOfOneTurn, At, GuideTypes, bindingVars
    <3>3. QED  BY <3>2
  <2>8. CASE PromptAnswers(t)
    <3>1. Advances(t, "complete")
      BY <1>1, <1>2, <2>8, GoesAdvances DEF PromptAnswers, Stages
    <3>2. Fits("complete")
      BY <1>1, <2>8, <3>1 DEF PromptAnswers, ToolsOfOneTurn, At, GuideTypes, bindingVars, Withdrawn
    <3>3. QED  BY <3>2
  <2>9. CASE PromptFails(t)
    <3>1. Advances(t, "aborting")
      BY <1>1, <1>2, <2>9, GoesAdvances DEF PromptFails, Stages
    <3>2. Fits("aborting")
      BY <1>1, <2>9, <3>1 DEF PromptFails, ToolsOfOneTurn, At, GuideTypes, bindingVars
    <3>3. QED  BY <3>2
  <2>10. CASE SetupFails(t)
    <3>1. Advances(t, "failed") \/ Advances(t, "aborting")
      BY <1>1, <1>2, <2>10, GoesAdvances DEF SetupFails, Stages
    <3>2. Fits("failed") \/ Fits("aborting")
      BY <1>1, <2>10, <3>1 DEF SetupFails, ToolsOfOneTurn, At, GuideTypes, bindingVars
    <3>3. QED  BY <3>2
  <2>11. CASE Aborted(t)
    <3>1. Advances(t, "failed")
      BY <1>1, <1>2, <2>11, GoesAdvances DEF Aborted, Stages
    <3>2. Fits("failed")
      BY <1>1, <2>11, <3>1 DEF Aborted, ToolsOfOneTurn, At, GuideTypes
    <3>3. QED  BY <3>2
  <2>12. QED
    BY <2>1, <2>2, <2>3, <2>4, <2>5, <2>6, <2>7, <2>8, <2>9, <2>10, <2>11 DEF Guide
<1>6. GuidesOK'
  BY <1>5, GuideAdvances
<1>7. QED
  BY <1>3, <1>4, <1>6

LEMMA AskSteps ==
  ASSUME GuidesOK, BindingTypes, NEW t \in Guides, NEW k \in Keys, Ask(t, k)
  PROVE  UNCHANGED <<resourceVars, bindingVars>> /\ GuidesOK'
<1> USE DEF GuidesOK
<1>1. UNCHANGED <<resourceVars, bindingVars, call, cap, holder>> /\ At(t, "unasked")
  BY DEF Ask
<1>2. PICK gen \in Nat, ref \in Nat :
        guide' = [guide EXCEPT ![t] = [at |-> "provider", key |-> k, gen |-> gen, ref |-> ref]]
  BY DEF Ask, BindingTypes
<1>3. /\ guide'[t] = [at |-> "provider", key |-> k, gen |-> gen, ref |-> ref]
      /\ \A u \in Guides \ {t} : guide'[u] = guide[u]
  BY <1>2 DEF GuideTypes, GuideRows
<1>4. GuideTypes'
  BY <1>1, <1>2 DEF GuideTypes, GuideRows, Stages
<1>5. ToolsOfOneTurn'
  <2>1. \A u \in Guides : guide'[u].at = (IF u = t THEN "provider" ELSE guide[u].at)
    BY <1>3
  <2>2. holder # t /\ t \notin cap
    BY <1>1 DEF ToolsOfOneTurn, At, GuideTypes
  <2>3. QED
    BY <1>1, <2>1, <2>2 DEF ToolsOfOneTurn, At, GuideTypes
<1>6. Asked'
  BY <1>1, <1>3 DEF Asked, At, K, bindingVars
<1>7. QED
  BY <1>1, <1>4, <1>5, <1>6

\* The call of a turn changes, and nothing else of any turn.
LEMMA CallSteps ==
  ASSUME GuidesOK, GensGrow, BindingTypes, BindingTypes', NEW t \in Guides, ~At(t, "unasked"),
         NEW outcome \in {"none", "open", "committed", "refused"},
         call' = [call EXCEPT ![t] = outcome], UNCHANGED <<guide, cap, holder>>,
         outcome = "committed" => binding'[K(t)].gen > guide[t].gen
  PROVE  GuidesOK'
<1> USE DEF GuidesOK
<1>1. GuideTypes' /\ ToolsOfOneTurn'
  BY DEF GuideTypes, GuideRows, ToolsOfOneTurn, At
<1>2. \A u \in Guides : call'[u] = (IF u = t THEN outcome ELSE call[u])
  BY DEF GuideTypes
<1>3. ASSUME NEW u \in Guides
      PROVE  /\ ~At(u, "unasked") => K(u) \in Keys
             /\ call'[u] # "none" => ~At(u, "unasked")
             /\ call'[u] = "committed" => binding'[K(u)].gen > guide[u].gen
  <2>1. call[u] = "committed" => K(u) \in Keys /\ binding[K(u)].gen > guide[u].gen
    BY DEF Asked
  <2>2. guide[u].gen \in Nat
    BY DEF GuideTypes, GuideRows
  <2>3. \A k \in Keys : binding[k].gen \in Nat /\ binding'[k].gen \in Nat /\ binding'[k].gen >= binding[k].gen
    BY DEF BindingTypes, GensGrow
  <2>4. QED
    BY <1>2, <2>1, <2>2, <2>3 DEF Asked
<1>4. Asked'
  BY <1>3 DEF Asked, At, K
<1>5. QED
  BY <1>1, <1>4

LEMMA CrashSteps ==
  ASSUME None \notin Guides, ResourcesOK, BindingsOK, GuidesOK, Crash
  PROVE  ResourcesOK' /\ BindingsOK' /\ GuidesOK'
<1>1. ResourcesOK'
  BY ResourcesReopened DEF Crash
<1>2. BindingsOK'
  BY DEF Crash, Reopened, BindingsOK, BindingTypes, BoundOwnersExist, BoundHasChat, UnmadeIsNew, bindingVars, Exists
<1> USE DEF GuidesOK
<1>3. ASSUME NEW t \in Guides
      PROVE  /\ guide'[t] \in [at : Stages, key : Keys \cup {None}, gen : Nat, ref : Nat]
             /\ guide'[t].key = guide[t].key /\ guide'[t].gen = guide[t].gen
             /\ guide'[t].at # "prompting" /\ (guide'[t].at = "unasked" => guide[t].at = "unasked")
             /\ (guide[t].at = "unasked" => guide'[t].at = "unasked")
  <2>1. guide[t] \in [at : Stages, key : Keys \cup {None}, gen : Nat, ref : Nat]
    BY DEF GuideTypes, GuideRows
  <2>2. \/ guide'[t] = guide[t] /\ guide[t].at \in {"unasked", "complete", "failed"}
        \/ guide'[t] = [guide[t] EXCEPT !.at = "gone"] /\ guide[t].at \notin {"unasked", "complete", "failed"}
    BY DEF Crash
  <2>3. QED
    BY <2>1, <2>2 DEF Stages
<1>4. GuideTypes'
  BY <1>3 DEF GuideTypes, GuideRows, Crash
<1>5. ToolsOfOneTurn'
  BY <1>3 DEF ToolsOfOneTurn, At, Crash
<1>6. Asked'
  <2>1. \A t \in Guides : (call'[t] # "none" => call[t] # "none") /\ (call'[t] = "committed" => call[t] = "committed")
    BY DEF Crash, GuideTypes
  <2>2. UNCHANGED binding
    BY DEF Crash, bindingVars
  <2>3. QED
    BY <1>3, <2>1, <2>2 DEF Asked, At, K
<1>7. QED
  BY <1>1, <1>2, <1>4, <1>5, <1>6
-----------------------------------------------------------------------------
(* The invariant. *)

LEMMA Initially == NamesDiffer /\ None \notin Guides /\ Init => IInv
<1> SUFFICES ASSUME NamesDiffer, None \notin Guides, Init
             PROVE  IInv
  OBVIOUS
<1> USE DEF Init
<1>1. ResourcesOK
  BY DEF ResourceInit, ResourcesOK, ResourceTypes, NothingDangles, Placed, ShownIsTrue, Exists, Lives, Resources, Owners
<1>2. BindingsOK
  <2>1. \A k \in Keys : binding[k] = Unmade
    BY DEF BindingInit
  <2>2. BindingTypes
    BY DEF BindingInit, BindingTypes, Unmade
  <2>3. QED
    BY <2>1, <2>2 DEF BindingsOK, BoundOwnersExist, BoundHasChat, UnmadeIsNew, Unmade
<1>3. GuidesOK
  BY DEF GuidesOK, GuideTypes, GuideRows, ToolsOfOneTurn, Asked, At, Unasked, Stages
<1>4. QED
  BY <1>1, <1>2, <1>3 DEF IInv

LEMMA UserSteps ==
  ASSUME NamesDiffer, IInv, Users
  PROVE  IInv'
<1> USE DEF IInv
<1>1. ResourceTypes /\ BindingTypes /\ SessionTypes
  BY DEF ResourcesOK, BindingsOK, BindingTypes, SessionTypes
<1>2. UNCHANGED guideVars
  BY DEF Users
<1>3. ASSUME UNCHANGED bindingVars, ResourcesOK', NothingGoes
      PROVE  IInv'
  <2>1. BindingsOK'
    BY <1>1, <1>3, BindingsKept DEF bindingVars, SessionTypes
  <2>2. GensGrow /\ BindingTypes'
    BY <1>1, <1>3, <2>1 DEF bindingVars, GensGrow, BindingTypes, BindingsOK
  <2>3. QED
    BY <1>1, <1>2, <1>3, <2>1, <2>2, GuideKept
<1>4. ASSUME ResourcesOK', BindingsOK', GensGrow
      PROVE  IInv'
  BY <1>1, <1>2, <1>4, GuideKept DEF BindingsOK
<1>5. ASSUME NEW o \in Owners, NEW c \in Chats, UNCHANGED bindingVars,
             (NewModel(o, c) /\ o \in Models) \/ (\E m \in Models : o \in Projects /\ NewProject(o, m, c)) \/ NewChat(o, c)
      PROVE  IInv'
  BY <1>1, <1>3, <1>5, Created, CreationMakes
<1>6. ASSUME NEW r \in Resources, UNCHANGED bindingVars,
             \/ Archive(r) \/ Trash(r) \/ Restore(r) \/ Preview(r) \/ Expire(r) \/ EndWork(r)
             \/ \E c \in Chats \cup {None} : StartWork(r, c)
      PROVE  IInv'
  <2>1. NothingGoes
    BY <1>1, <1>6, OthersKeepAll
  <2>2. ResourcesOK'
    BY <1>6, ResourceMoves, ResourceShown, ResourceWorks
  <2>3. QED
    BY <1>3, <1>6, <2>1, <2>2
<1>7. ASSUME NEW k \in Keys, UNCHANGED resourceVars,
             CreateWorkspaceBinding(k) \/ \E p \in BOOLEAN : UpdateWorkspaceBindingDraft(k, p)
      PROVE  IInv'
  BY <1>4, <1>7, ResourceKept, BindingDrafted
<1>8. ASSUME NEW k \in Keys, BootstrapMutation(k, binding[k].gen)
      PROVE  IInv'
  <2>1. binding[k].gen \in Nat
    BY <1>1 DEF BindingTypes
  <2>2. QED
    BY <1>4, <1>8, <2>1, BootstrapMakes
<1>9. ASSUME NEW r \in Resources, PermanentDelete(r)
      PROVE  IInv'
  <2>1. ResourcesOK' /\ BindingsOK'
    BY <1>9, SomethingGoes, BindingsDeleted DEF PermanentDelete
  <2>2. \A k \in Keys : binding'[k] = binding[k] \/ binding'[k] = Recovered(binding[k])
    BY <1>9 DEF PermanentDelete
  <2>3. GensGrow
    <3>1. \A k \in Keys : binding[k].gen \in Nat /\ Recovered(binding[k]).gen = binding[k].gen + 1
      BY <1>1 DEF BindingTypes, Recovered
    <3>2. \A k \in Keys : binding'[k].gen >= binding[k].gen
      BY <2>2, <3>1
    <3>3. QED  BY <3>2 DEF GensGrow
  <2>4. QED
    BY <1>4, <2>1, <2>3
<1>10. QED
  BY <1>5, <1>6, <1>7, <1>8, <1>9 DEF Users, Owners

LEMMA ToolSteps ==
  ASSUME NamesDiffer, IInv, NEW t \in Guides, Tool(t) \/ CallTool(t)
  PROVE  IInv'
<1> USE DEF IInv
<1>1. BindingTypes /\ ~At(t, "unasked") /\ K(t) \in Keys /\ guide[t].gen \in Nat
  BY DEF BindingsOK, GuidesOK, Asked, GuideTypes, GuideRows, Tool, ToolCommits, ToolFails, CallTool, At
<1>2. CASE ToolCommits(t)
  <2>1. /\ BootstrapMutation(K(t), guide[t].gen)
        /\ call' = [call EXCEPT ![t] = "committed"] /\ UNCHANGED <<guide, cap, holder>>
    BY <1>2 DEF ToolCommits
  <2>2. ResourcesOK' /\ BindingsOK' /\ GensGrow /\ binding'[K(t)].gen = guide[t].gen + 1
    BY <1>1, <2>1, BootstrapMakes
  <2>3. BindingTypes' /\ binding'[K(t)].gen > guide[t].gen
    BY <1>1, <2>2 DEF BindingsOK
  <2>4. GuidesOK'
    BY <1>1, <2>1, <2>2, <2>3, CallSteps
  <2>5. QED
    BY <2>2, <2>4
<1>3. CASE ToolFails(t) \/ CallTool(t)
  <2>1. UNCHANGED <<resourceVars, bindingVars, guide, cap, holder>>
    BY <1>3 DEF ToolFails, CallTool
  <2>2. \E outcome \in {"open", "refused"} : call' = [call EXCEPT ![t] = outcome]
    BY <1>3 DEF ToolFails, CallTool
  <2>3. ResourcesOK'
    BY <2>1, ResourceKept
  <2>4. NothingGoes /\ GensGrow /\ SessionTypes' /\ UNCHANGED binding
    BY <1>1, <2>1 DEF NothingGoes, GensGrow, SessionTypes, BindingTypes, resourceVars, bindingVars, Exists
  <2>5. BindingsOK'
    BY <2>4, BindingsKept
  <2>6. GuidesOK'
    BY <1>1, <2>1, <2>2, <2>4, <2>5, CallSteps DEF BindingsOK
  <2>7. QED
    BY <2>3, <2>5, <2>6
<1>4. QED
  BY <1>2, <1>3 DEF Tool

LEMMA Preserved == NamesDiffer /\ None \notin Guides /\ IInv /\ [Next]_vars => IInv'
<1> SUFFICES ASSUME NamesDiffer, None \notin Guides, IInv, [Next]_vars
             PROVE  IInv'
  OBVIOUS
<1> USE DEF IInv
<1>1. BindingTypes /\ SessionTypes
  BY DEF BindingsOK, BindingTypes, SessionTypes
<1>2. ASSUME UNCHANGED <<resourceVars, binding>>, SessionTypes', GuidesOK'
      PROVE  IInv'
  <2>1. ResourcesOK'
    BY <1>2, ResourceKept
  <2>2. NothingGoes
    BY <1>2 DEF NothingGoes, resourceVars, Exists
  <2>3. QED
    BY <1>2, <2>1, <2>2, BindingsKept
<1>3. CASE Users
  BY <1>3, UserSteps
<1>4. CASE Crash
  BY <1>4, CrashSteps
<1>5. ASSUME NEW t \in Guides, Guide(t)
      PROVE  IInv'
  BY <1>1, <1>2, <1>5, GuideSteps
<1>6. ASSUME NEW t \in Guides, Tool(t) \/ CallTool(t)
      PROVE  IInv'
  BY <1>6, ToolSteps
<1>7. ASSUME NEW t \in Guides, NEW k \in Keys, Ask(t, k)
      PROVE  IInv'
  BY <1>1, <1>2, <1>7, AskSteps DEF bindingVars, SessionTypes
<1>8. CASE UNCHANGED vars
  <2>1. GensGrow /\ BindingTypes' /\ SessionTypes' /\ UNCHANGED <<resourceVars, binding>> /\ UNCHANGED guideVars
    BY <1>1, <1>8 DEF vars, bindingVars, GensGrow, BindingTypes, SessionTypes
  <2>2. QED
    BY <1>1, <1>2, <2>1, GuideKept
<1>9. QED
  BY <1>3, <1>4, <1>5, <1>6, <1>7, <1>8 DEF Next

LEMMA AlwaysIInv == NamesDiffer /\ None \notin Guides => (Spec => []IInv)
<1> SUFFICES ASSUME NamesDiffer, None \notin Guides
             PROVE  Spec => []IInv
  OBVIOUS
<1>1. Init => IInv
  BY Initially
<1>2. IInv /\ [Next]_vars => IInv'
  BY Preserved
<1>3. QED
  BY <1>1, <1>2, PTL DEF Spec-----------------------------------------------------------------------------
\* The rows and the process agree, for any Models, Projects, Conversations, workspaces
\* and guide turns: workspaces are bound to what exists, each to a Conversation of its
\* own, nothing in the Store names what was deleted, and the tools in OpenCode's registry
\* are the prompting turn's (product-store-v2.ts, agent-workspace-service.ts).
THEOREM WorkspacesAgreeTheorem == NamesDiffer /\ None \notin Guides => (Spec => []WorkspacesAgree)
<1> SUFFICES ASSUME NamesDiffer, None \notin Guides
             PROVE  Spec => []WorkspacesAgree
  OBVIOUS
<1>1. IInv => WorkspacesAgree
  BY DEF IInv, ResourcesOK, BindingsOK, GuidesOK, GuideTypes, GuideRows, WorkspacesAgree, TypeOK
<1>2. QED
  BY <1>1, AlwaysIInv, PTL

(* What was shown. *)

LEMMA DeletionTakesWhatWasShown ==
  ASSUME ResourcesOK, NEW r \in Resources, PermanentDelete(r)
  PROVE  {x \in Resources : life[x] # life'[x]} = shown[r].closure
<1>1. Closure(r) \subseteq Resources /\ \A x \in Closure(r) : Exists(x)
  BY DEF Closure, Resources, PermanentDelete, Deletable, Exists
<1>2. shown[r].closure = Closure(r)
  BY DEF ResourcesOK, ShownIsTrue, PermanentDelete, Deletable
<1>3. \A x \in Resources : life'[x] = (IF x \in Closure(r) THEN "deleted" ELSE life[x])
  BY DEF PermanentDelete, Deleted
<1>4. QED
  BY <1>1, <1>2, <1>3 DEF Exists

LEMMA DeletionTakesBindings ==
  ASSUME ResourcesOK, BindingsOK, NEW r \in Resources, PermanentDelete(r),
         NEW k \in Keys, binding[k].state = "bound", binding'[k] # binding[k]
  PROVE  binding'[k].state = "recovery_required" /\ life'[binding[k].chat] = "deleted"
<1>1. OwnerOrChat(k, r) /\ binding'[k] = Recovered(binding[k])
  BY DEF PermanentDelete
<1>2. binding[k].chat \in Chats /\ Exists(binding[k].chat) /\ owner[binding[k].chat] = binding[k].owner
  BY DEF BindingsOK, BoundHasChat, BoundOwnersExist
<1>3. binding[k].chat \in Closure(r)
  BY <1>1, <1>2 DEF OwnerOrChat, Closure
<1>4. life'[binding[k].chat] = "deleted"
  BY <1>2, <1>3 DEF PermanentDelete, Deleted, Resources
<1>5. QED
  BY <1>1, <1>4 DEF Recovered

LEMMA BindingStays ==
  ASSUME BindingsOK, NEW k \in Keys, binding[k].state = "bound", Next,
         ~\E r \in Resources : PermanentDelete(r), None \notin Guides, GuidesOK
  PROVE  binding'[k] = binding[k]
<1>1. ASSUME NEW j \in Keys, NEW gen, BootstrapMutation(j, gen)
      PROVE  binding'[k] = binding[k]
  <2>1. j # k /\ \E row : binding' = [binding EXCEPT ![j] = row]
    BY <1>1 DEF BootstrapMutation, Bound, Current
  <2>2. QED
    BY <2>1 DEF BindingsOK, BindingTypes
<1>2. ASSUME NEW j \in Keys, CreateWorkspaceBinding(j) \/ \E p \in BOOLEAN : UpdateWorkspaceBindingDraft(j, p)
      PROVE  binding'[k] = binding[k]
  <2>1. j # k /\ \E row : binding' = [binding EXCEPT ![j] = row]
    BY <1>2 DEF CreateWorkspaceBinding, UpdateWorkspaceBindingDraft
  <2>2. QED
    BY <2>1 DEF BindingsOK, BindingTypes
<1>3. CASE Users
  BY <1>1, <1>2, <1>3 DEF Users, bindingVars
<1>4. CASE Crash
  BY <1>4 DEF Crash, bindingVars
<1>5. ASSUME NEW t \in Guides, Guide(t)
      PROVE  binding'[k] = binding[k]
  BY <1>5 DEF Guide, Probe, Rebuild, SessionAlive, SessionDead, SessionCreated, SessionNotCreated, Acquire, Grant,
         PromptAnswers, PromptFails, SetupFails, Aborted, bindingVars
<1>6. ASSUME NEW t \in Guides, Tool(t) \/ CallTool(t)
      PROVE  binding'[k] = binding[k]
  <2>1. K(t) \in Keys
    BY <1>6 DEF GuidesOK, Asked, Tool, ToolCommits, ToolFails, CallTool, At
  <2>2. QED
    BY <1>1, <1>6, <2>1 DEF Tool, ToolCommits, ToolFails, CallTool, bindingVars
<1>7. ASSUME NEW t \in Guides, NEW j \in Keys, Ask(t, j)
      PROVE  binding'[k] = binding[k]
  BY <1>7 DEF Ask, bindingVars
<1>8. QED
  BY <1>3, <1>4, <1>5, <1>6, <1>7 DEF Next

\* Only a turn's own tool commits for it, while the workspace is as the turn read it.
LEMMA OnlyToolsCommit ==
  ASSUME GuidesOK, Next, NEW t \in Guides, call'[t] = "committed", call[t] # "committed"
  PROVE  Current(K(t), guide[t].gen)
<1> USE DEF GuidesOK, GuideTypes
<1>1. CASE Users
  BY <1>1 DEF Users, guideVars
<1>2. CASE Crash
  BY <1>2 DEF Crash
<1>3. ASSUME NEW u \in Guides, Guide(u)
      PROVE  FALSE
  BY <1>3 DEF Guide, Probe, Rebuild, SessionAlive, SessionDead, SessionCreated, SessionNotCreated, Acquire, Grant,
         PromptAnswers, PromptFails, SetupFails, Aborted
<1>4. ASSUME NEW u \in Guides, Tool(u) \/ CallTool(u)
      PROVE  Current(K(t), guide[t].gen)
  <2>1. CASE ToolFails(u) \/ CallTool(u)
    BY <2>1 DEF ToolFails, CallTool
  <2>2. CASE ToolCommits(u)
    <3>1. u = t
      BY <2>2 DEF ToolCommits
    <3>2. QED
      BY <2>2, <3>1 DEF ToolCommits, BootstrapMutation, Bound
  <2>3. QED
    BY <1>4, <2>1, <2>2 DEF Tool
<1>5. ASSUME NEW u \in Guides, NEW k \in Keys, Ask(u, k)
      PROVE  FALSE
  BY <1>5 DEF Ask
<1>6. QED
  BY <1>1, <1>2, <1>3, <1>4, <1>5 DEF Next

\* Whoever acts on what he saw earlier acts on what is still so or is refused: a
\* permanent deletion takes exactly what its preview listed, a bound workspace is let go
\* only with its Conversation, and a guide's mutation is committed at most once for the
\* generation of the workspace it was asked for (the digests and the compare-and-set
\* clauses of product-store-v2.ts).
THEOREM ActsOnWhatWasShownTheorem == NamesDiffer /\ None \notin Guides => (Spec => ActsOnWhatWasShown)
<1> SUFFICES ASSUME NamesDiffer, None \notin Guides
             PROVE  Spec => ActsOnWhatWasShown
  OBVIOUS
<1>1. IInv /\ [Next]_vars => [DeletedAsShown]_vars
  BY DeletionTakesWhatWasShown DEF IInv, DeletedAsShown
<1>2. IInv /\ [Next]_vars => [BoundForGood]_vars
  <2> SUFFICES ASSUME IInv, Next, NEW k \in Keys, binding[k].state = "bound", binding'[k] # binding[k]
               PROVE  binding'[k].state = "recovery_required" /\ life'[binding[k].chat] = "deleted"
    BY DEF BoundForGood
  <2>1. QED
    BY DeletionTakesBindings, BindingStays DEF IInv
<1>3. IInv /\ [Next]_vars => [WrittenAsAsked]_vars
  <2> SUFFICES ASSUME IInv, Next, NEW t \in Guides, call'[t] = "committed", call[t] # "committed"
               PROVE  /\ binding[K(t)].state = "unbound" /\ binding[K(t)].gen = guide[t].gen
                      /\ \A u \in Guides \ {t} : K(u) = K(t) /\ guide[u].gen = guide[t].gen => call[u] # "committed"
    BY DEF WrittenAsAsked
  <2>1. Current(K(t), guide[t].gen)
    BY OnlyToolsCommit DEF IInv
  <2>2. guide[t].gen \in Nat
    BY DEF IInv, GuidesOK, GuideTypes, GuideRows
  <2>3. \A u \in Guides : call[u] = "committed" => binding[K(u)].gen > guide[u].gen
    BY DEF IInv, GuidesOK, Asked
  <2>4. QED
    BY <2>1, <2>2, <2>3 DEF Current
<1>4. QED
  BY <1>1, <1>2, <1>3, AlwaysIInv, PTL DEF Spec, ActsOnWhatWasShown
=============================================================================
