---------------------------- MODULE ModelWorkspace ----------------------------
(***************************************************************************)
(* The workspace of a Model in product-store-v2.ts: its files and its      *)
(* execution description, the technical status that says whether a         *)
(* technical check passed them, and the change sets, direct changes and    *)
(* attachments that conversations bring in.                                *)
(*                                                                         *)
(* Every action is one synchronous transaction of the Store.  What runs    *)
(* between them is the checker, which works on a copy of the workspace     *)
(* taken when the check was started.  Digests are what they digest: the    *)
(* texts of the parts, the adopted attachments and, for a change set, the  *)
(* technical status.                                                       *)
(***************************************************************************)
CONSTANTS
  Files,        \* of the Model, besides its execution description
  Texts,        \* that a part can have
  Attachments,  \* of its conversations
  Commands,     \* change sets and direct changes that are ever made
  Edits,        \* bound: the parts and texts they ask for
  Nothing

Parts == Files \cup {"description"}
ChangesAFile(e) == \E S \in SUBSET Parts : S \cap Files # {} /\ e \in [S -> Texts]

ASSUME EditsAssumption == \A e \in Edits : ChangesAFile(e)

VARIABLES
  modelLife,    \* lifecycle_state of the Model,
  modelBefore,  \* and pre_trash_state
  status,       \* technical_status
  parts,        \* texts of the files and of the execution description
  adopted,      \* attachments among the files
  orders,       \* change sets, and direct changes with their receipts
  check,        \* what the running technical check captured
  checker,      \* does a checker of this process work on it?
  verdict       \* what the last check captured, if it published "executable"

modelVars == <<modelLife, modelBefore, status, parts, adopted>>
checkVars == <<check, checker, verdict>>
workspaceVars == <<modelVars, orders, checkVars>>

Works == [parts : [Parts -> Texts], adopted : SUBSET Attachments]
Statuses == {"draft", "checking", "executable", "failed"}

Orders == [kind : {"proposal", "direct"}, edit : Edits,
           found : [status : Statuses, parts : [Parts -> Texts], adopted : SUBSET Attachments],
           state : {"pending", "applied", "rejected"}]

ASSUME NothingAssumption == Nothing \notin Works \cup Orders \cup {"active", "archived"}

Captured == [parts |-> parts, adopted |-> adopted]
Workspace == [status |-> status, parts |-> parts, adopted |-> adopted]
Edited(texts, e) == [p \in Parts |-> IF p \in DOMAIN e THEN e[p] ELSE texts[p]]

ModelInit ==
  /\ modelLife = "active" /\ modelBefore = Nothing /\ status = "draft"
  /\ parts \in [Parts -> Texts] /\ adopted = {}
  /\ orders = [c \in Commands |-> Nothing]
  /\ check = Nothing /\ checker = FALSE /\ verdict = Nothing

Ordered(kind, c, e) ==
  /\ orders[c] = Nothing
  /\ orders' = [orders EXCEPT ![c] =
       [kind |-> kind, edit |-> e, found |-> Workspace, state |-> "pending"]]

Pending(kind, c) == orders[c] # Nothing /\ orders[c].kind = kind /\ orders[c].state = "pending"

Resolved(c, to) == orders' = [orders EXCEPT ![c].state = to]

MutatedInPlace(e) ==
  /\ modelLife = "active"
  /\ parts' = Edited(parts, e)
  /\ UNCHANGED <<modelLife, modelBefore, status, adopted, checkVars>>

\* #modelMutation: the files and rows of a change, in one coordinated mutation.
Mutated(e) ==
  /\ modelLife = "active"
  /\ parts' = Edited(parts, e) /\ status' = "draft"
  /\ UNCHANGED <<modelLife, modelBefore, adopted, checkVars>>
-----------------------------------------------------------------------------
(* Changes to the workspace. *)

\* createModelChangeSet: the base is the workspace as it is now.
Propose(c, e) ==
  /\ modelLife # "trashed" /\ Ordered("proposal", c, e)
  /\ UNCHANGED <<modelVars, checkVars>>

\* A direct change is written against what its author has read.
Prepare(c, e) ==
  /\ Ordered("direct", c, e)
  /\ UNCHANGED <<modelVars, checkVars>>

ApplyStale(c) ==
  /\ Pending("proposal", c)
  /\ Mutated(orders[c].edit) /\ Resolved(c, "applied")

\* A user applies a change set to the workspace it was made for.
ApplyModelChangeSet(c) ==
  /\ Pending("proposal", c) /\ orders[c].found = Workspace
  /\ Mutated(orders[c].edit) /\ Resolved(c, "applied")

RejectModelChangeSet(c) ==
  /\ Pending("proposal", c) /\ modelLife = "active"
  /\ Resolved(c, "rejected")
  /\ UNCHANGED <<modelVars, checkVars>>

\* The prior digests are those of the files a change writes.
PriorMatches(c) == \A f \in DOMAIN orders[c].edit \cap Files : parts[f] = orders[c].found.parts[f]

\* Delivered once more, it finds its receipt.
CommitDirectModelChanges(c) ==
  /\ Pending("direct", c) /\ PriorMatches(c)
  /\ Mutated(orders[c].edit) /\ Resolved(c, "applied")

\* adoptAttachment adds a file, and leaves the technical status as it is.
AdoptAttachment(a) ==
  /\ modelLife = "active" /\ a \notin adopted
  /\ adopted' = adopted \cup {a}
  /\ UNCHANGED <<modelLife, modelBefore, status, parts, orders, checkVars>>
-----------------------------------------------------------------------------
(* Technical checks. *)

\* The unique index lets a Model have one running check.
StartTechnicalCheck ==
  /\ modelLife = "active" /\ check = Nothing
  /\ check' = Captured /\ checker' = TRUE /\ status' = "checking" /\ verdict' = Nothing
  /\ UNCHANGED <<modelLife, modelBefore, parts, adopted, orders>>

Publishes == check = Captured

\* The check ends: published if the workspace is still the one it captured.
FinishTechnicalCheck(outcome) ==
  /\ checker /\ check # Nothing /\ (Publishes => status = "checking")
  /\ checker' = FALSE /\ check' = Nothing
  /\ IF Publishes
       THEN /\ status' = IF outcome = "passed" THEN "executable" ELSE "failed"
            /\ verdict' = IF outcome = "passed" THEN check ELSE verdict
       ELSE UNCHANGED <<status, verdict>>
  /\ UNCHANGED <<modelLife, modelBefore, parts, adopted, orders>>

\* Both statements fail when the status was reset and the workspace was not changed
\* from what the check captured, or changed back to it.
FinishThrows ==
  /\ checker /\ check # Nothing /\ Publishes /\ status # "checking"
  /\ checker' = FALSE
  /\ UNCHANGED <<modelVars, orders, check, verdict>>

\* #reconcileInterruptedAgentState, when the Store is opened again.
Restart ==
  /\ check' = Nothing /\ checker' = FALSE
  /\ status' = IF status = "checking" /\ check # Nothing THEN "failed" ELSE status
  /\ UNCHANGED <<modelLife, modelBefore, parts, adopted, orders, verdict>>
-----------------------------------------------------------------------------
(* executeLifecycleCommand. *)

ModelLives(from, to, prior) ==
  /\ modelLife \in from /\ modelLife' = to /\ modelBefore' = prior
  /\ UNCHANGED <<status, parts, adopted, orders, checkVars>>

ArchiveModel == ModelLives({"active"}, "archived", Nothing)
TrashModel == ModelLives({"active", "archived"}, "trashed", modelLife)
RestoreModel == ModelLives({"archived"}, "active", Nothing) \/ ModelLives({"trashed"}, modelBefore, Nothing)
-----------------------------------------------------------------------------
ModelNext ==
  \/ \E c \in Commands, e \in Edits : Propose(c, e) \/ Prepare(c, e)
  \/ \E c \in Commands :
       ApplyModelChangeSet(c) \/ RejectModelChangeSet(c) \/ CommitDirectModelChanges(c)
  \/ \E a \in Attachments : AdoptAttachment(a)
  \/ StartTechnicalCheck \/ FinishThrows \/ Restart
  \/ \E outcome \in {"passed", "failed", "cancelled"} : FinishTechnicalCheck(outcome)
  \/ ArchiveModel \/ TrashModel \/ RestoreModel

ModelSpec == ModelInit /\ [][ModelNext]_workspaceVars
-----------------------------------------------------------------------------
(* Properties. *)

ModelTypes ==
  /\ modelLife \in {"active", "archived", "trashed"}
  /\ modelBefore \in {Nothing, "active", "archived"} /\ (modelLife = "trashed") = (modelBefore # Nothing)
  /\ status \in Statuses /\ parts \in [Parts -> Texts] /\ adopted \subseteq Attachments

CheckTypes ==
  /\ check \in Works \cup {Nothing} /\ checker \in BOOLEAN /\ verdict \in Works \cup {Nothing}
  /\ checker => check # Nothing

ModelTypeOK == ModelTypes /\ CheckTypes /\ orders \in [Commands -> Orders \cup {Nothing}]

\* An executable Model has exactly the files and the execution description a check
\* passed, whatever was changed, and changed back, while the check ran.
ExecutablePartsPassed == status = "executable" => verdict # Nothing /\ verdict.parts = parts

\* A Model says it is being checked only while that check can still end, or
\* was overtaken by an attachment; a check that cannot end anymore, because the
\* workspace was changed back to what it captured, belongs to a draft.
CheckingIsTrue ==
  /\ status = "checking" => (checker /\ check.parts = parts) \/ adopted # {}
  /\ check # Nothing /\ ~checker => status = "draft"

\* What a Model says of itself is true of its workspace: "executable" of the very
\* texts that passed, "checking" of a check that can still end.
StatusIsTrue == ModelTypeOK /\ ExecutablePartsPassed /\ CheckingIsTrue

\* Applying a change set gives what its reviewer saw with the change made, and
\* nothing that anybody else brought in since.
AppliesWhatWasReviewed ==
  [][\A c \in Commands : Pending("proposal", c) /\ orders'[c].state = "applied"
       => /\ parts' = Edited(orders[c].found.parts, orders[c].edit)
          /\ adopted' = orders[c].found.adopted]_workspaceVars

\* The texts change by the first delivery of a command and by nothing else; a direct
\* change overwrites no file that changed after its author read it.
ChangesTakeEffectOnce ==
  [][parts' # parts =>
       \E c \in Commands :
         /\ orders[c] # Nothing /\ orders[c].state = "pending" /\ orders'[c].state = "applied"
         /\ \A f \in Files : parts'[f] # parts[f] => parts[f] = orders[c].found.parts[f]]_workspaceVars

\* Changes come in as they were made up: a change set gives what was reviewed, and a
\* command takes effect once, over nothing its author had not read.
ChangesAreAsMade == AppliesWhatWasReviewed /\ ChangesTakeEffectOnce
=============================================================================
