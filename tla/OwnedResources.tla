---------------------------- MODULE OwnedResources ----------------------------
(***************************************************************************)
(* Models, Projects and Conversations as product-store-v2.ts owns them:    *)
(* how they come to be, the lifecycle a user moves them through, the work  *)
(* that goes on in them, and what a permanent deletion of one of them      *)
(* takes along.                                                            *)
(*                                                                         *)
(* A user is shown a preview before anything is deleted for good, and gets *)
(* a token for what was shown.  The token digests every row the preview    *)
(* found, so it is worth something only as long as none of them changes:   *)
(* each action names the resources whose rows it touches.                  *)
(***************************************************************************)
EXTENDS FiniteSets

CONSTANTS
  Models, Projects, Chats,
  Handled,  \* bound: the resources a user ever moves or asks to delete
  Worked,   \* bound: the resources that work ever goes on in
  None

Owners == Models \cup Projects
Resources == Owners \cup Chats

NamesDiffer ==
  /\ Models \cap Projects = {} /\ Models \cap Chats = {} /\ Projects \cap Chats = {}
  /\ None \notin Resources \cup {"active", "archived"}

VARIABLES
  life,    \* "absent", a lifecycle_state, or "deleted"
  before,  \* pre_trash_state
  owner,   \* of a Conversation
  source,  \* Model a Project is a copy of
  busy,    \* resources with a turn, a technical check or a run in progress
  cards,   \* Conversations that a run reports its completion to
  shown    \* what the preview found that the newest token of a resource is for

resourceVars == <<life, before, owner, source, busy, cards, shown>>

ResourceInit ==
  /\ life = [r \in Resources |-> "absent"]
  /\ before = [r \in Resources |-> None]
  /\ owner = [c \in Chats |-> None]
  /\ source = [p \in Projects |-> None]
  /\ busy = {} /\ cards = {}
  /\ shown = [r \in Resources |-> None]

Exists(r) == life[r] \notin {"absent", "deleted"}

Closure(r) == {r} \cup {c \in Chats : Exists(c) /\ owner[c] = r}

\* Nothing that was shown to a user is true of these resources anymore.
Touches(changed) ==
  shown' = [r \in Resources |->
    IF shown[r] # None /\ shown[r].closure \cap changed # {}
      THEN [shown[r] EXCEPT !.fresh = FALSE] ELSE shown[r]]
-----------------------------------------------------------------------------
(* Creation. *)

\* The first Conversation comes with its owner.
CreatedWith(o, c) ==
  /\ life[o] = "absent" /\ life[c] = "absent"
  /\ life' = [life EXCEPT ![o] = "active", ![c] = "active"]
  /\ owner' = [owner EXCEPT ![c] = o]

\* createModelWithFirstConversation.
NewModel(m, c) ==
  /\ m \in Models /\ CreatedWith(m, c)
  /\ UNCHANGED <<before, source, busy, cards, shown>>

\* createProjectFromModel: the Model it is copied from has to be active; whether it
\* is executable is a matter of ModelWorkspace.
NewProject(p, m, c) ==
  /\ p \in Projects /\ m \in Models /\ life[m] = "active"
  /\ CreatedWith(p, c)
  /\ source' = [source EXCEPT ![p] = m]
  /\ Touches({m})
  /\ UNCHANGED <<before, busy, cards>>

\* createConversation.
NewChat(o, c) ==
  /\ o \in Owners /\ life[o] = "active" /\ life[c] = "absent"
  /\ life' = [life EXCEPT ![c] = "active"]
  /\ owner' = [owner EXCEPT ![c] = o]
  /\ Touches({o})
  /\ UNCHANGED <<before, source, busy, cards>>
-----------------------------------------------------------------------------
(* Lifecycle and work. *)

Moves(r, from, to, prior) ==
  /\ r \in Handled /\ life[r] \in from
  /\ life' = [life EXCEPT ![r] = to] /\ before' = [before EXCEPT ![r] = prior]
  /\ Touches({r})
  /\ UNCHANGED <<owner, source, busy, cards>>

Archive(r) == Moves(r, {"active"}, "archived", None)
Trash(r) == Moves(r, {"active", "archived"}, "trashed", life[r])

Restore(r) ==
  \/ Moves(r, {"archived"}, "active", None)
  \/ Moves(r, {"trashed"}, before[r], None)

\* An agent turn, a technical check or a run; a run may report to a Conversation of
\* its Project.
StartWork(r, c) ==
  /\ r \in Worked /\ life[r] = "active" /\ r \notin busy
  /\ r \in Chats => life[owner[r]] = "active"
  /\ c # None => r \in Projects /\ life[c] = "active" /\ owner[c] = r
  /\ busy' = busy \cup {r}
  /\ cards' = cards \cup ({c} \ {None})
  /\ Touches({r} \cup {owner[x] : x \in {r} \cap Chats})
  /\ UNCHANGED <<life, before, owner, source>>

EndWork(r) ==
  /\ r \in busy
  /\ busy' = busy \ {r}
  /\ Touches({r} \cup {owner[x] : x \in {r} \cap Chats})
  /\ UNCHANGED <<life, before, owner, source, cards>>
-----------------------------------------------------------------------------
(* Permanent deletion. *)

\* previewPermanentDelete and the token that permanentDeletePreview issues.
Preview(r) ==
  /\ r \in Handled /\ Exists(r)
  /\ shown' = [shown EXCEPT ![r] = [closure |-> Closure(r), fresh |-> TRUE]]
  /\ UNCHANGED <<life, before, owner, source, busy, cards>>

\* A token expires, or is spent on a deletion that is refused.
Expire(r) ==
  /\ shown[r] # None
  /\ shown' = [shown EXCEPT ![r] = None]
  /\ UNCHANGED <<life, before, owner, source, busy, cards>>

NeverBlocked(r) == FALSE

\* Blocking references: a Project of the Model, a run that reports to the Conversation.
Blocked(r) ==
  \/ \E p \in Projects : Exists(p) /\ source[p] = r
  \/ r \in cards

\* Agent turns, sessions, checks and runs that are under way in what would be deleted.
Active(r) == Closure(r) \cap busy # {}

DeletableUnseen(r) ==
  /\ shown[r] # None
  /\ life[r] = "trashed" /\ ~Blocked(r) /\ ~Active(r)

\* The token is for what would be deleted now.
Deletable(r) ==
  /\ shown[r] # None /\ shown[r].fresh
  /\ life[r] = "trashed" /\ ~Blocked(r) /\ ~Active(r)

\* The rows and the files go in one coordinated mutation.
Deleted(r) ==
  /\ life' = [x \in Resources |-> IF x \in Closure(r) THEN "deleted" ELSE life[x]]
  /\ before' = [x \in Resources |-> IF x \in Closure(r) THEN None ELSE before[x]]
  /\ cards' = cards \ Closure(r)
  /\ shown' = [x \in Resources |->
       IF x \in Closure(r) THEN None
       ELSE IF shown[x] # None /\ shown[x].closure \cap Closure(r) # {}
              THEN [shown[x] EXCEPT !.fresh = FALSE] ELSE shown[x]]
  /\ UNCHANGED <<owner, source, busy>>

\* Tokens live in memory; interrupted work is settled when the Store is opened.
Reopened ==
  /\ busy' = {} /\ shown' = [r \in Resources |-> None]
  /\ UNCHANGED <<life, before, owner, source, cards>>
-----------------------------------------------------------------------------
Lives == {"absent", "active", "archived", "trashed", "deleted"}

ResourceTypes ==
  /\ life \in [Resources -> Lives]
  /\ before \in [Resources -> {None, "active", "archived"}]
  /\ \A r \in Resources : (life[r] = "trashed") = (before[r] # None)
  /\ owner \in [Chats -> Owners \cup {None}] /\ source \in [Projects -> Models \cup {None}]
  /\ busy \subseteq Resources /\ cards \subseteq Chats
  /\ shown \in [Resources -> {None} \cup [closure : SUBSET Resources, fresh : BOOLEAN]]

\* What is deleted is not needed: no Project outlives the Model it was copied from, no
\* Conversation its owner, and nothing goes on in what is gone.
NothingDangles ==
  /\ \A p \in Projects : Exists(p) => Exists(source[p])
  /\ \A c \in Chats : Exists(c) => Exists(owner[c])
  /\ \A r \in busy : Exists(r)
  /\ \A c \in cards : Exists(c)
=============================================================================
