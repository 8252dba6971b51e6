--------------------------- MODULE WorkspaceBindings ---------------------------
(***************************************************************************)
(* The workspaces of product-store-v2.ts.  A browser workspace begins      *)
(* unbound, with a bootstrap Conversation of its own; it is bound once, in *)
(* the same mutation that creates the Conversation it is bound to; and it  *)
(* needs recovery when its owner or that Conversation is deleted for good. *)
(*                                                                         *)
(* Every change of a binding raises its generation, and every writer names *)
(* the generation it observed (the binding digest adds nothing to it here: *)
(* the rows it covers change only together with the generation).           *)
(***************************************************************************)
EXTENDS OwnedResources, Integers

CONSTANTS
  Keys,
  MaxDrafts  \* bound: the generation up to which a draft is saved

VARIABLES
  binding,  \* a workspace_bindings row
  session   \* the bootstrap Conversation's session_generation and session_state

bindingVars == <<binding, session>>

Unmade == [state |-> "absent", gen |-> 0, provider |-> FALSE, owner |-> None, chat |-> None]

BindingInit ==
  /\ binding = [k \in Keys |-> Unmade]
  /\ session = [k \in Keys |-> [gen |-> 0, state |-> "closed"]]
-----------------------------------------------------------------------------
Unbound(gen, provider) ==
  [state |-> "unbound", gen |-> gen, provider |-> provider, owner |-> None, chat |-> None]

CreateWorkspaceBinding(k) ==
  /\ binding[k].state = "absent"
  /\ binding' = [binding EXCEPT ![k] = Unbound(1, FALSE)]
  /\ UNCHANGED session

\* assertWorkspaceCas, repeated in the WHERE clause of each write.
Current(k, gen) == binding[k].state = "unbound" /\ binding[k].gen = gen

\* A provider may be selected, or deselected, with the draft.
UpdateWorkspaceBindingDraft(k, provider) ==
  /\ binding[k].state = "unbound" /\ binding[k].gen < MaxDrafts
  /\ binding' = [binding EXCEPT ![k] = Unbound(@.gen + 1, provider)]
  /\ UNCHANGED session

\* #workspaceBindPlan: these statements commit with the creation of c.
Bound(k, gen, o, c) ==
  /\ Current(k, gen)
  /\ binding' = [binding EXCEPT ![k] =
       [state |-> "bound", gen |-> gen + 1, provider |-> TRUE, owner |-> o, chat |-> c]]
  /\ session' = [session EXCEPT ![k].state = "closed"]

\* bootstrapCreateModel, bootstrapCreateProject and bootstrapBindOwner, from the HTTP
\* route or from a guide's tool.
BootstrapMutation(k, gen) ==
  \E c \in Chats :
    \/ \E m \in Models : NewModel(m, c) /\ Bound(k, gen, m, c)
    \/ \E p \in Projects, m \in Models : NewProject(p, m, c) /\ Bound(k, gen, p, c)
    \/ \E o \in Owners : NewChat(o, c) /\ Bound(k, gen, o, c)

\* The row that #workspaceBindingRecoveryPlansForPermanentDelete leaves.
Recovered(b) ==
  [state |-> "recovery_required", gen |-> b.gen + 1, provider |-> b.provider, owner |-> None, chat |-> None]

OwnerOrChat(k, r) == binding[k].state = "bound" /\ r \in {binding[k].owner, binding[k].chat}

\* commitPermanentDelete.
PermanentDelete(r) ==
  /\ Deletable(r) /\ Deleted(r)
  /\ binding' = [k \in Keys |-> IF OwnerOrChat(k, r) THEN Recovered(binding[k]) ELSE binding[k]]
  /\ UNCHANGED session
-----------------------------------------------------------------------------
(* The bootstrap session.  Its reference is the generation it was made for. *)

BeginBootstrapSession(k, gen) ==
  /\ Current(k, gen) /\ binding[k].provider
  /\ session' = [session EXCEPT ![k] = [gen |-> @.gen + 1, state |-> "creating"]]

Activatable(k, s) == session[k] = [gen |-> s, state |-> "creating"]

ActivateBootstrapSession(k, s) ==
  /\ Activatable(k, s)
  /\ session' = [session EXCEPT ![k].state = "available"]

Losable(k, s, states) == session[k].gen = s /\ session[k].state \in states

LoseBootstrapSession(k, s) == session' = [session EXCEPT ![k].state = "lost"]
-----------------------------------------------------------------------------
BindingTypes ==
  /\ binding \in [Keys -> [state : {"absent", "unbound", "bound", "recovery_required"},
       gen : Nat, provider : BOOLEAN, owner : Owners \cup {None}, chat : Chats \cup {None}]]
  /\ session \in [Keys -> [gen : Nat, state : {"closed", "creating", "available", "lost"}]]

\* A bound workspace leads to an owner that exists and to a Conversation of that owner,
\* and no two workspaces lead to the same Conversation: whatever is deleted, and
\* whichever of several guides and browser commands gets there first.
BoundOwnersExist ==
  \A k \in Keys :
    /\ (binding[k].state = "bound") = (binding[k].owner # None)
    /\ binding[k].state = "bound" =>
         /\ Exists(binding[k].owner) /\ Exists(binding[k].chat)
         /\ owner[binding[k].chat] = binding[k].owner
         /\ \A other \in Keys \ {k} : binding[other].chat # binding[k].chat
=============================================================================
