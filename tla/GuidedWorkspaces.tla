--------------------------- MODULE GuidedWorkspaces ---------------------------
(***************************************************************************)
(* The project guide: runWorkspaceBootstrapTurn of                         *)
(* agent-workspace-service.ts and the one mutation its capability of       *)
(* workspace-bootstrap-mcp.ts admits, beside the users who make, move and  *)
(* delete Models, Projects and Conversations.                              *)
(*                                                                         *)
(* A turn is a chain of awaits: between any two of them other turns run,   *)
(* the workspace is bound, the session is replaced.  A tool call is a      *)
(* request of OpenCode's, not a part of the turn that waits for the        *)
(* prompt: it may still be in progress when the turn has failed.           *)
(***************************************************************************)
EXTENDS WorkspaceBindings

CONSTANTS
  Guides  \* bound: the guide turns that are ever asked for

VARIABLES
  guide,   \* a turn: its stage, workspace and generation, the session it uses
  call,    \* its mutation: "none", "open" while the provider is looked up, then its outcome
  cap,     \* turns whose capability is live
  holder   \* the turn that OpenCode's tool registry belongs to

guideVars == <<guide, call, cap, holder>>
vars == <<resourceVars, bindingVars, guideVars>>

Unasked == [at |-> "unasked", key |-> None, gen |-> 0, ref |-> 0]

Init ==
  /\ ResourceInit /\ BindingInit
  /\ guide = [t \in Guides |-> Unasked] /\ call = [t \in Guides |-> "none"]
  /\ cap = {} /\ holder = None

At(t, stage) == guide[t].at = stage
K(t) == guide[t].key
Goes(t, stage) == guide' = [guide EXCEPT ![t].at = stage]
GoesWith(t, stage, ref) == guide' = [guide EXCEPT ![t].at = stage, ![t].ref = ref]
-----------------------------------------------------------------------------
(* A turn, await by await. *)

\* The session is read here, and used after requireProviderModel.
Ask(t, k) ==
  /\ At(t, "unasked") /\ binding[k].state = "unbound" /\ binding[k].provider
  /\ guide' = [guide EXCEPT ![t] = [at |-> "provider", key |-> k, gen |-> binding[k].gen,
       ref |-> IF session[k].state = "available" THEN session[k].gen ELSE 0]]
  /\ UNCHANGED <<resourceVars, bindingVars, call, cap, holder>>

\* The provider is there; a session that was available is asked for.
Probe(t) ==
  /\ At(t, "provider") /\ guide[t].ref # 0
  /\ Goes(t, "probe")
  /\ UNCHANGED <<resourceVars, bindingVars, call, cap, holder>>

\* Without one, a session is begun; it replaces the one that is current by now.
Rebuild(t) ==
  /\ At(t, "provider") /\ guide[t].ref = 0
  /\ BeginBootstrapSession(K(t), guide[t].gen)
  /\ GoesWith(t, "creating", session[K(t)].gen + 1)
  /\ UNCHANGED <<resourceVars, binding, call, cap, holder>>

\* bootstrapMcp.grant; acquireScopedMcpTurn queues behind the turn that has the registry.
Grant(t) ==
  /\ Goes(t, "waiting")
  /\ cap' = cap \cup {t}
  /\ UNCHANGED <<resourceVars, binding, call, holder>>

SessionAlive(t) == At(t, "probe") /\ Grant(t) /\ UNCHANGED session

\* The session is lost, and another begun unless the binding has changed.
SessionDead(t) ==
  /\ At(t, "probe") /\ Losable(K(t), guide[t].ref, {"available"})
  /\ IF Current(K(t), guide[t].gen) /\ binding[K(t)].provider
       THEN /\ BeginBootstrapSession(K(t), guide[t].gen)
            /\ GoesWith(t, "creating", session[K(t)].gen + 1)
       ELSE /\ LoseBootstrapSession(K(t), guide[t].ref)
            /\ GoesWith(t, "failed", 0)
  /\ UNCHANGED <<resourceVars, binding, call, cap, holder>>

SessionCreated(t) ==
  /\ At(t, "creating") /\ ActivateBootstrapSession(K(t), guide[t].ref)
  /\ Grant(t)

\* OpenCode fails, or another turn has replaced the session, or the workspace was bound.
SessionNotCreated(t) ==
  /\ At(t, "creating")
  /\ IF Losable(K(t), guide[t].ref, {"creating"})
       THEN LoseBootstrapSession(K(t), guide[t].ref) ELSE UNCHANGED session
  /\ Goes(t, "failed")
  /\ UNCHANGED <<resourceVars, binding, call, cap, holder>>

Acquire(t) ==
  /\ At(t, "waiting") /\ holder = None
  /\ holder' = t
  /\ Goes(t, "prompting")
  /\ UNCHANGED <<resourceVars, bindingVars, call, cap>>
-----------------------------------------------------------------------------
(* The tool. *)

\* handle: the one mutation is consumed, and the binding checked, before the await.
CallTool(t) ==
  /\ At(t, "prompting") /\ t \in cap /\ call[t] = "none"
  /\ call' = [call EXCEPT ![t] = IF Current(K(t), guide[t].gen) THEN "open" ELSE "refused"]
  /\ UNCHANGED <<resourceVars, bindingVars, guide, cap, holder>>

\* The Store checks the binding again, and the owner with it.
ToolCommits(t) ==
  /\ call[t] = "open" /\ BootstrapMutation(K(t), guide[t].gen)
  /\ call' = [call EXCEPT ![t] = "committed"]
  /\ UNCHANGED <<guide, cap, holder>>

\* The binding or the object it names changed, or the provider is gone.
ToolFails(t) ==
  /\ call[t] = "open"
  /\ call' = [call EXCEPT ![t] = "refused"]
  /\ UNCHANGED <<resourceVars, bindingVars, guide, cap, holder>>
-----------------------------------------------------------------------------
(* The end of a turn. *)

\* In a workspace that is bound by now, every capability is withdrawn.
Withdrawn(t) == {t} \cup (IF binding[K(t)].state = "bound" THEN {u \in cap : K(u) = K(t)} ELSE {})

PromptAnswers(t) ==
  /\ At(t, "prompting") /\ call[t] # "open"
  /\ cap' = cap \ Withdrawn(t) /\ holder' = None
  /\ Goes(t, "complete")
  /\ UNCHANGED <<resourceVars, bindingVars, call>>

\* OpenCode times out, or fails: the finally block comes before the catch block.
PromptFails(t) ==
  /\ At(t, "prompting")
  /\ cap' = cap \ {t} /\ holder' = None
  /\ Goes(t, "aborting")
  /\ UNCHANGED <<resourceVars, bindingVars, call>>

\* The provider is not available; or the session or the binding is not what was read.
SetupFails(t) ==
  /\ At(t, "provider") \/ At(t, "probe")
  /\ Goes(t, IF guide[t].ref = 0 THEN "failed" ELSE "aborting")
  /\ UNCHANGED <<resourceVars, bindingVars, call, cap, holder>>

\* The exact session is retired, and the user reads that nothing was written.
Aborted(t) ==
  /\ At(t, "aborting")
  /\ IF Losable(K(t), guide[t].ref, {"available"})
       THEN LoseBootstrapSession(K(t), guide[t].ref) ELSE UNCHANGED session
  /\ Goes(t, "failed")
  /\ UNCHANGED <<resourceVars, binding, call, cap, holder>>
-----------------------------------------------------------------------------
\* Turns, capabilities and the registry are the process's; a tool call dies with it.
Crash ==
  /\ Reopened
  /\ guide' = [t \in Guides |->
       IF guide[t].at \in {"unasked", "complete", "failed"} THEN guide[t]
       ELSE [guide[t] EXCEPT !.at = "gone"]]
  /\ call' = [t \in Guides |-> IF call[t] = "open" THEN "refused" ELSE call[t]]
  /\ cap' = {} /\ holder' = None
  /\ UNCHANGED bindingVars

\* What users do in the browser.
Users ==
  /\ \/ /\ \/ \E m \in Models, c \in Chats : NewModel(m, c)
           \/ \E p \in Projects, m \in Models, c \in Chats : NewProject(p, m, c)
           \/ \E o \in Owners, c \in Chats : NewChat(o, c)
           \/ \E r \in Resources :
                Archive(r) \/ Trash(r) \/ Restore(r) \/ Preview(r) \/ Expire(r) \/ EndWork(r)
           \/ \E r \in Resources, c \in Chats \cup {None} : StartWork(r, c)
        /\ UNCHANGED bindingVars
     \/ /\ UNCHANGED resourceVars
        /\ \E k \in Keys : \/ CreateWorkspaceBinding(k)
                           \/ \E p \in BOOLEAN : UpdateWorkspaceBindingDraft(k, p)
     \/ \E k \in Keys : BootstrapMutation(k, binding[k].gen)
     \/ \E r \in Resources : PermanentDelete(r)
  /\ UNCHANGED guideVars

Guide(t) ==
  \/ Probe(t) \/ Rebuild(t) \/ SessionAlive(t) \/ SessionDead(t)
  \/ SessionCreated(t) \/ SessionNotCreated(t) \/ Acquire(t)
  \/ PromptAnswers(t) \/ PromptFails(t) \/ SetupFails(t) \/ Aborted(t)

Tool(t) == ToolCommits(t) \/ ToolFails(t)

Next ==
  \/ Users \/ Crash
  \/ \E t \in Guides : Guide(t) \/ Tool(t) \/ CallTool(t) \/ \E k \in Keys : Ask(t, k)

Spec == Init /\ [][Next]_vars
-----------------------------------------------------------------------------
Stages == {"unasked", "provider", "probe", "creating", "waiting", "prompting",
            "aborting", "complete", "failed", "gone"}

TypeOK ==
  /\ ResourceTypes /\ BindingTypes
  /\ guide \in [Guides -> [at : Stages, key : Keys \cup {None}, gen : Nat, ref : Nat]]
  /\ call \in [Guides -> {"none", "open", "committed", "refused"}]
  /\ cap \subseteq Guides /\ holder \in Guides \cup {None}

\* One turn at a time has its tools in OpenCode's registry, which is the turn that is
\* prompting; and a capability belongs to a turn that still needs it.
ToolsOfOneTurn ==
  /\ \A t \in Guides : At(t, "prompting") = (holder = t)
  /\ \A t \in cap : guide[t].at \in {"waiting", "prompting"}

\* The rows and the process agree: workspaces are bound to what exists, nothing in the
\* Store names what was deleted, and one turn at a time has its tools registered.
WorkspacesAgree == TypeOK /\ BoundOwnersExist /\ NothingDangles /\ ToolsOfOneTurn

\* What is deleted for good is what the user was shown: if anything in it changed since,
\* be it by a guide, the deletion is refused.
DeletedAsShown ==
  \A r \in Resources : PermanentDelete(r) =>
    {x \in Resources : life[x] # life'[x]} = shown[r].closure

\* A workspace is bound for good: guides and users who race for it do not rebind it, and
\* it lets go of its owner only in the deletion of the owner or the Conversation.
BoundForGood ==
  \A k \in Keys : binding[k].state = "bound" /\ binding'[k] # binding[k] =>
    /\ binding'[k].state = "recovery_required"
    /\ life'[binding[k].chat] = "deleted"

\* What a guide was asked for is written for the workspace the user saw when asking: a
\* guide whose workspace has moved on creates nothing.
WrittenAsAsked ==
  \A t \in Guides : call'[t] = "committed" /\ call[t] # "committed" =>
    /\ binding[K(t)].state = "unbound" /\ binding[K(t)].gen = guide[t].gen
    /\ \A u \in Guides \ {t} : K(u) = K(t) /\ guide[u].gen = guide[t].gen
         => call[u] # "committed"

\* Whoever acts on what he saw earlier, a user who deletes or a guide who creates and
\* binds, acts on what is still so or is refused.
ActsOnWhatWasShown ==
  [][DeletedAsShown]_vars /\ [][BoundForGood]_vars /\ [][WrittenAsAsked]_vars
=============================================================================
