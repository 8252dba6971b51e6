------------------------------ MODULE AgentTurns ------------------------------
(***************************************************************************)
(* The Agent turns of the historical workspace: runTurn, stopTurn,         *)
(* retryTurn and resumeTurn of agent-workspace-service.ts, the sessions of *)
(* agent-session-manager.ts and the tools of agent-turn-runtime.ts, over   *)
(* the capabilities (McpGrants) and the journal of the store               *)
(* (AgentJournal).                                                         *)
(*                                                                         *)
(* OpenCode is outside: it answers a call in its own time, may lose a      *)
(* session, and may call a tool for as long as it knows a capability, long *)
(* after the turn ended.  The backend is one event loop (Quiet); the       *)
(* machine can die between any two transactions.                           *)
(***************************************************************************)
EXTENDS McpGrants, Sequences

CONSTANTS
  MaxBoots,      \* bound: starts of the backend
  MaxTurns,      \* bound: turns that are started
  Interruptions  \* bound: what users do while a turn runs

ASSUME TurnsAssumption ==
  /\ Turns \subseteq Conversations \X (Nat \ {0}) /\ IsFiniteSet(Turns)
  /\ Tools \subseteq {"mutation", "proposal", "operation", "check"}
  /\ MaxBoots \in Nat \ {0} /\ MaxTurns \in Nat /\ Interruptions \subseteq {"stop", "archive"}

VARIABLES
  server, boot,     \* the backend process
  pc,               \* where #runTurn stands
  phase,            \* with which outcome it ends
  control,          \* the turn's controlState: open, stopping or terminal
  resume,           \* resumeTurn, which holds the turn's control lock
  stop,             \* stopTurn
  call,             \* the tool call in progress
  retryOf,          \* the number of the turn a retry repeats
  executions,       \* how often the turn's consequential tool was executed
  mcpTail,          \* turns that hold or wait for the scoped MCP registration
  bound             \* turns whose capability OpenCode was given the URL of

service == <<server, boot>>
turnMemory == <<pc, phase, control, resume, stop, call>>
history == <<retryOf, executions>>
vars == <<journalVars, grantVars, service, turnMemory, bound, history, mcpTail>>

Consequential == {"mutation", "operation", "check"}
Earlier(t) == {x \in Turns : ConversationOf(x) = ConversationOf(t) /\ x[2] < t[2]}
-----------------------------------------------------------------------------
(* The event loop. *)

SyncTurn == {"live", "relist", "activating", "ending", "answered", "terminal"}
SyncCall == {"recorded", "authorized", "staged", "effected", "checked"}

Quiet ==
  /\ server = "up"
  /\ \A t \in Turns : pc[t] \notin SyncTurn /\ call[t] \notin SyncCall

Init ==
  /\ JournalInit /\ GrantsInit
  /\ server = "down" /\ boot = 0
  /\ pc = [t \in Turns |-> "idle"] /\ phase = [t \in Turns |-> "idle"]
  /\ control = [t \in Turns |-> "open"] /\ resume = [t \in Turns |-> "free"]
  /\ stop = [t \in Turns |-> "none"] /\ call = [t \in Turns |-> "idle"]
  /\ retryOf = [t \in Turns |-> 0] /\ executions = [t \in Turns |-> 0]
  /\ mcpTail = <<>> /\ bound = {}

\* The steps of a turn: a move of its pc, with what the move leaves alone.
Move(t, from, to) ==
  /\ pc[t] = from
  /\ pc' = [pc EXCEPT ![t] = to]
MoveOnly(t, from, to) ==
  /\ Move(t, from, to)
  /\ UNCHANGED <<service, phase, control, resume, stop, call, history>>

EndAs(t, from, outcome) ==
  /\ Move(t, from, "ending")
  /\ phase' = [phase EXCEPT ![t] = outcome]
  /\ UNCHANGED <<service, control, resume, stop, call, history>>

ControlOpen(t) == control[t] = "open"
-----------------------------------------------------------------------------
(* Commands. *)

\* runTurn: turns of a conversation run one after the other (a turn in the queue has
\* done nothing yet); the store does not start one of an inactive conversation or owner.
Starts(t) ==
  /\ Quiet /\ \A x \in Earlier(t) : pc[x] = "done"
  /\ Cardinality({x \in Turns : turn[x] # "none"}) < MaxTurns
  /\ StartAgentTurn(t)
  /\ pc' = [pc EXCEPT ![t] = "discovering"]
  /\ UNCHANGED <<grantVars, service, phase, control, resume, stop, call, bound, mcpTail,
                 executions>>

RunTurn(t) == Starts(t) /\ UNCHANGED retryOf

\* retryTurn: the input of a retryable failed turn, under a fresh request key.
RetryTurn(t, source) ==
  /\ source \in Earlier(t) /\ turn[source] = "failed" /\ retryable[source]
  /\ Starts(t)
  /\ retryOf' = [retryOf EXCEPT ![t] = source[2]]

\* lifecycleCommand: archiving an owner retires the capabilities first.
ArchiveConversation(c) ==
  /\ Quiet /\ "archive" \in Interruptions /\ usable[c] = "active"
  /\ usable' = [usable EXCEPT ![c] = "archived"]
  /\ UNCHANGED <<turnRows, sessionRows, actionRows, grantVars, service, turnMemory,
                 bound, history, mcpTail>>

ArchiveOwner(c) ==
  /\ Quiet /\ "archive" \in Interruptions /\ usable[c] = "active"
  /\ usable' = [usable EXCEPT ![c] = "owner_archived"]
  /\ RevokeAll({t \in Turns : ConversationOf(t) = c})
  /\ UNCHANGED <<turnRows, sessionRows, actionRows, service, turnMemory,
                 bound, history, mcpTail>>

Active(t) == pc[t] \notin {"idle", "done"}

StopTurn(t) ==
  /\ Quiet /\ "stop" \in Interruptions /\ Active(t) /\ stop[t] = "none"
  /\ stop' = [stop EXCEPT ![t] = "waiting"]
  /\ UNCHANGED <<journalVars, grantVars, service, pc, phase, control, resume, call,
                 bound, history, mcpTail>>

\* Once the control lock is free: abort the turn, unless it is over.
StopProceeds(t) ==
  /\ Quiet /\ stop[t] = "waiting" /\ resume[t] = "free"
  /\ IF Active(t) /\ ControlOpen(t)
       THEN /\ stop' = [stop EXCEPT ![t] = "stopping"]
            /\ control' = [control EXCEPT ![t] = "stopping"]
       ELSE stop' = [stop EXCEPT ![t] = "none"] /\ UNCHANGED control
  /\ UNCHANGED <<journalVars, grantVars, service, pc, phase, resume, call,
                 bound, history, mcpTail>>

StopReturns(t) ==
  /\ Quiet /\ stop[t] = "stopping" /\ pc[t] = "done"
  /\ stop' = [stop EXCEPT ![t] = "none"]
  /\ UNCHANGED <<journalVars, grantVars, service, pc, phase, control, resume, call,
                 bound, history, mcpTail>>
-----------------------------------------------------------------------------
(* resumeTurn for a permission OpenCode asked for: it holds the control lock   *)
(* while it asks OpenCode what is pending, and while it answers.               *)

ResumeTurn(t) ==
  /\ Quiet /\ pc[t] = "prompting" /\ resume[t] = "free" /\ stop[t] = "none" /\ ControlOpen(t)
  /\ resume' = [resume EXCEPT ![t] = "looking"]
  /\ UNCHANGED <<journalVars, grantVars, service, pc, phase, control, stop, call,
                 bound, history, mcpTail>>

\* The permission is gone, or the turn is over, or the user rejects.
ResumeRefused(t) ==
  /\ Quiet /\ resume[t] = "looking"
  /\ resume' = [resume EXCEPT ![t] = "free"]
  /\ UNCHANGED <<journalVars, grantVars, service, pc, phase, control, stop, call,
                 bound, history, mcpTail>>

ResumeAuthorizes(t, args) ==
  /\ Quiet /\ resume[t] = "looking" /\ Active(t) /\ ControlOpen(t)
  /\ Authorize(t, args)
  /\ resume' = [resume EXCEPT ![t] = IF cap'[t] = "live" THEN "answering" ELSE "free"]
  /\ UNCHANGED <<journalVars, service, pc, phase, control, stop, call,
                 bound, history, mcpTail>>

ResumeAnswered(t) ==
  /\ Quiet /\ resume[t] = "answering"
  /\ resume' = [resume EXCEPT ![t] = "free"]
  /\ UNCHANGED <<journalVars, grantVars, service, pc, phase, control, stop, call,
                 bound, history, mcpTail>>

ResumeFails(t) ==
  /\ Quiet /\ resume[t] = "answering"
  /\ Revoke(t)
  /\ resume' = [resume EXCEPT ![t] = "free"]
  /\ UNCHANGED <<journalVars, service, pc, phase, control, stop, call,
                 bound, history, mcpTail>>
-----------------------------------------------------------------------------
(* #runTurn, up to its prompt. *)

\* #ensure runs twice: for the turn, and again inside prompt.
Prompting(t) == cap[t] # "none"
EnsureAt(t) == IF Prompting(t) THEN "rediscovering" ELSE "discovering"

Usable(t) == usable[ConversationOf(t)] = "active"

\* The provider is there: check the session, or create the next one.
Discovered(t) ==
  LET c == ConversationOf(t) IN
  /\ Quiet
  /\ MoveOnly(t, EnsureAt(t), IF session[c] = "available" THEN "validating" ELSE "relist")
  /\ UNCHANGED <<journalVars, grantVars, bound, mcpTail>>

\* The provider is away, or the session cannot be checked: the turn is read-only.
EnsureReadOnly(t, from) ==
  /\ Quiet /\ from \in {EnsureAt(t), "validating"}
  /\ EndAs(t, from, "read_only")
  /\ UNCHANGED <<journalVars, grantVars, bound, mcpTail>>

\* OpenCode still has the session, or has lost it since.
SessionFound(t) ==
  /\ Quiet
  /\ MoveOnly(t, "validating", "live")
  /\ UNCHANGED <<journalVars, grantVars, bound, mcpTail>>

SessionMissing(t) ==
  /\ Quiet
  /\ MarkSessionLost(ConversationOf(t))
  /\ MoveOnly(t, "validating", "relist")
  /\ UNCHANGED <<grantVars, bound, mcpTail>>

BeginGeneration(t) ==
  /\ BeginSessionGeneration(ConversationOf(t))
  /\ MoveOnly(t, "relist", "creating")
  /\ UNCHANGED <<grantVars, bound, mcpTail>>

BeginRefused(t) ==
  /\ usable[ConversationOf(t)] = "archived"
  /\ EndAs(t, "relist", "read_only")
  /\ UNCHANGED <<journalVars, grantVars, bound, mcpTail>>

\* createSession, injectContext and activateSession.
SessionCreated(t) ==
  /\ Quiet /\ ActivateSession(ConversationOf(t))
  /\ MoveOnly(t, "creating", "live")
  /\ UNCHANGED <<grantVars, bound, mcpTail>>

SessionNotCreated(t) ==
  /\ Quiet /\ FailSessionGeneration(ConversationOf(t))
  /\ EndAs(t, "creating", "read_only")
  /\ UNCHANGED <<grantVars, bound, mcpTail>>

Aborted(t, from) ==
  /\ EndAs(t, from, "interrupted")
  /\ UNCHANGED <<journalVars, grantVars, bound, mcpTail>>

\* The turn runtime mints the capability for the session it just resolved.
PrepareTurn(t) ==
  /\ ~Prompting(t) /\ ControlOpen(t) /\ Usable(t)
  /\ Grant(t, generation[ConversationOf(t)])
  /\ MoveOnly(t, "live", "waiting")
  /\ mcpTail' = Append(mcpTail, t)
  /\ UNCHANGED <<journalVars, bound>>

PrepareRefused(t) ==
  /\ ~Prompting(t) /\ ControlOpen(t) /\ ~Usable(t)
  /\ EndAs(t, "live", "failed")
  /\ UNCHANGED <<journalVars, grantVars, bound, mcpTail>>

PrepareAborted(t) == ~Prompting(t) /\ ~ControlOpen(t) /\ Aborted(t, "live")

\* #acquireScopedMcpTurn: one capability is registered with OpenCode at a time.
AcquireScopedMcp(t) ==
  /\ Quiet /\ pc[t] = "waiting" /\ Head(mcpTail) = t
  /\ IF ControlOpen(t) THEN MoveOnly(t, "waiting", "binding")
                       ELSE EndAs(t, "waiting", "interrupted")
  /\ UNCHANGED <<journalVars, grantVars, bound, mcpTail>>

\* prompt resolves the session once more; it does not find one that was archived.
ScopedMcpBound(t) ==
  /\ Quiet
  /\ bound' = {x \in bound : ConversationOf(x) # ConversationOf(t)} \cup {t}
  /\ IF ~ControlOpen(t) THEN EndAs(t, "binding", "interrupted")
     ELSE IF Usable(t) THEN MoveOnly(t, "binding", "rediscovering")
                       ELSE EndAs(t, "binding", "failed")
  /\ UNCHANGED <<journalVars, grantVars, mcpTail>>

BindFails(t) ==
  /\ Quiet
  /\ EndAs(t, "binding", "failed")
  /\ UNCHANGED <<journalVars, grantVars, bound, mcpTail>>
-----------------------------------------------------------------------------
(* The prompt. *)

PromptSubmitted(t) ==
  /\ Prompting(t) /\ generation[ConversationOf(t)] = capGen[t]
  /\ MoveOnly(t, "live", "prompting")
  /\ UNCHANGED <<journalVars, grantVars, bound, mcpTail>>

GenerationChanged(t) ==
  /\ Prompting(t) /\ generation[ConversationOf(t)] # capGen[t]
  /\ Aborted(t, "live")

PromptAnswers(t) ==
  /\ Quiet
  /\ IF ControlOpen(t) THEN MoveOnly(t, "prompting", "answered")
                       ELSE EndAs(t, "prompting", "interrupted")
  /\ UNCHANGED <<journalVars, grantVars, bound, mcpTail>>

\* It timed out, was disconnected or aborted: the session is retired, and the turn
\* is told apart by the reason.
PromptFails(t, outcome) ==
  LET c == ConversationOf(t) IN
  /\ Quiet /\ outcome \in {"read_only", "timeout", "failed"}
  /\ EndAs(t, "prompting", IF ControlOpen(t) THEN outcome ELSE "interrupted")
  /\ IF session[c] = "available" THEN MarkSessionLost(c) ELSE UNCHANGED journalVars
  /\ UNCHANGED <<grantVars, bound, mcpTail>>

Terminal(t) ==
  /\ pc' = [pc EXCEPT ![t] = "terminal"]
  /\ control' = [control EXCEPT ![t] = "terminal"]
  /\ phase' = [phase EXCEPT ![t] = "idle"]
  /\ UNCHANGED <<service, resume, stop, call, history>>

CompleteTurn(t, verified) ==
  /\ pc[t] = "answered"
  /\ CompleteAgentTurn(t, VerifyAgentGoal(t, "idle", verified))
  /\ Terminal(t)
  /\ UNCHANGED <<grantVars, bound, mcpTail>>

CompletionThrows(t) ==
  /\ usable[ConversationOf(t)] = "archived"
  /\ MoveOnly(t, "answered", "done")
  /\ UNCHANGED <<journalVars, grantVars, bound, mcpTail>>

CompletionRefused(t) ==
  /\ usable[ConversationOf(t)] = "archived"
  /\ EndAs(t, "answered", "failed")
  /\ UNCHANGED <<journalVars, grantVars, bound, mcpTail>>

FailTurn(t, verified) ==
  /\ pc[t] = "ending"
  /\ FailAgentTurn(t, VerifyAgentGoal(t, phase[t], verified))
  /\ Terminal(t)
  /\ UNCHANGED <<grantVars, bound, mcpTail>>
-----------------------------------------------------------------------------
(* The finally of #runTurn. *)

SnapshotRuntime(t) ==
  /\ MoveOnly(t, "terminal", "releasing")
  /\ UNCHANGED <<journalVars, grantVars, bound, mcpTail>>

\* The turn lets go of the registration, if it came as far as to hold it.
LetGo(t) ==
  IF mcpTail # <<>> /\ Head(mcpTail) = t THEN Tail(mcpTail) ELSE mcpTail

ReleaseCapability(t) ==
  /\ Quiet /\ Revoke(t)
  /\ MoveOnly(t, "releasing", "unbinding")
  /\ UNCHANGED <<journalVars, bound, mcpTail>>

\* A failed unbind is ignored: what OpenCode keeps is the URL of a revoked capability.
UnbindScopedMcp(t) ==
  /\ Quiet
  /\ MoveOnly(t, "unbinding", "done")
  /\ bound' = bound \ {t}
  /\ ForgetGrant(t)
  /\ mcpTail' = LetGo(t)
  /\ UNCHANGED journalVars
-----------------------------------------------------------------------------
(* Tools.  OpenCode calls them while it knows a live capability. *)

Reachable(t) == cap[t] = "live" /\ t \in bound

CallStep(t, from, to) ==
  /\ call[t] = from
  /\ call' = [call EXCEPT ![t] = to]
  /\ UNCHANGED <<service, pc, phase, control, resume, stop, retryOf, mcpTail, bound>>

\* handle rejects the arguments of an approved call before it runs.
CallRejected(t) ==
  /\ Quiet /\ Reachable(t) /\ RejectCall(t)
  /\ UNCHANGED <<journalVars, service, turnMemory, bound, history, mcpTail>>

InScope(t) == ActiveAgentToolGrant(t, capGen[t])

\* A consequential call is consumed before execute looks at the durable scope.  The
\* journal is followed for the first action of a turn, a later one is only counted.
CallConsequential(t, kind) ==
  /\ Quiet /\ Reachable(t) /\ kind \in Tools \cap Consequential /\ InScope(t)
  /\ Consume(t)
  /\ executions' = [executions EXCEPT ![t] = @ + 1]
  /\ IF action[t] = "none"
       THEN RecordAction(t, kind) /\ CallStep(t, "idle", "recorded")
       ELSE UNCHANGED <<journalVars, service, turnMemory, retryOf, mcpTail, bound>>

CallOutOfScope(t) ==
  /\ Quiet /\ Reachable(t) /\ ~InScope(t)
  /\ Consume(t)
  /\ UNCHANGED <<journalVars, service, turnMemory, bound, history, mcpTail>>

CallProposal(t) ==
  /\ Quiet /\ Reachable(t) /\ "proposal" \in Tools /\ InScope(t)
  /\ RecordAction(t, "proposal")
  /\ CallStep(t, "idle", "recorded")
  /\ UNCHANGED <<grantVars, executions>>

AuthorizeAction(t) ==
  /\ TransitionAction(t, "proposed", "authorized")
  /\ CallStep(t, "recorded", "authorized")
  /\ UNCHANGED <<grantVars, executions>>

StageAction(t) ==
  /\ TransitionAction(t, "authorized", "staging")
  /\ CallStep(t, "authorized", "staged")
  /\ UNCHANGED <<grantVars, executions>>

\* The domain operation: one transaction, or a technical check that runs on.
Execute(t) ==
  /\ tool[t] # "check" /\ CommitEffect(t)
  /\ CallStep(t, "staged", "effected")
  /\ UNCHANGED <<grantVars, executions>>

StartCheck(t) ==
  /\ tool[t] = "check" /\ StartTechnicalCheck(t)
  /\ CallStep(t, "staged", "checking")
  /\ UNCHANGED <<grantVars, executions>>

CheckDone(t) ==
  /\ Quiet /\ FinishTechnicalCheck(t)
  /\ CallStep(t, "checking", "checked")
  /\ UNCHANGED <<grantVars, executions>>

\* The operation throws.  A mutation or a proposal records that it rolled back.
ExecuteFails(t) ==
  /\ tool[t] \notin ReceiptBacked
  /\ TransitionAction(t, "staging", "rolled_back")
  /\ CallStep(t, "staged", "idle")
  /\ UNCHANGED <<grantVars, executions>>

\* A receipt-backed operation may have committed and then failed: it stays in
\* staging, and the receipt decides when the store is opened again.
OperationThrows(t) ==
  /\ tool[t] \in ReceiptBacked
  /\ CallStep(t, IF effect[t] = "none" THEN "staged"
                 ELSE IF tool[t] = "check" THEN "checked" ELSE "effected", "idle")
  /\ UNCHANGED <<journalVars, grantVars, executions>>

CommitAction(t) ==
  /\ IF tool[t] \in ReceiptBacked THEN CommitReceiptBacked(t)
                                  ELSE TransitionAction(t, "staging", "committed")
  /\ CallStep(t, IF tool[t] = "check" THEN "checked" ELSE "effected", "idle")
  /\ UNCHANGED <<grantVars, executions>>
-----------------------------------------------------------------------------
(* OpenCode, crashes, and the start of the backend. *)

Crash ==
  /\ server # "down" /\ boot < MaxBoots
  /\ server' = "down"
  /\ pc' = [t \in Turns |-> IF pc[t] = "idle" THEN "idle" ELSE "done"]
  /\ control' = [t \in Turns |-> IF pc[t] = "idle" THEN "open" ELSE "terminal"]
  /\ phase' = [t \in Turns |-> "idle"]
  /\ resume' = [t \in Turns |-> "free"]
  /\ stop' = [t \in Turns |-> "none"]
  /\ call' = [t \in Turns |-> "idle"] /\ mcpTail' = <<>>
  /\ ForgetGrants /\ bound' = {}
  /\ UNCHANGED <<journalVars, boot, history>>

Boot ==
  /\ server = "down" /\ boot < MaxBoots
  /\ boot' = boot + 1 /\ server' = "recovering"
  /\ UNCHANGED <<journalVars, grantVars, turnMemory, bound, history, mcpTail>>

Reconcile ==
  /\ server = "recovering"
  /\ \/ \E t \in Turns : RecoverReceiptGap(t) \/ \E verified \in BOOLEAN :
                                                   FailInterruptedTurn(t, verified)
     \/ SettleStaging \/ LoseSessionsAndChecks
  /\ UNCHANGED <<grantVars, service, turnMemory, bound, history, mcpTail>>

Serve ==
  /\ server = "recovering" /\ Reconciled
  /\ server' = "up"
  /\ UNCHANGED <<journalVars, grantVars, boot, turnMemory, bound, history, mcpTail>>
-----------------------------------------------------------------------------
Commands ==
  \/ \E t \in Turns :
       \/ RunTurn(t) \/ StopTurn(t) \/ ResumeTurn(t)
       \/ \E source \in Turns : RetryTurn(t, source)
       \/ \E args \in Arguments : ResumeAuthorizes(t, args)
  \/ \E c \in Conversations : ArchiveConversation(c) \/ ArchiveOwner(c)

ResumeReturns(t) == ResumeRefused(t) \/ ResumeAnswered(t) \/ ResumeFails(t)

StopSteps(t) == StopProceeds(t) \/ StopReturns(t)

\* What the event loop does with a turn, and the answers of OpenCode to its calls.
TurnSteps(t) ==
  \/ Discovered(t) \/ SessionFound(t)
  \/ SessionMissing(t) \/ BeginGeneration(t) \/ BeginRefused(t) \/ SessionCreated(t)
  \/ SessionNotCreated(t) \/ PrepareTurn(t) \/ PrepareRefused(t) \/ PrepareAborted(t)
  \/ AcquireScopedMcp(t) \/ ScopedMcpBound(t) \/ BindFails(t) \/ PromptSubmitted(t)
  \/ GenerationChanged(t) \/ PromptAnswers(t) \/ CompletionRefused(t)
  \/ SnapshotRuntime(t) \/ ReleaseCapability(t) \/ UnbindScopedMcp(t)
  \/ EnsureReadOnly(t, EnsureAt(t)) \/ EnsureReadOnly(t, "validating")
  \/ \E outcome \in {"read_only", "timeout", "failed"} : PromptFails(t, outcome)
  \/ \E verified \in BOOLEAN : CompleteTurn(t, verified) \/ FailTurn(t, verified)

\* A tool call that was accepted runs on.
CallSteps(t) ==
  \/ AuthorizeAction(t) \/ StageAction(t) \/ Execute(t) \/ StartCheck(t) \/ CheckDone(t)
  \/ CommitAction(t) \/ ExecuteFails(t) \/ OperationThrows(t)

\* What OpenCode may do.
OpenCodeSteps ==
  \E t \in Turns :
    \/ CallRejected(t) \/ CallOutOfScope(t) \/ CallProposal(t)
    \/ \E kind \in Tools : CallConsequential(t, kind)

Startup == Boot \/ Reconcile \/ Serve

Next ==
  \/ Commands \/ OpenCodeSteps \/ Crash \/ Startup
  \/ \E t \in Turns : ResumeReturns(t) \/ StopSteps(t) \/ TurnSteps(t) \/ CallSteps(t)

Spec == Init /\ [][Next]_vars

\* The event loop serves every turn, OpenCode answers or times out (the adapter puts
\* a deadline on every request), and a service manager starts a backend that is down.
FairSpec ==
  /\ Spec /\ WF_vars(Startup) /\ WF_vars(\E t \in Turns : TurnSteps(t))
  /\ WF_vars(\E t \in Turns : CallSteps(t)) /\ WF_vars(\E t \in Turns : StopReturns(t))
-----------------------------------------------------------------------------
(* Properties. *)

PcState == {"idle", "discovering", "rediscovering", "validating", "creating",
            "waiting", "binding", "prompting", "releasing", "unbinding", "done"} \cup SyncTurn

TypeOK ==
  /\ usable \in [Conversations -> {"active", "archived", "owner_archived"}]
  /\ turn \in [Turns -> {"none", "running", "complete", "failed"}]
  /\ disposition \in [Turns -> {"none", "completed", "outcome_unknown",
                               "failed", "read_only", "budget_exhausted"}]
  /\ retryable \in [Turns -> BOOLEAN]
  /\ generation \in [Conversations -> Nat]
  /\ session \in [Conversations -> {"none", "creating", "available", "lost", "closed"}]
  /\ action \in [Turns -> {"none", "committed", "rolled_back"} \cup Open]
  /\ tool \in [Turns -> {"none"} \cup Tools]
  /\ effect \in [Turns -> {"none", "running", "cut", "done"}]
  /\ cap \in [Turns -> {"none", "live", "revoked"}]
  /\ approved \in [Turns -> {"none"} \cup Arguments]
  /\ rejected \in [Turns -> BOOLEAN] /\ consumed \in [Turns -> BOOLEAN]
  /\ server \in {"down", "recovering", "up"} /\ boot \in 0..MaxBoots
  /\ pc \in [Turns -> PcState]
  /\ phase \in [Turns -> {"idle", "read_only", "timeout", "interrupted", "failed"}]
  /\ control \in [Turns -> {"open", "stopping", "terminal"}]
  /\ resume \in [Turns -> {"free", "looking", "answering"}]
  /\ stop \in [Turns -> {"none", "waiting", "stopping"}]
  /\ call \in [Turns -> {"idle", "checking"} \cup SyncCall]
  /\ bound \subseteq Turns

\* What the journal says of an action is true of its effect: a committed action took
\* place, one that was rolled back did not, and there is no effect without a record
\* that was written ahead of it (also after a crash between any two transactions).
JournalIsTrue ==
  \A t \in Turns :
    /\ action[t] = "committed" => effect[t] = "done"
    /\ action[t] = "rolled_back" => effect[t] # "done"
    /\ effect[t] # "none" => action[t] \in {"staging", "committed", "rolled_back"}

\* A turn is retryable, and recorded as failed or read-only, only if its tools did
\* nothing: a retry repeats no effect.
RetryRepeatsNothing ==
  \A t \in Turns :
    /\ turn[t] = "failed" /\ retryable[t] => effect[t] = "none" /\ action[t] # "committed"
    /\ retryOf[t] # 0 => effect[<<ConversationOf(t), retryOf[t]>>] = "none"

\* A turn recorded as completed has no action in doubt.
CompletedIsSettled ==
  \A t \in Turns : disposition[t] = "completed" =>
    action[t] \in {"none", "committed", "rolled_back"}

\* One allow-once approval executes one operation, however often OpenCode calls it and
\* however often the user answers.
ApprovedOnce == \A t \in Turns : executions[t] <= 1

\* OpenCode's registry of MCP servers is process-global: at most one live capability
\* is registered with it, that of the turn that holds the registration.
OneLiveRegistration ==
  \A t \in bound : cap[t] = "live" => mcpTail # <<>> /\ Head(mcpTail) = t

\* The rows of a turn are true of what it did: its journal of every effect, its
\* disposition of the actions in doubt, and one approval stands for one execution.
TurnsAreTrue == TypeOK /\ JournalIsTrue /\ CompletedIsSettled /\ ApprovedOnce

\* What turns share does not mix them up: a retry repeats no effect of the turn it
\* retries, and one turn at a time has its tools registered with OpenCode.
TurnsAreApart == RetryRepeatsNothing /\ OneLiveRegistration

\* A tool has an effect only while its turn runs in an active conversation of an active
\* owner, under the session generation its capability was issued for; what it finishes
\* later (a technical check) was started there.
EffectsInScope ==
  \A t \in Turns : effect[t] = "none" /\ effect'[t] # "none" =>
    /\ turn[t] = "running" /\ usable[ConversationOf(t)] = "active"
    /\ session[ConversationOf(t)] = "available"
    /\ generation[ConversationOf(t)] = capGen[t]

\* Stop wins: a turn that was told to stop never completes.
StopWins ==
  \A t \in Turns : control[t] = "stopping" => turn'[t] # "complete"

\* A turn acts only as long as it may: in its conversation, under its session, and
\* completing only if nobody stopped it.
ActsWhileAllowed == [][EffectsInScope]_vars /\ [][StopWins]_vars

\* Every accepted turn reaches a durable terminal state, and every stop returns,
\* whatever OpenCode loses and wherever the backend dies.
TurnsEnd == []<>(\A t \in Turns : turn[t] # "running" /\ stop[t] # "stopping")
=============================================================================
