--------------------------- MODULE AgentTurnsProofs ---------------------------
(***************************************************************************)
(* Proofs about the Agent's work in a conversation: the turns of           *)
(* AgentTurns, their journal and their capabilities; and the prompts of    *)
(* the OpenCode session they are asked in (OpenCodePrompts): how a prompt  *)
(* is reported to have ended is how it ended, and only what the user       *)
(* approved has run.                                                       *)
(***************************************************************************)
EXTENDS AgentTurns, OpenCodePrompts, SequenceTheorems, WellFoundedInduction, TLAPS

Types ==
  /\ TypeOK
  /\ capGen \in [Turns -> Nat] /\ retryOf \in [Turns -> Nat] /\ executions \in [Turns -> Nat]
  /\ mcpTail \in Seq(Turns)

\* The event loop: nothing lives without the backend, and what it has begun to do without
\* an await it finishes before anything else.
DownIsIdle ==
  server # "up" =>
    /\ bound = {} /\ mcpTail = <<>>
    /\ \A t \in Turns : pc[t] \in {"idle", "done"} /\ call[t] = "idle" /\ cap[t] # "live"

OneAtATime ==
  \A t, x \in Turns :
    /\ pc[t] \in SyncTurn => call[x] \notin SyncCall
    /\ pc[t] \in SyncTurn /\ pc[x] \in SyncTurn => t = x
    /\ call[t] \in SyncCall /\ call[x] \in SyncCall => t = x

\* What the call in progress has made of its action.
CallAgrees(t) ==
  /\ call[t] = "recorded" => action[t] = "proposed" /\ effect[t] = "none"
  /\ call[t] = "authorized" => action[t] = "authorized" /\ effect[t] = "none"
  /\ call[t] = "staged" => action[t] = "staging" /\ effect[t] = "none"
  /\ call[t] = "checking" => action[t] = "staging" /\ effect[t] = "running" /\ tool[t] = "check"
  /\ call[t] = "checked" => action[t] = "staging" /\ effect[t] = "done" /\ tool[t] = "check"
  /\ call[t] = "effected" => action[t] = "staging" /\ effect[t] = "done" /\ tool[t] # "check"
  /\ call[t] \in {"recorded", "authorized", "staged"} => ActiveAgentToolGrant(t, capGen[t])

JournalAgrees(t) ==
  /\ action[t] = "committed" => effect[t] = "done"
  /\ action[t] = "rolled_back" => effect[t] # "done"
  /\ effect[t] # "none" => action[t] \in {"staging", "committed", "rolled_back"}
  /\ action[t] = "none" => tool[t] = "none"
  /\ action[t] # "none" => tool[t] # "none"
  /\ effect[t] \in {"running", "cut"} => tool[t] = "check"
  /\ effect[t] = "running" /\ server = "up" => call[t] = "checking"
  /\ server = "up" /\ turn[t] = "running" /\ action[t] = "rolled_back" => effect[t] = "none"

RowAgrees(t) ==
  /\ turn[t] = "none" <=> pc[t] = "idle"
  /\ turn[t] = "none" => action[t] = "none" /\ call[t] = "idle"
  /\ disposition[t] = "completed" => turn[t] = "complete" /\ action[t] \notin Open
  /\ turn[t] = "complete" => control[t] = "terminal"
  /\ pc[t] = "answered" => control[t] = "open"
  /\ turn[t] = "failed" /\ retryable[t] =>
       effect[t] = "none" /\ action[t] \in {"none", "rolled_back"} /\ call[t] = "idle"

\* What a turn repeats has failed for good.
RetryAgrees(t) ==
  retryOf[t] # 0 =>
    LET x == <<ConversationOf(t), retryOf[t]>> IN
    x \in Turns /\ turn[x] = "failed" /\ retryable[x]

GrantAgrees(t) ==
  /\ pc[t] \in {"idle", "discovering"} => cap[t] = "none"
  /\ pc[t] \in {"unbinding", "done"} => cap[t] # "live"
  /\ executions[t] <= 1
  /\ executions[t] # 0 => cap[t] = "revoked" \/ (cap[t] = "live" /\ consumed[t])

\* The turns in the tail hold or wait for the registration, in their order.
InTail(t) == \E i \in 1..Len(mcpTail) : mcpTail[i] = t
TailAgrees ==
  /\ \A i, j \in 1..Len(mcpTail) : mcpTail[i] = mcpTail[j] => i = j
  /\ \A t \in Turns : InTail(t) => cap[t] # "none" /\ pc[t] \notin {"idle", "discovering", "done"}
  /\ \A t \in Turns : InTail(t) /\ pc[t] # "waiting" => t = mcpTail[1]
  /\ \A t \in Turns : pc[t] \in {"waiting", "binding"} => InTail(t)
  /\ \A t \in Turns : t \in bound => cap[t] # "none" /\ (cap[t] = "live" => InTail(t) /\ pc[t] # "waiting")

TurnAgrees(t) == CallAgrees(t) /\ JournalAgrees(t) /\ RowAgrees(t) /\ RetryAgrees(t) /\ GrantAgrees(t)

IInv == Types /\ DownIsIdle /\ OneAtATime /\ (\A t \in Turns : TurnAgrees(t)) /\ TailAgrees

-----------------------------------------------------------------------------
(* Types, of the journal, of the capabilities and of what is in memory. *)

TurnStates == {"none", "running", "complete", "failed"}
Dispositions == {"none", "completed", "outcome_unknown", "failed", "read_only", "budget_exhausted"}
SessionStates == {"none", "creating", "available", "lost", "closed"}
Actions == {"none", "committed", "rolled_back"} \cup Open

JournalTypes ==
  /\ usable \in [Conversations -> {"active", "archived", "owner_archived"}]
  /\ turn \in [Turns -> TurnStates] /\ disposition \in [Turns -> Dispositions]
  /\ retryable \in [Turns -> BOOLEAN]
  /\ generation \in [Conversations -> Nat] /\ session \in [Conversations -> SessionStates]
  /\ action \in [Turns -> Actions] /\ tool \in [Turns -> {"none"} \cup Tools]
  /\ effect \in [Turns -> {"none", "running", "cut", "done"}]

GrantTypes ==
  /\ cap \in [Turns -> {"none", "live", "revoked"}] /\ capGen \in [Turns -> Nat]
  /\ approved \in [Turns -> {"none"} \cup Arguments]
  /\ rejected \in [Turns -> BOOLEAN] /\ consumed \in [Turns -> BOOLEAN]

MemoryTypes ==
  /\ server \in {"down", "recovering", "up"} /\ boot \in 0..MaxBoots
  /\ pc \in [Turns -> PcState]
  /\ phase \in [Turns -> {"idle", "read_only", "timeout", "interrupted", "failed"}]
  /\ control \in [Turns -> {"open", "stopping", "terminal"}]
  /\ resume \in [Turns -> {"free", "looking", "answering"}]
  /\ stop \in [Turns -> {"none", "waiting", "stopping"}]
  /\ call \in [Turns -> {"idle", "checking"} \cup SyncCall]
  /\ retryOf \in [Turns -> Nat] /\ executions \in [Turns -> Nat]
  /\ bound \subseteq Turns /\ mcpTail \in Seq(Turns)

LEMMA TypesAre == Types <=> JournalTypes /\ GrantTypes /\ MemoryTypes
BY DEF Types, TypeOK, JournalTypes, GrantTypes, MemoryTypes, TurnStates, Dispositions, SessionStates, Actions

LEMMA TurnsBelong ==
  ASSUME NEW t \in Turns
  PROVE  ConversationOf(t) \in Conversations /\ t[2] \in Nat \ {0} /\ t = <<ConversationOf(t), t[2]>>
BY TurnsAssumption DEF ConversationOf

Archives(c) ==
  /\ \E how \in {"archived", "owner_archived"} : usable' = [usable EXCEPT ![c] = how]
  /\ UNCHANGED <<turnRows, sessionRows, actionRows>>

\* Every operation of the journal.
JournalStep ==
  \/ \E t \in Turns :
       \/ StartAgentTurn(t)
       \/ \E r \in Dispositions : CompleteAgentTurn(t, r) \/ FailAgentTurn(t, r)
       \/ \E kind \in Tools : RecordAction(t, kind)
       \/ \E from, to \in Actions : TransitionAction(t, from, to)
       \/ StartTechnicalCheck(t) \/ FinishTechnicalCheck(t) \/ CommitEffect(t) \/ CommitReceiptBacked(t)
  \/ \E c \in Conversations :
       \/ BeginSessionGeneration(c) \/ \E from, to \in SessionStates : SessionStep(c, from, to)
       \/ Archives(c)
  \/ SettleStaging \/ LoseSessionsAndChecks \/ UNCHANGED journalVars

LEMMA JournalTyped ==
  ASSUME JournalTypes, JournalStep
  PROVE  JournalTypes'
<1> USE DEF JournalTypes, journalVars, turnRows, sessionRows, actionRows
<1>1. ASSUME NEW t \in Turns, StartAgentTurn(t) PROVE JournalTypes'
  BY <1>1 DEF StartAgentTurn, TurnStates
<1>2. ASSUME NEW t \in Turns, NEW r \in Dispositions, CompleteAgentTurn(t, r) PROVE JournalTypes'
  BY <1>2 DEF CompleteAgentTurn, TurnStates
<1>3. ASSUME NEW t \in Turns, NEW r \in Dispositions, FailAgentTurn(t, r) PROVE JournalTypes'
  BY <1>3 DEF FailAgentTurn, TurnStates
<1>4. ASSUME NEW t \in Turns, NEW kind \in Tools, RecordAction(t, kind) PROVE JournalTypes'
  BY <1>4 DEF RecordAction, Actions, Open
<1>5. ASSUME NEW t \in Turns, NEW from \in Actions, NEW to \in Actions, TransitionAction(t, from, to)
      PROVE JournalTypes'
  BY <1>5 DEF TransitionAction
<1>6. ASSUME NEW t \in Turns,
             StartTechnicalCheck(t) \/ FinishTechnicalCheck(t) \/ CommitEffect(t) \/ CommitReceiptBacked(t)
      PROVE JournalTypes'
  BY <1>6 DEF StartTechnicalCheck, FinishTechnicalCheck, CommitEffect, CommitReceiptBacked, Actions
<1>7. ASSUME NEW c \in Conversations, BeginSessionGeneration(c) PROVE JournalTypes'
  BY <1>7 DEF BeginSessionGeneration, SessionStates
<1>8. ASSUME NEW c \in Conversations, NEW from \in SessionStates, NEW to \in SessionStates,
             SessionStep(c, from, to)
      PROVE JournalTypes'
  BY <1>8 DEF SessionStep
<1>9. CASE SettleStaging
  BY <1>9 DEF SettleStaging, Actions
<1>10. CASE LoseSessionsAndChecks
  BY <1>10 DEF LoseSessionsAndChecks, SessionStates
<1>11. CASE UNCHANGED journalVars
  BY <1>11
<1>12. ASSUME NEW c \in Conversations, Archives(c) PROVE JournalTypes'
  BY <1>12 DEF Archives
<1>13. QED
  BY <1>1, <1>2, <1>3, <1>4, <1>5, <1>6, <1>7, <1>8, <1>9, <1>10, <1>11, <1>12 DEF JournalStep

\* Every operation on capabilities.
GrantStep ==
  \/ \E t \in Turns :
       \/ \E g \in Nat : cap[t] = "none" /\ Grant(t, g)
       \/ \E args \in Arguments : Authorize(t, args)
       \/ RejectCall(t) \/ Consume(t) \/ ForgetGrant(t)
  \/ \E ts \in SUBSET Turns : RevokeAll(ts)
  \/ ForgetGrants \/ UNCHANGED grantVars

LEMMA RevokeTyped ==
  ASSUME GrantTypes, NEW ts, RevokeAll(ts)
  PROVE  GrantTypes'
BY DEF GrantTypes, RevokeAll

LEMMA GrantTyped ==
  ASSUME GrantTypes, GrantStep
  PROVE  GrantTypes'
<1> USE DEF GrantTypes
<1>1. ASSUME NEW t \in Turns, NEW g \in Nat, Grant(t, g) PROVE GrantTypes'
  BY <1>1 DEF Grant
<1>2. ASSUME NEW t \in Turns, NEW args \in Arguments, Authorize(t, args) PROVE GrantTypes'
  BY <1>2, RevokeTyped DEF Authorize, Revoke, grantVars
<1>3. ASSUME NEW t \in Turns, RejectCall(t) PROVE GrantTypes'
  BY <1>3 DEF RejectCall
<1>4. ASSUME NEW t \in Turns, Consume(t) PROVE GrantTypes'
  BY <1>4 DEF Consume
<1>5. ASSUME NEW t \in Turns, ForgetGrant(t) PROVE GrantTypes'
  BY <1>5 DEF ForgetGrant
<1>6. CASE ForgetGrants
  BY <1>6 DEF ForgetGrants
<1>7. QED
  BY <1>1, <1>2, <1>3, <1>4, <1>5, <1>6, RevokeTyped DEF GrantStep, grantVars
-----------------------------------------------------------------------------
(* Families of steps, by what they do to the rows, to the capabilities and to *)
(* what is in memory.                                                         *)

Phases == {"idle", "read_only", "timeout", "interrupted", "failed"}

SessionOp(c) ==
  MarkSessionLost(c) \/ BeginSessionGeneration(c) \/ ActivateSession(c) \/ FailSessionGeneration(c)

\* A turn ends in the store.
EndsInStore(t) ==
  /\ \/ \E v \in BOOLEAN : pc[t] = "answered" /\ CompleteAgentTurn(t, VerifyAgentGoal(t, "idle", v))
     \/ \E v \in BOOLEAN : pc[t] = "ending" /\ FailAgentTurn(t, VerifyAgentGoal(t, phase[t], v))
  /\ Terminal(t)
  /\ UNCHANGED <<grantVars, bound, mcpTail>>

\* Or it goes on.
GoesOn(t) ==
  /\ UNCHANGED <<service, control, resume, stop, call, history>>
  /\ \E p \in PcState \ {"idle", "discovering"} :
       /\ pc' = [pc EXCEPT ![t] = p]
       /\ p = "answered" => control[t] = "open"
       /\ p = "unbinding" => Revoke(t)
       /\ p = "done" => pc[t] = "unbinding" /\ cap' = cap
  /\ UNCHANGED phase \/ \E o \in Phases : phase' = [phase EXCEPT ![t] = o]
  /\ UNCHANGED journalVars \/ SessionOp(ConversationOf(t))
  /\ UNCHANGED grantVars \/ (cap[t] = "none" /\ Grant(t, generation[ConversationOf(t)]))
       \/ Revoke(t) \/ ForgetGrant(t)

LEMMA TurnFamily ==
  ASSUME NEW t \in Turns, TurnSteps(t)
  PROVE  EndsInStore(t) \/ GoesOn(t)
BY DEF TurnSteps, EndsInStore, GoesOn, Discovered, SessionFound, SessionMissing,
       BeginGeneration, BeginRefused, SessionCreated, SessionNotCreated, PrepareTurn, Prompting,
       PrepareRefused, PrepareAborted, AcquireScopedMcp, ScopedMcpBound, BindFails,
       PromptSubmitted, GenerationChanged, PromptAnswers, CompletionRefused, SnapshotRuntime,
       ReleaseCapability, UnbindScopedMcp, EnsureReadOnly, PromptFails, CompleteTurn, FailTurn,
       MoveOnly, Move, EndAs, Aborted, SessionOp, PcState, SyncTurn, Phases, EnsureAt, ControlOpen,
       ForgetGrant, grantVars

\* A tool call that was accepted.
JournalCall(t) ==
  /\ \/ \E from, to \in Actions : TransitionAction(t, from, to)
     \/ StartTechnicalCheck(t) \/ FinishTechnicalCheck(t) \/ CommitEffect(t) \/ CommitReceiptBacked(t)
     \/ UNCHANGED journalVars
  /\ \E to \in {"idle", "checking"} \cup SyncCall : call' = [call EXCEPT ![t] = to]
  /\ UNCHANGED <<service, pc, phase, control, resume, stop, history, mcpTail, bound, grantVars>>

LEMMA CallFamily ==
  ASSUME NEW t \in Turns, CallSteps(t)
  PROVE  JournalCall(t)
BY DEF CallSteps, JournalCall, AuthorizeAction, StageAction, Execute, StartCheck, CheckDone,
       CommitAction, ExecuteFails, OperationThrows, CallStep, SyncCall, Actions, Open, history

\* A tool call that OpenCode makes.
AcceptsCall(t) ==
  /\ UNCHANGED grantVars \/ RejectCall(t) \/ Consume(t)
  /\ UNCHANGED journalVars \/ \E kind \in Tools : RecordAction(t, kind)
  /\ UNCHANGED call \/ call' = [call EXCEPT ![t] = "recorded"]
  /\ UNCHANGED executions \/ executions' = [executions EXCEPT ![t] = @ + 1]
  /\ Quiet /\ UNCHANGED <<service, pc, phase, control, resume, stop, retryOf, mcpTail, bound>>

OpenCodeCalls(t) ==
  \/ CallRejected(t) \/ CallOutOfScope(t) \/ CallProposal(t)
  \/ \E kind \in Tools : CallConsequential(t, kind)

LEMMA CallsFamily ==
  ASSUME NEW t \in Turns, OpenCodeCalls(t)
  PROVE  AcceptsCall(t)
BY DEF OpenCodeCalls, AcceptsCall, CallRejected, CallOutOfScope, CallProposal, CallConsequential,
     CallStep, turnMemory, history

LEMMA OpenCodeFamily ==
  ASSUME OpenCodeSteps
  PROVE  \E t \in Turns : OpenCodeCalls(t) /\ AcceptsCall(t)
BY CallsFamily DEF OpenCodeSteps, OpenCodeCalls

\* Commands and answers that concern a turn.
Controls(t) ==
  /\ \/ UNCHANGED <<journalVars, pc, retryOf>>
     \/ /\ StartAgentTurn(t) /\ pc' = [pc EXCEPT ![t] = "discovering"]
        /\ UNCHANGED <<grantVars, control, resume, stop>>
        /\ \/ UNCHANGED retryOf
           \/ \E x \in Earlier(t) :
                turn[x] = "failed" /\ retryable[x] /\ retryOf' = [retryOf EXCEPT ![t] = x[2]]
  /\ UNCHANGED grantVars \/ Revoke(t) \/ \E args \in Arguments : Authorize(t, args)
  /\ \/ UNCHANGED control
     \/ control[t] = "open" /\ pc[t] \notin {"idle", "done"} /\ control' = [control EXCEPT ![t] = "stopping"]
  /\ UNCHANGED resume \/ \E r \in {"free", "looking", "answering"} : resume' = [resume EXCEPT ![t] = r]
  /\ UNCHANGED stop \/ \E r \in {"none", "waiting", "stopping"} : stop' = [stop EXCEPT ![t] = r]
  /\ Quiet /\ UNCHANGED <<service, phase, call, executions, mcpTail, bound>>

LEMMA ControlFamily ==
  ASSUME NEW t \in Turns,
         \/ RunTurn(t) \/ StopTurn(t) \/ ResumeTurn(t)
         \/ \E source \in Turns : RetryTurn(t, source)
         \/ \E args \in Arguments : ResumeAuthorizes(t, args)
         \/ ResumeReturns(t) \/ StopSteps(t)
  PROVE  Controls(t)
BY DEF Controls, RunTurn, StopTurn, ResumeTurn, RetryTurn, Starts, ResumeAuthorizes, ResumeReturns,
       StopSteps, ResumeRefused, ResumeAnswered, ResumeFails, StopProceeds, StopReturns, history, turnMemory,
       Active, ControlOpen

\* Steps of the whole backend.
Backend ==
  \/ \E c \in Conversations : ArchiveConversation(c) \/ ArchiveOwner(c)
  \/ Crash \/ Startup

LEMMA Families ==
  ASSUME Next
  PROVE  \/ \E t \in Turns : TurnSteps(t) \/ CallSteps(t)
         \/ OpenCodeSteps
         \/ \E t \in Turns : Controls(t)
         \/ Backend
BY ControlFamily DEF Next, Commands, Backend

MemoryStates ==
  /\ server \in {"down", "recovering", "up"} /\ boot \in 0..MaxBoots
  /\ pc \in [Turns -> PcState] /\ phase \in [Turns -> Phases]
  /\ control \in [Turns -> {"open", "stopping", "terminal"}]
  /\ resume \in [Turns -> {"free", "looking", "answering"}]
  /\ stop \in [Turns -> {"none", "waiting", "stopping"}]
  /\ call \in [Turns -> {"idle", "checking"} \cup SyncCall]
  /\ retryOf \in [Turns -> Nat] /\ executions \in [Turns -> Nat]

LEMMA MemoryAre == MemoryTypes <=> MemoryStates /\ bound \subseteq Turns /\ mcpTail \in Seq(Turns)
BY DEF MemoryTypes, MemoryStates, Phases

LEMMA MemoryTyped ==
  ASSUME MemoryStates, Next
  PROVE  MemoryStates'
<1> USE DEF MemoryStates
<1>1. ASSUME NEW t \in Turns, TurnSteps(t) PROVE MemoryStates'
  <2>1. CASE EndsInStore(t)
    BY <2>1 DEF EndsInStore, Terminal, service, history, PcState, SyncTurn, Phases
  <2>2. CASE GoesOn(t)
    BY <2>2 DEF GoesOn, service, history
  <2>3. QED  BY <1>1, <2>1, <2>2, TurnFamily
<1>2. ASSUME NEW t \in Turns, CallSteps(t) PROVE MemoryStates'
  BY <1>2, CallFamily DEF JournalCall, service, history
<1>3. ASSUME NEW t \in Turns, AcceptsCall(t) PROVE MemoryStates'
  <2>1. executions' \in [Turns -> Nat]
    BY <1>3 DEF AcceptsCall
  <2>2. QED
    BY <1>3, <2>1 DEF AcceptsCall, service, SyncCall
<1>4. ASSUME NEW t \in Turns, Controls(t) PROVE MemoryStates'
  <2>1. retryOf' \in [Turns -> Nat]
    BY <1>4, TurnsBelong DEF Controls, Earlier
  <2>2. QED
    BY <1>4, <2>1 DEF Controls, service, PcState
<1>5. CASE Backend
  <2>1. CASE \E c \in Conversations : ArchiveConversation(c) \/ ArchiveOwner(c)
    BY <2>1 DEF ArchiveConversation, ArchiveOwner, service, turnMemory, history
  <2>2. CASE Crash
    BY <2>2 DEF Crash, history, PcState, Phases
  <2>3. CASE Boot
    BY <2>3, TurnsAssumption DEF Boot, turnMemory, history
  <2>4. CASE Reconcile \/ Serve
    BY <2>4 DEF Reconcile, Serve, service, turnMemory, history
  <2>5. QED  BY <1>5, <2>1, <2>2, <2>3, <2>4 DEF Backend, Startup
<1>6. QED
  BY <1>1, <1>2, <1>3, <1>4, <1>5, Families, OpenCodeFamily

\* What a step does to the rows and to the capabilities.
LEMMA JournalFollows ==
  ASSUME Types, Next
  PROVE  JournalStep
<1>1. ASSUME NEW t \in Turns, TurnSteps(t) PROVE JournalStep
  <2>1. \A v \in BOOLEAN, o \in Phases : VerifyAgentGoal(t, o, v) \in Dispositions
    BY DEF VerifyAgentGoal, Dispositions, Phases
  <2>2. phase[t] \in Phases /\ "idle" \in Phases
    BY DEF Types, TypeOK, Phases
  <2>3. CASE EndsInStore(t)
    BY <2>1, <2>2, <2>3 DEF EndsInStore, JournalStep
  <2>4. CASE GoesOn(t)
    BY <2>4, TurnsBelong DEF GoesOn, JournalStep, SessionOp, SessionStates, MarkSessionLost, ActivateSession, FailSessionGeneration
  <2>5. QED  BY <1>1, <2>3, <2>4, TurnFamily
<1>2. ASSUME NEW t \in Turns, CallSteps(t) PROVE JournalStep
  BY <1>2, CallFamily DEF JournalCall, JournalStep
<1>3. ASSUME NEW t \in Turns, AcceptsCall(t) PROVE JournalStep
  BY <1>3 DEF AcceptsCall, JournalStep
<1>4. ASSUME NEW t \in Turns, Controls(t) PROVE JournalStep
  BY <1>4 DEF Controls, JournalStep
<1>5. CASE Backend
  <2>1. CASE \E c \in Conversations : ArchiveConversation(c) \/ ArchiveOwner(c)
    BY <2>1 DEF ArchiveConversation, ArchiveOwner, JournalStep, Archives
  <2>2. CASE Crash \/ Boot \/ Serve
    BY <2>2 DEF Crash, Boot, Serve, JournalStep
  <2>3. CASE Reconcile
    <3>1. ASSUME NEW t \in Turns, NEW v \in BOOLEAN, FailInterruptedTurn(t, v) PROVE JournalStep
      <4>1. VerifyAgentGoal(t, "interrupted", v) \in Dispositions
        BY DEF VerifyAgentGoal, Dispositions
      <4>2. QED  BY <3>1, <4>1 DEF FailInterruptedTurn, JournalStep
    <3>2. QED  BY <2>3, <3>1 DEF Reconcile, RecoverReceiptGap, JournalStep
  <2>4. QED  BY <1>5, <2>1, <2>2, <2>3 DEF Backend, Startup
<1>6. QED
  BY <1>1, <1>2, <1>3, <1>4, <1>5, Families, OpenCodeFamily

LEMMA GrantFollows ==
  ASSUME Types, Next
  PROVE  GrantStep
<1>1. ASSUME NEW t \in Turns, TurnSteps(t) PROVE GrantStep
  <2>1. generation[ConversationOf(t)] \in Nat
    BY TurnsBelong DEF Types, TypeOK
  <2>2. QED
    BY <1>1, <2>1, TurnFamily DEF EndsInStore, GoesOn, GrantStep, Revoke
<1>2. ASSUME NEW t \in Turns, CallSteps(t) PROVE GrantStep
  BY <1>2, CallFamily DEF JournalCall, GrantStep
<1>3. ASSUME NEW t \in Turns, AcceptsCall(t) PROVE GrantStep
  BY <1>3 DEF AcceptsCall, GrantStep
<1>4. ASSUME NEW t \in Turns, Controls(t) PROVE GrantStep
  BY <1>4 DEF Controls, GrantStep, Revoke
<1>5. CASE Backend
  <2>1. ASSUME NEW c \in Conversations, ArchiveOwner(c) PROVE GrantStep
    BY <2>1 DEF ArchiveOwner, GrantStep
  <2>2. CASE \E c \in Conversations : ArchiveConversation(c)
    BY <2>2 DEF ArchiveConversation, GrantStep
  <2>3. CASE Crash \/ Startup
    BY <2>3 DEF Crash, Startup, Boot, Reconcile, Serve, GrantStep
  <2>4. QED  BY <1>5, <2>1, <2>2, <2>3 DEF Backend
<1>6. QED
  BY <1>1, <1>2, <1>3, <1>4, <1>5, Families, OpenCodeFamily
-----------------------------------------------------------------------------
(* The tail of the registration. *)

\* What a step may do to a turn without a change of the tail.
TailKeeps(t) ==
  /\ cap[t] # "none" => cap'[t] # "none"
  /\ cap'[t] = "live" => cap[t] = "live"
  /\ t \in bound' => t \in bound \/ pc[t] = "binding"
  /\ \/ pc'[t] = pc[t]
     \/ pc[t] = "idle" /\ pc'[t] = "discovering"
     \/ /\ pc'[t] \notin {"idle", "discovering", "done", "waiting"}
        /\ pc[t] = "waiting" => t = mcpTail[1]
        /\ pc'[t] = "binding" => pc[t] = "waiting"

LEMMA TailKept ==
  ASSUME TailAgrees, mcpTail' = mcpTail, \A t \in Turns : TailKeeps(t)
  PROVE  TailAgrees'
<1>1. \A t : InTail(t)' <=> InTail(t)
  BY DEF InTail
<1>2. ASSUME NEW t \in Turns
      PROVE  /\ InTail(t) => cap'[t] # "none" /\ pc'[t] \notin {"idle", "discovering", "done"}
             /\ InTail(t) /\ pc'[t] # "waiting" => t = mcpTail[1]
             /\ pc'[t] \in {"waiting", "binding"} => InTail(t)
             /\ t \in bound' => cap'[t] # "none"
             /\ t \in bound' /\ cap'[t] = "live" => InTail(t) /\ pc'[t] # "waiting"
  BY DEF TailAgrees, TailKeeps
<1>3. QED
  BY <1>1, <1>2 DEF TailAgrees

LEMMA TailGrows ==
  ASSUME TailAgrees, mcpTail \in Seq(Turns), NEW t \in Turns, pc \in [Turns -> PcState],
         cap \in [Turns -> {"none", "live", "revoked"}], PrepareTurn(t)
  PROVE  TailAgrees' /\ mcpTail' \in Seq(Turns)
<1> DEFINE n == Len(mcpTail)
<1>1. /\ mcpTail' = Append(mcpTail, t) /\ bound' = bound
      /\ cap[t] = "none" /\ cap' = [cap EXCEPT ![t] = "live"]
      /\ pc[t] = "live" /\ pc' = [pc EXCEPT ![t] = "waiting"]
  BY DEF PrepareTurn, Prompting, Grant, MoveOnly, Move
<1>2. /\ n \in Nat /\ mcpTail' \in Seq(Turns) /\ Len(mcpTail') = n + 1
      /\ \A i \in 1..n : mcpTail'[i] = mcpTail[i]
      /\ mcpTail'[n + 1] = t
  BY <1>1, LenProperties, AppendProperties
<1>3. ~InTail(t)
  BY <1>1 DEF TailAgrees
<1>4. ASSUME NEW x
      PROVE  InTail(x)' <=> InTail(x) \/ x = t
  <2>1. /\ \A i \in 1..n + 1 : i \in 1..n \/ i = n + 1
        /\ 1..n \subseteq 1..n + 1 /\ n + 1 \in 1..n + 1
    BY <1>2
  <2>2. InTail(x)' <=> \E i \in 1..n + 1 : mcpTail'[i] = x
    BY <1>2 DEF InTail
  <2>3. InTail(x) <=> \E i \in 1..n : mcpTail[i] = x
    BY DEF InTail
  <2> HIDE DEF n
  <2>4. QED
    BY <1>2, <2>1, <2>2, <2>3
<1>5. \A i, j \in 1..Len(mcpTail') : mcpTail'[i] = mcpTail'[j] => i = j
  <2>1. \A i \in 1..n + 1 : i \in 1..n \/ i = n + 1
    BY <1>2
  <2>2. \A i \in 1..n : mcpTail'[i] # t
    BY <1>2, <1>3 DEF InTail
  <2>3. \A i, j \in 1..n : mcpTail'[i] = mcpTail'[j] => i = j
    BY <1>2 DEF TailAgrees
  <2>4. QED
    BY <1>2, <2>1, <2>2, <2>3
<1>6. ASSUME NEW x \in Turns \ {t}
      PROVE  /\ InTail(x)' => cap'[x] # "none" /\ pc'[x] \notin {"idle", "discovering", "done"}
             /\ InTail(x)' /\ pc'[x] # "waiting" => x = mcpTail'[1]
             /\ pc'[x] \in {"waiting", "binding"} => InTail(x)'
             /\ x \in bound' => cap'[x] # "none"
             /\ x \in bound' /\ cap'[x] = "live" => InTail(x)' /\ pc'[x] # "waiting"
  <2>1. cap'[x] = cap[x] /\ pc'[x] = pc[x] /\ (InTail(x)' <=> InTail(x))
    BY <1>1, <1>4
  <2>2. InTail(x) => mcpTail'[1] = mcpTail[1]
    BY <1>2 DEF InTail
  <2>3. QED
    BY <1>1, <2>1, <2>2 DEF TailAgrees
<1>7. t \notin bound'
  BY <1>1 DEF TailAgrees
<1>8. cap'[t] = "live" /\ pc'[t] = "waiting" /\ InTail(t)'
  BY <1>1, <1>4
<1>9. QED
  BY <1>2, <1>5, <1>6, <1>7, <1>8 DEF TailAgrees

LEMMA TailShrinks ==
  ASSUME TailAgrees, mcpTail \in Seq(Turns), NEW t \in Turns, pc \in [Turns -> PcState],
         UnbindScopedMcp(t)
  PROVE  TailAgrees' /\ mcpTail' \in Seq(Turns)
<1> DEFINE n == Len(mcpTail)
<1>1. /\ mcpTail' = LetGo(t) /\ bound' = bound \ {t} /\ cap' = cap
      /\ pc[t] = "unbinding" /\ pc' = [pc EXCEPT ![t] = "done"]
  BY DEF UnbindScopedMcp, ForgetGrant, MoveOnly, Move
<1>2. n \in Nat /\ DOMAIN mcpTail = 1..n
  BY LenProperties
<1>3. InTail(t) => n # 0 /\ mcpTail[1] = t
  BY <1>1, <1>2 DEF TailAgrees, InTail
<1>4. /\ mcpTail' \in Seq(Turns)
      /\ ~InTail(t)'
      /\ \A x \in Turns \ {t} : InTail(x)' <=> InTail(x)
      /\ \A i, j \in 1..Len(mcpTail') : mcpTail'[i] = mcpTail'[j] => i = j
  <2>1. CASE n # 0 /\ mcpTail[1] = t
    <3>1. mcpTail # <<>>
      BY <2>1, <1>2, EmptySeq
    <3>2. Head(mcpTail) = mcpTail[1]
      BY <2>1, <3>1, HeadTailProperties
    <3>3. /\ mcpTail' = Tail(mcpTail) /\ mcpTail' \in Seq(Turns) /\ Len(mcpTail') = n - 1
          /\ \A i \in 1..n - 1 : mcpTail'[i] = mcpTail[i + 1]
      BY <1>1, <2>1, <3>1, <3>2, HeadTailProperties DEF LetGo
    <3>4. \A i \in 1..n - 1 : i + 1 \in 1..n /\ i + 1 # 1
      BY <1>2
    <3>5. 1 \in 1..n /\ \A i \in 1..n : i = 1 \/ i - 1 \in 1..n - 1
      BY <1>2, <2>1
    <3>6. ~InTail(t)'
      BY <2>1, <3>3, <3>4, <3>5 DEF InTail, TailAgrees
    <3>7. ASSUME NEW x \in Turns \ {t} PROVE InTail(x)' <=> InTail(x)
      <4>1. InTail(x)' => InTail(x)
        BY <3>3, <3>4 DEF InTail
      <4>2. ASSUME InTail(x) PROVE InTail(x)'
        <5>1. PICK i \in 1..n : mcpTail[i] = x
          BY <4>2 DEF InTail
        <5>2. i - 1 \in 1..n - 1
          BY <2>1, <3>5, <5>1
        <5>3. mcpTail'[i - 1] = x
          BY <3>3, <5>1, <5>2, <1>2
        <5>4. QED
          BY <3>3, <5>2, <5>3 DEF InTail
      <4>3. QED  BY <4>1, <4>2
    <3>8. \A i, j \in 1..Len(mcpTail') : mcpTail'[i] = mcpTail'[j] => i = j
      BY <1>2, <3>3, <3>4 DEF TailAgrees
    <3>9. QED  BY <3>3, <3>6, <3>7, <3>8
  <2>2. CASE n = 0 \/ mcpTail[1] # t
    <3>1. n = 0 => mcpTail = <<>>
      BY <1>2, EmptySeq
    <3>2. mcpTail # <<>> => Head(mcpTail) = mcpTail[1]
      BY HeadTailProperties
    <3>3. n = 0 <=> mcpTail = <<>>
      BY <3>1, EmptySeq
    <3>4. mcpTail' = mcpTail
      BY <1>1, <2>2, <3>2, <3>3 DEF LetGo
    <3>5. QED
      BY <1>3, <2>2, <3>4 DEF InTail, TailAgrees
  <2>3. QED  BY <2>1, <2>2
<1>5. ASSUME NEW x \in Turns
      PROVE  /\ InTail(x)' => cap'[x] # "none" /\ pc'[x] \notin {"idle", "discovering", "done"}
             /\ InTail(x)' /\ pc'[x] # "waiting" => x = mcpTail'[1]
             /\ pc'[x] \in {"waiting", "binding"} => InTail(x)'
             /\ x \in bound' => cap'[x] # "none"
             /\ x \in bound' /\ cap'[x] = "live" => InTail(x)' /\ pc'[x] # "waiting"
  <2>1. CASE x = t
    BY <1>1, <1>4, <2>1
  <2>2. CASE x # t
    <3>1. cap'[x] = cap[x] /\ pc'[x] = pc[x] /\ (InTail(x)' <=> InTail(x)) /\ (x \in bound' <=> x \in bound)
      BY <1>1, <1>4, <2>2
    <3>2. InTail(x) /\ pc[x] # "waiting" => x = mcpTail'[1]
      <4>1. InTail(t) => ~(InTail(x) /\ pc[x] # "waiting")
        BY <1>3, <2>2 DEF TailAgrees
      <4>2. ~InTail(t) => mcpTail' = mcpTail
        <5>1. ASSUME ~InTail(t) PROVE mcpTail = <<>> \/ Head(mcpTail) # t
          <6>1. mcpTail # <<>> => n # 0 /\ Head(mcpTail) = mcpTail[1]
            BY HeadTailProperties, EmptySeq
          <6>2. QED  BY <5>1, <6>1, <1>2 DEF InTail
        <5>2. QED  BY <1>1, <5>1 DEF LetGo
      <4>3. QED  BY <4>1, <4>2 DEF TailAgrees
    <3>3. QED
      BY <3>1, <3>2 DEF TailAgrees
  <2>3. QED  BY <2>1, <2>2
<1>6. QED
  BY <1>4, <1>5 DEF TailAgrees

\* The steps of a turn that do not touch the tail.
LEMMA OtherSteps ==
  ASSUME NEW t \in Turns, TurnSteps(t), ~PrepareTurn(t), ~UnbindScopedMcp(t)
  PROVE  /\ mcpTail' = mcpTail
         /\ \E p \in PcState \ {"idle", "discovering", "done", "waiting"} :
              /\ pc' = [pc EXCEPT ![t] = p]
              /\ pc[t] = "waiting" => Head(mcpTail) = t
              /\ p = "binding" => pc[t] = "waiting"
         /\ UNCHANGED grantVars \/ Revoke(t)
         /\ bound' \subseteq bound \/ (pc[t] = "binding" /\ bound' \subseteq bound \cup {t})
BY DEF TurnSteps, Discovered, SessionFound, SessionMissing,
       BeginGeneration, BeginRefused, SessionCreated, SessionNotCreated,
       PrepareRefused, PrepareAborted, AcquireScopedMcp, ScopedMcpBound, BindFails,
       PromptSubmitted, GenerationChanged, PromptAnswers, CompletionRefused, SnapshotRuntime,
       ReleaseCapability, EnsureReadOnly, PromptFails, CompleteTurn, FailTurn, EnsureAt,
       MoveOnly, Move, EndAs, Aborted, Terminal, PcState, SyncTurn

LEMMA TailInductive ==
  ASSUME IInv, Next
  PROVE  TailAgrees' /\ mcpTail' \in Seq(Turns)
<1>1. /\ pc \in [Turns -> PcState] /\ cap \in [Turns -> {"none", "live", "revoked"}]
      /\ mcpTail \in Seq(Turns) /\ TailAgrees /\ DownIsIdle
  BY DEF IInv, Types, TypeOK
<1>2. ASSUME mcpTail' = mcpTail, \A t \in Turns : TailKeeps(t) PROVE TailAgrees' /\ mcpTail' \in Seq(Turns)
  BY <1>1, <1>2, TailKept
<1>3. ASSUME NEW ts, RevokeAll(ts), NEW x \in Turns
      PROVE  (cap[x] # "none" => cap'[x] # "none") /\ (cap'[x] = "live" => cap[x] = "live")
  BY <1>3 DEF RevokeAll
<1>4. ASSUME NEW t \in Turns, TurnSteps(t) PROVE TailAgrees' /\ mcpTail' \in Seq(Turns)
  <2>1. CASE PrepareTurn(t)
    BY <1>1, <2>1, TailGrows
  <2>2. CASE UnbindScopedMcp(t)
    BY <1>1, <2>2, TailShrinks
  <2>3. CASE ~PrepareTurn(t) /\ ~UnbindScopedMcp(t)
    <3>1. PICK p \in PcState \ {"idle", "discovering", "done", "waiting"} :
            /\ pc' = [pc EXCEPT ![t] = p]
            /\ pc[t] = "waiting" => Head(mcpTail) = t
            /\ p = "binding" => pc[t] = "waiting"
      BY <1>4, <2>3, OtherSteps
    <3>2. /\ mcpTail' = mcpTail
          /\ UNCHANGED grantVars \/ Revoke(t)
          /\ bound' \subseteq bound \/ (pc[t] = "binding" /\ bound' \subseteq bound \cup {t})
      BY <1>4, <2>3, OtherSteps
    <3>3. \A x \in Turns : (cap[x] # "none" => cap'[x] # "none") /\ (cap'[x] = "live" => cap[x] = "live")
      BY <1>3, <3>2 DEF Revoke, grantVars
    <3>4. pc[t] = "waiting" => t = mcpTail[1]
      <4>1. pc[t] = "waiting" => mcpTail # <<>>
        BY <1>1, EmptySeq DEF TailAgrees, InTail
      <4>2. QED  BY <1>1, <3>1, <4>1, HeadTailProperties
    <3>5. \A x \in Turns : TailKeeps(x)
      BY <1>1, <3>1, <3>2, <3>3, <3>4 DEF TailKeeps
    <3>6. QED  BY <1>2, <3>2, <3>5
  <2>4. QED  BY <2>1, <2>2, <2>3
<1>5. ASSUME NEW t \in Turns, CallSteps(t) PROVE TailAgrees' /\ mcpTail' \in Seq(Turns)
  BY <1>2, <1>5, CallFamily DEF JournalCall, TailKeeps, grantVars
<1>6. ASSUME NEW t \in Turns, AcceptsCall(t) PROVE TailAgrees' /\ mcpTail' \in Seq(Turns)
  <2>1. cap' = cap
    BY <1>6 DEF AcceptsCall, grantVars, RejectCall, Consume
  <2>2. QED  BY <1>2, <1>6, <2>1 DEF AcceptsCall, TailKeeps
<1>7. ASSUME NEW t \in Turns, Controls(t), pc' = pc \/ pc[t] = "idle" PROVE TailAgrees' /\ mcpTail' \in Seq(Turns)
  <2>1. \A x \in Turns : (cap[x] # "none" => cap'[x] # "none") /\ (cap'[x] = "live" => cap[x] = "live")
    BY <1>3, <1>7 DEF Controls, Authorize, Revoke, grantVars
  <2>2. \A x \in Turns : TailKeeps(x)
    BY <1>1, <1>7, <2>1 DEF Controls, TailKeeps
  <2>3. QED  BY <1>2, <1>7, <2>2 DEF Controls
<1>8. CASE Backend
  <2>1. ASSUME NEW c \in Conversations, ArchiveConversation(c) \/ ArchiveOwner(c) PROVE TailAgrees' /\ mcpTail' \in Seq(Turns)
    <3>1. UNCHANGED <<pc, bound, mcpTail>> /\ (UNCHANGED grantVars \/ \E ts : RevokeAll(ts))
      BY <2>1 DEF ArchiveConversation, ArchiveOwner, turnMemory
    <3>2. \A x \in Turns : TailKeeps(x)
      BY <1>3, <3>1 DEF TailKeeps, grantVars
    <3>3. QED  BY <1>2, <3>1, <3>2
  <2>2. CASE Crash
    BY <1>1, <2>2, EmptySeq DEF Crash, TailAgrees, InTail
  <2>3. CASE Startup
    <3>1. UNCHANGED <<pc, bound, mcpTail, cap>>
      BY <2>3 DEF Startup, Boot, Reconcile, Serve, turnMemory, grantVars
    <3>2. QED  BY <1>2, <3>1 DEF TailKeeps
  <2>4. QED  BY <1>8, <2>1, <2>2, <2>3 DEF Backend
<1>9. ASSUME NEW t \in Turns, Controls(t) PROVE pc' = pc \/ pc[t] = "idle"
  BY <1>9 DEF Controls, StartAgentTurn, IInv, TurnAgrees, RowAgrees
<1>10. QED
  BY <1>4, <1>5, <1>6, <1>7, <1>8, <1>9, Families, OpenCodeFamily
-----------------------------------------------------------------------------
(* The event loop. *)

LEMMA TurnStepServed ==
  ASSUME NEW t \in Turns, TurnSteps(t)
  PROVE  /\ pc[t] \notin {"idle", "done"} /\ (Quiet \/ pc[t] \in SyncTurn)
         /\ \E p \in PcState : pc' = [pc EXCEPT ![t] = p]
         /\ UNCHANGED <<service, call>>
BY DEF TurnSteps, Discovered, SessionFound, SessionMissing, BeginGeneration, BeginRefused,
       SessionCreated, SessionNotCreated, PrepareTurn, PrepareRefused, PrepareAborted,
       AcquireScopedMcp, ScopedMcpBound, BindFails, PromptSubmitted, GenerationChanged,
       PromptAnswers, CompletionRefused, SnapshotRuntime, ReleaseCapability, UnbindScopedMcp,
       EnsureReadOnly, PromptFails, CompleteTurn, FailTurn, EnsureAt, MoveOnly, Move, EndAs,
       Aborted, Terminal, PcState, SyncTurn

LEMMA CallStepServed ==
  ASSUME NEW t \in Turns, CallSteps(t)
  PROVE  (Quiet /\ call[t] # "idle") \/ call[t] \in SyncCall
BY DEF CallSteps, AuthorizeAction, StageAction, Execute, StartCheck, CheckDone,
       CommitAction, ExecuteFails, OperationThrows, CallStep, SyncCall

LEMMA LoopInductive ==
  ASSUME IInv, Next
  PROVE  DownIsIdle' /\ OneAtATime'
<1>1. /\ pc \in [Turns -> PcState] /\ call \in [Turns -> {"idle", "checking"} \cup SyncCall]
      /\ DownIsIdle /\ OneAtATime
  BY DEF IInv, Types, TypeOK
<1>2. ASSUME NEW t \in Turns, TurnSteps(t) PROVE DownIsIdle' /\ OneAtATime'
  <2>1. /\ pc[t] \notin {"idle", "done"} /\ (Quiet \/ pc[t] \in SyncTurn)
        /\ UNCHANGED <<server, call>>
        /\ \A x \in Turns \ {t} : pc'[x] = pc[x]
    BY <1>1, <1>2, TurnStepServed DEF service
  <2>2. DownIsIdle'
    BY <1>1, <2>1 DEF DownIsIdle
  <2>3. OneAtATime'
    BY <1>1, <2>1 DEF OneAtATime, Quiet
  <2>4. QED  BY <2>2, <2>3
<1>3. ASSUME NEW t \in Turns, CallSteps(t) PROVE DownIsIdle' /\ OneAtATime'
  <2>1. /\ (Quiet /\ call[t] # "idle") \/ call[t] \in SyncCall
        /\ UNCHANGED <<server, pc>>
        /\ \A x \in Turns \ {t} : call'[x] = call[x]
    BY <1>1, <1>3, CallStepServed, CallFamily DEF service, JournalCall
  <2>2. DownIsIdle'
    BY <1>1, <2>1 DEF DownIsIdle, SyncCall
  <2>3. OneAtATime'
    BY <1>1, <2>1 DEF OneAtATime, Quiet
  <2>4. QED  BY <2>2, <2>3
<1>4. ASSUME NEW t \in Turns, AcceptsCall(t) PROVE DownIsIdle' /\ OneAtATime'
  <2>1. Quiet /\ UNCHANGED <<server, pc>> /\ \A x \in Turns \ {t} : call'[x] = call[x]
    BY <1>1, <1>4 DEF service, AcceptsCall
  <2>2. QED
    BY <1>1, <2>1 DEF DownIsIdle, OneAtATime, Quiet
<1>5. ASSUME NEW t \in Turns, Controls(t) PROVE DownIsIdle' /\ OneAtATime'
  <2>1. Quiet /\ UNCHANGED <<server, call>> /\ \A x \in Turns : pc'[x] \in {pc[x], "discovering"}
    BY <1>1, <1>5 DEF service, Controls
  <2>2. QED
    BY <1>1, <2>1 DEF DownIsIdle, OneAtATime, Quiet, SyncTurn
<1>6. CASE Backend
  <2>1. ASSUME NEW c \in Conversations, ArchiveConversation(c) \/ ArchiveOwner(c) PROVE DownIsIdle' /\ OneAtATime'
    BY <1>1, <2>1 DEF ArchiveConversation, ArchiveOwner, Quiet, service, turnMemory, DownIsIdle, OneAtATime
  <2>2. CASE Crash
    <3>1. DownIsIdle'
      BY <2>2 DEF Crash, DownIsIdle, ForgetGrants
    <3>2. OneAtATime'
      BY <2>2 DEF Crash, OneAtATime, SyncTurn, SyncCall
    <3>3. QED  BY <3>1, <3>2
  <2>3. CASE Startup
    BY <1>1, <2>3 DEF Startup, Boot, Reconcile, Serve, DownIsIdle, OneAtATime, service, turnMemory, grantVars
  <2>4. QED  BY <1>6, <2>1, <2>2, <2>3 DEF Backend
<1>7. QED
  BY <1>2, <1>3, <1>4, <1>5, <1>6, Families, OpenCodeFamily
-----------------------------------------------------------------------------
(* What a turn's variables say of each other. *)

Own(t) == JournalAgrees(t) /\ RowAgrees(t) /\ GrantAgrees(t)

\* Nothing happens to what a turn has.
Rests(x) ==
  /\ turn'[x] = turn[x] /\ disposition'[x] = disposition[x] /\ retryable'[x] = retryable[x]
  /\ action'[x] = action[x] /\ tool'[x] = tool[x] /\ effect'[x] = effect[x]
  /\ call'[x] = call[x] /\ pc'[x] = pc[x] /\ control'[x] = control[x]
  /\ executions'[x] = executions[x]

\* At most its capability is revoked, or its approval used.
GrantRests(x) ==
  \/ cap'[x] = cap[x] /\ (consumed[x] => consumed'[x])
  \/ cap[x] = "live" /\ cap'[x] = "revoked"

LEMMA RestAgrees ==
  ASSUME NEW x, Rests(x), GrantRests(x), server' = server, Own(x)
  PROVE  Own(x)'
BY DEF Rests, GrantRests, Own, JournalAgrees, RowAgrees, GrantAgrees

LEMMA RevokeRests ==
  ASSUME NEW ts, RevokeAll(ts), NEW x \in Turns, GrantTypes
  PROVE  GrantRests(x)
BY DEF RevokeAll, GrantRests, GrantTypes

LEMMA OwnInTurns ==
  ASSUME IInv, NEW t \in Turns, TurnSteps(t), NEW x \in Turns
  PROVE  Own(x)'
<1> USE DEF IInv, TurnAgrees, Own
<1>1. Types /\ GrantTypes /\ JournalTypes /\ MemoryStates
  BY TypesAre, MemoryAre
<1>2. server = "up" /\ server' = server /\ call' = call
  BY TurnStepServed DEF DownIsIdle, service
<1>3. CASE EndsInStore(t)
  <2>1. UNCHANGED <<actionRows, executions, grantVars>>
    BY <1>3 DEF EndsInStore, Terminal, CompleteAgentTurn, FailAgentTurn, history
  <2>2. CASE x # t
    <3>1. Rests(x)
      BY <1>1, <1>2, <1>3, <2>1, <2>2
      DEF Rests, EndsInStore, Terminal, CompleteAgentTurn, FailAgentTurn, actionRows, JournalTypes, MemoryStates
    <3>2. QED
      BY <1>2, <2>1, <3>1, RestAgrees DEF GrantRests, grantVars
  <2>3. CASE x = t
    <3>1. /\ turn[t] = "running" /\ turn'[t] \in {"complete", "failed"} /\ pc'[t] = "terminal" /\ control'[t] = "terminal"
          /\ pc[t] \in {"answered", "ending"}
      BY <1>1, <1>3 DEF EndsInStore, Terminal, CompleteAgentTurn, FailAgentTurn, JournalTypes, MemoryStates
    <3>2. JournalAgrees(t)'
      BY <1>2, <2>1, <3>1 DEF JournalAgrees, actionRows
    <3>3. GrantAgrees(t)'
      BY <2>1, <3>1 DEF GrantAgrees, grantVars
    <3>4. call[t] \in {"idle", "checking"}
      BY <1>1, <3>1 DEF OneAtATime, SyncTurn, MemoryStates
    <3>5. call[t] = "checking" => action[t] = "staging"
      BY DEF CallAgrees
    <3>6. action[t] \notin Open => call[t] = "idle"
      BY <3>4, <3>5 DEF Open
    <3>7. ASSUME NEW v \in BOOLEAN, CompleteAgentTurn(t, VerifyAgentGoal(t, "idle", v)) PROVE RowAgrees(t)'
      <4>1. turn'[t] = "complete" /\ disposition'[t] = VerifyAgentGoal(t, "idle", v)
        BY <1>1, <3>7 DEF CompleteAgentTurn, JournalTypes
      <4>2. disposition'[t] = "completed" => action[t] \notin Open
        BY <4>1 DEF VerifyAgentGoal
      <4>3. QED
        BY <2>1, <3>1, <4>1, <4>2 DEF RowAgrees, actionRows
    <3>8. ASSUME NEW v \in BOOLEAN, FailAgentTurn(t, VerifyAgentGoal(t, phase[t], v)) PROVE RowAgrees(t)'
      <4> DEFINE r == VerifyAgentGoal(t, phase[t], v)
      <4>1. /\ turn'[t] = "failed" /\ disposition'[t] = r /\ retryable'[t] = (r \in RetryableFailures)
            /\ r # "completed"
        BY <1>1, <3>8 DEF FailAgentTurn, JournalTypes
      <4>2. phase[t] \in Phases
        BY <1>1 DEF MemoryStates
      <4>3. r \in RetryableFailures => action[t] \in {"none", "rolled_back"}
        BY <1>1, <4>2 DEF VerifyAgentGoal, RetryableFailures, Phases, JournalTypes, Actions
      <4>4. action[t] \in {"none", "rolled_back"} => effect[t] = "none"
        BY <1>2, <3>1 DEF JournalAgrees
      <4>5. action[t] \in {"none", "rolled_back"} => call[t] = "idle"
        BY <3>6 DEF Open
      <4>6. QED
        BY <1>2, <2>1, <3>1, <4>1, <4>3, <4>4, <4>5 DEF RowAgrees, actionRows
    <3>9. QED  BY <1>3, <2>3, <3>2, <3>3, <3>7, <3>8 DEF EndsInStore
  <2>4. QED  BY <2>2, <2>3
<1>4. CASE GoesOn(t)
  <2>1. /\ UNCHANGED <<control, executions>>
        /\ UNCHANGED <<turn, disposition, retryable, action, tool, effect>>
    BY <1>4 DEF GoesOn, history, journalVars, turnRows, actionRows, SessionOp, MarkSessionLost,
                BeginSessionGeneration, ActivateSession, FailSessionGeneration, SessionStep
  <2>2. CASE x # t
    <3>1. pc'[x] = pc[x]
      BY <1>1, <1>4, <2>2 DEF GoesOn, MemoryStates
    <3>2. GrantRests(x)
      BY <1>1, <1>4, <2>2, RevokeRests DEF GoesOn, GrantTypes, grantVars, Grant, Revoke, ForgetGrant, GrantRests
    <3>3. QED
      BY <1>2, <2>1, <3>1, <3>2, RestAgrees DEF Rests
  <2>3. CASE x = t
    <3>1. PICK p \in PcState \ {"idle", "discovering"} :
             /\ pc' = [pc EXCEPT ![t] = p]
             /\ p = "answered" => control[t] = "open"
             /\ p = "unbinding" => Revoke(t)
             /\ p = "done" => pc[t] = "unbinding" /\ cap' = cap
      BY <1>4 DEF GoesOn
    <3>2. pc'[t] = p /\ pc[t] # "idle"
      BY <1>1, <3>1, TurnStepServed DEF MemoryStates
    <3>3. RowAgrees(t)'
      BY <1>2, <2>1, <3>1, <3>2 DEF RowAgrees
    <3>4. JournalAgrees(t)'
      BY <1>2, <2>1 DEF JournalAgrees
    <3>5. \/ GrantRests(t) \/ cap[t] = "none"
      BY <1>1, <1>4, RevokeRests DEF GoesOn, grantVars, Revoke, ForgetGrant, GrantRests
    <3>6. p = "unbinding" => cap'[t] # "live"
      BY <1>1, <3>1 DEF Revoke, RevokeAll
    <3>7. p = "done" => cap'[t] # "live"
      BY <3>1 DEF GrantAgrees
    <3>8. GrantAgrees(t)'
      BY <2>1, <3>2, <3>5, <3>6, <3>7 DEF GrantAgrees, GrantRests
    <3>9. QED  BY <2>3, <3>3, <3>4, <3>8
  <2>4. QED  BY <2>2, <2>3
<1>5. QED
  BY <1>3, <1>4, TurnFamily

\* A call that runs on, with what it makes of its action.
LEMMA CallMoves ==
  ASSUME IInv, NEW t \in Turns, CallSteps(t)
  PROVE  (CallAgrees(t) /\ JournalAgrees(t))' /\ call[t] # "idle"
<1> USE DEF IInv, TurnAgrees
<1>1. JournalTypes /\ MemoryStates /\ server = "up" /\ CallAgrees(t) /\ JournalAgrees(t)
  <2>1. call[t] # "idle"
    BY CallStepServed DEF SyncCall
  <2>2. QED  BY <2>1, TypesAre, MemoryAre DEF DownIsIdle
<1>2. UNCHANGED <<usable, turn, sessionRows, capGen, server>>
  BY CallFamily DEF CallSteps, JournalCall, TransitionAction, StartTechnicalCheck, FinishTechnicalCheck,
     CommitEffect, CommitReceiptBacked, journalVars, turnRows, service, grantVars
<1>3. ActiveAgentToolGrant(t, capGen[t])' <=> ActiveAgentToolGrant(t, capGen[t])
  BY <1>2 DEF ActiveAgentToolGrant, sessionRows
<1> USE DEF JournalTypes, MemoryStates, CallStep, TransitionAction, CallAgrees
<1>4. CASE AuthorizeAction(t) \/ StageAction(t)
  <2>1. /\ UNCHANGED <<tool, effect>>
        /\ \/ call[t] = "recorded" /\ call'[t] = "authorized" /\ action'[t] = "authorized"
           \/ call[t] = "authorized" /\ call'[t] = "staged" /\ action'[t] = "staging"
    BY <1>1, <1>4 DEF AuthorizeAction, StageAction
  <2>2. QED
    BY <1>1, <1>2, <1>3, <2>1 DEF JournalAgrees
<1>5. CASE Execute(t)
  <2>1. /\ UNCHANGED <<tool, action>> /\ tool[t] # "check"
        /\ call[t] = "staged" /\ call'[t] = "effected" /\ effect'[t] = "done"
    BY <1>1, <1>5 DEF Execute, CommitEffect
  <2>2. QED
    BY <1>1, <1>2, <2>1 DEF JournalAgrees
<1>6. CASE StartCheck(t)
  <2>1. /\ UNCHANGED <<tool, action>> /\ tool[t] = "check"
        /\ call[t] = "staged" /\ call'[t] = "checking" /\ effect'[t] = "running"
    BY <1>1, <1>6 DEF StartCheck, StartTechnicalCheck
  <2>2. QED
    BY <1>1, <1>2, <2>1 DEF JournalAgrees
<1>7. CASE CheckDone(t)
  <2>1. /\ UNCHANGED <<tool, action>>
        /\ call[t] = "checking" /\ call'[t] = "checked" /\ effect'[t] = "done"
    BY <1>1, <1>7 DEF CheckDone, FinishTechnicalCheck
  <2>2. QED
    BY <1>1, <1>2, <2>1 DEF JournalAgrees
<1>8. CASE CommitAction(t)
  <2>1. /\ UNCHANGED <<tool, effect>> /\ call[t] \in {"checked", "effected"}
        /\ call'[t] = "idle" /\ action'[t] = "committed"
    BY <1>1, <1>8 DEF CommitAction, CommitReceiptBacked
  <2>2. QED
    BY <1>1, <1>2, <2>1 DEF JournalAgrees
<1>9. CASE ExecuteFails(t)
  <2>1. /\ UNCHANGED <<tool, effect>> /\ call[t] = "staged"
        /\ call'[t] = "idle" /\ action'[t] = "rolled_back"
    BY <1>1, <1>9 DEF ExecuteFails
  <2>2. QED
    BY <1>1, <1>2, <2>1 DEF JournalAgrees
<1>10. CASE OperationThrows(t)
  <2>1. /\ UNCHANGED <<tool, effect, action>> /\ call[t] \in {"staged", "checked", "effected"}
        /\ call'[t] = "idle"
    BY <1>1, <1>10 DEF OperationThrows, journalVars, actionRows
  <2>2. QED
    BY <1>1, <1>2, <2>1 DEF JournalAgrees
<1>11. QED
  BY <1>4, <1>5, <1>6, <1>7, <1>8, <1>9, <1>10, CallStepServed DEF CallSteps, SyncCall

LEMMA OwnInCalls ==
  ASSUME IInv, NEW t \in Turns, CallSteps(t), NEW x \in Turns
  PROVE  Own(x)'
<1> USE DEF IInv, TurnAgrees, Own
<1>1. JournalTypes /\ MemoryStates
  BY TypesAre, MemoryAre
<1>2. /\ UNCHANGED <<turn, disposition, retryable, server, pc, control, executions, grantVars>>
      /\ \A y \in Turns \ {t} : action'[y] = action[y] /\ tool'[y] = tool[y] /\ effect'[y] = effect[y] /\ call'[y] = call[y]
  BY <1>1, CallFamily DEF JournalCall, TransitionAction, StartTechnicalCheck, FinishTechnicalCheck,
     CommitEffect, CommitReceiptBacked, journalVars, turnRows, actionRows, service, history, JournalTypes, MemoryStates
<1>3. CASE x # t
  <2>1. Rests(x) /\ GrantRests(x)
    BY <1>2, <1>3 DEF Rests, GrantRests, grantVars
  <2>2. QED
    BY <1>2, <2>1, RestAgrees
<1>4. CASE x = t
  <2>1. JournalAgrees(t)' /\ call[t] # "idle"
    BY CallMoves
  <2>2. GrantAgrees(t)'
    BY <1>2 DEF GrantAgrees, grantVars
  <2>3. action[t] \in Open
    BY <1>1, <2>1 DEF CallAgrees, MemoryStates, SyncCall, Open
  <2>4. disposition[t] # "completed" /\ turn[t] # "none" /\ ~(turn[t] = "failed" /\ retryable[t])
    BY <2>1, <2>3 DEF RowAgrees
  <2>5. RowAgrees(t)'
    BY <1>2, <2>4 DEF RowAgrees
  <2>6. QED  BY <1>4, <2>1, <2>2, <2>5
<1>5. QED
  BY <1>3, <1>4

\* What OpenCode may call, and what becomes of it.
LEMMA OwnInOpenCode ==
  ASSUME IInv, NEW t \in Turns, NEW x \in Turns, OpenCodeCalls(t)
  PROVE  Own(x)'
<1> USE DEF IInv, TurnAgrees, Own, OpenCodeCalls
<1>1. JournalTypes /\ MemoryStates /\ GrantTypes
  BY TypesAre, MemoryAre
<1>2. CASE CallRejected(t) \/ CallOutOfScope(t)
  <2>1. UNCHANGED <<journalVars, service, turnMemory, history>> /\ (RejectCall(t) \/ Consume(t))
    BY <1>2 DEF CallRejected, CallOutOfScope
  <2>2. Rests(x) /\ GrantRests(x) /\ server' = server
    BY <1>1, <2>1 DEF Rests, GrantRests, RejectCall, Consume, GrantTypes, journalVars, turnRows, actionRows,
       service, turnMemory, history
  <2>3. QED  BY <2>2, RestAgrees
<1>3. ASSUME NEW kind \in Tools, RecordAction(t, kind), InScope(t), UNCHANGED <<service, pc, control>>,
             call' = [call EXCEPT ![t] = "recorded"], UNCHANGED cap
      PROVE  JournalAgrees(x)' /\ RowAgrees(x)'
  <2>1. kind # "none"
    BY TurnsAssumption
  <2>2. UNCHANGED <<turn, disposition, retryable, effect>>
    BY <1>3 DEF RecordAction, turnRows
  <2>3. CASE x # t
    BY <1>1, <1>3, <2>2, <2>3 DEF RecordAction, JournalTypes, MemoryStates, service, JournalAgrees, RowAgrees
  <2>4. CASE x = t
    <3>1. action[t] = "none" /\ action'[t] = "proposed" /\ tool'[t] = kind /\ effect[t] = "none" /\ turn[t] = "running"
          /\ call'[t] = "recorded"
      BY <1>1, <1>3 DEF RecordAction, JournalTypes, MemoryStates, JournalAgrees, InScope, ActiveAgentToolGrant
    <3>2. QED
      BY <1>3, <2>1, <2>2, <2>4, <3>1 DEF JournalAgrees, RowAgrees, service
  <2>5. QED  BY <2>3, <2>4
<1>4. CASE CallProposal(t)
  <2>1. /\ RecordAction(t, "proposal") /\ "proposal" \in Tools /\ InScope(t) /\ UNCHANGED <<service, pc, control, grantVars, executions>>
        /\ call' = [call EXCEPT ![t] = "recorded"]
    BY <1>4 DEF CallProposal, CallStep
  <2>2. GrantAgrees(x)'
    BY <2>1 DEF GrantAgrees, grantVars
  <2>3. QED  BY <1>3, <2>1, <2>2 DEF grantVars
<1>5. ASSUME NEW kind \in Tools, CallConsequential(t, kind) PROVE Own(x)'
  <2>1. /\ Consume(t) /\ executions' = [executions EXCEPT ![t] = @ + 1]
        /\ \/ /\ RecordAction(t, kind) /\ InScope(t) /\ call' = [call EXCEPT ![t] = "recorded"]
              /\ UNCHANGED <<service, pc, control>>
           \/ UNCHANGED <<journalVars, service, turnMemory>>
    BY <1>5 DEF CallConsequential, CallStep
  <2>2. UNCHANGED <<pc, cap>>
    BY <2>1 DEF Consume, turnMemory
  <2>3. GrantAgrees(x)'
    <3>1. CASE x # t
      BY <1>1, <2>1, <2>2, <3>1 DEF Consume, GrantAgrees, GrantTypes, MemoryStates
    <3>2. CASE x = t
      <4>1. cap[t] = "live" /\ ~consumed[t] /\ consumed'[t] /\ executions[t] \in Nat
        BY <1>1, <2>1 DEF Consume, Callable, GrantTypes, MemoryStates
      <4>2. executions'[t] = executions[t] + 1
        BY <1>1, <2>1 DEF MemoryStates
      <4>3. executions[t] = 0
        BY <4>1 DEF GrantAgrees
      <4>4. executions'[t] = 1
        BY <4>2, <4>3
      <4>5. QED
        BY <2>2, <3>2, <4>1, <4>4 DEF GrantAgrees
    <3>3. QED  BY <3>1, <3>2
  <2>4. JournalAgrees(x)' /\ RowAgrees(x)'
    <3>1. CASE UNCHANGED <<journalVars, service, turnMemory>>
      BY <3>1 DEF JournalAgrees, RowAgrees, journalVars, turnRows, actionRows, service, turnMemory
    <3>2. QED  BY <1>3, <2>1, <2>2, <3>1
  <2>5. QED  BY <2>3, <2>4
<1>6. QED
  BY <1>2, <1>4, <1>5

LEMMA OwnInControls ==
  ASSUME IInv, NEW t \in Turns, Controls(t), NEW x \in Turns
  PROVE  Own(x)'
<1> USE DEF IInv, TurnAgrees, Own
<1>1. JournalTypes /\ MemoryStates /\ GrantTypes
  BY TypesAre, MemoryAre
<1>2. UNCHANGED <<server, call, executions>> /\ Quiet
  BY DEF Controls, service
<1>3. CASE UNCHANGED <<journalVars, pc, retryOf>>
  <2>1. \/ UNCHANGED control
        \/ control[t] = "open" /\ pc[t] \notin {"idle", "done"} /\ control' = [control EXCEPT ![t] = "stopping"]
    BY DEF Controls
  <2>2. GrantRests(x)
    BY <1>1, RevokeRests DEF Controls, Authorize, Revoke, GrantRests, grantVars
  <2>3. UNCHANGED <<turn, disposition, retryable, action, tool, effect, pc>>
    BY <1>3 DEF journalVars, turnRows, actionRows
  <2>4. JournalAgrees(x)' /\ GrantAgrees(x)'
    BY <1>2, <2>2, <2>3 DEF JournalAgrees, GrantAgrees, GrantRests
  <2>5. RowAgrees(x)'
    BY <1>1, <1>2, <2>1, <2>3 DEF RowAgrees, Quiet, SyncTurn, MemoryStates
  <2>6. QED  BY <2>4, <2>5
<1>4. CASE /\ StartAgentTurn(t) /\ pc' = [pc EXCEPT ![t] = "discovering"]
           /\ UNCHANGED <<grantVars, control, resume, stop>>
  <2>1. UNCHANGED <<disposition, retryable, action, tool, effect, control, cap, consumed>>
    BY <1>4 DEF StartAgentTurn, actionRows, grantVars
  <2>2. CASE x # t
    <3>1. turn'[x] = turn[x] /\ pc'[x] = pc[x]
      BY <1>1, <1>4, <2>2 DEF StartAgentTurn, JournalTypes, MemoryStates
    <3>2. QED
      BY <1>2, <2>1, <3>1, RestAgrees DEF Rests, GrantRests
  <2>3. CASE x = t
    <3>1. turn[t] = "none" /\ turn'[t] = "running" /\ pc'[t] = "discovering" /\ pc[t] = "idle"
      BY <1>1, <1>4 DEF StartAgentTurn, JournalTypes, MemoryStates, RowAgrees
    <3>2. QED
      BY <1>2, <2>1, <2>3, <3>1 DEF JournalAgrees, RowAgrees, GrantAgrees
  <2>4. QED  BY <2>2, <2>3
<1>5. QED
  BY <1>3, <1>4 DEF Controls

\* The start of the backend: what it finds open it settles by the evidence.
LEMMA OwnInReconcile ==
  ASSUME IInv, Reconcile, NEW x \in Turns
  PROVE  Own(x)'
<1> USE DEF IInv, TurnAgrees, Own
<1>1. JournalTypes /\ MemoryStates /\ GrantTypes
  BY TypesAre, MemoryAre
<1>2. /\ server = "recovering" /\ call[x] = "idle" /\ pc[x] \in {"idle", "done"}
      /\ UNCHANGED <<server, call, pc, control, executions, cap, consumed>>
  BY DEF Reconcile, DownIsIdle, service, turnMemory, history, grantVars
<1>3. GrantAgrees(x)'
  BY <1>2 DEF GrantAgrees
<1>4. ASSUME NEW t \in Turns, RecoverReceiptGap(t) PROVE JournalAgrees(x)' /\ RowAgrees(x)'
  <2>1. /\ action[t] = "staging" /\ effect[t] = "done"
        /\ action' = [action EXCEPT ![t] = "committed"]
        /\ UNCHANGED <<turn, disposition, retryable, tool, effect>>
    BY <1>4 DEF RecoverReceiptGap, ReceiptGap, CommitReceiptBacked, turnRows
  <2>2. CASE x # t
    <3>1. action'[x] = action[x]
      BY <1>1, <2>1, <2>2 DEF JournalTypes
    <3>2. QED
      BY <1>2, <2>1, <3>1 DEF JournalAgrees, RowAgrees
  <2>3. CASE x = t
    <3>1. action'[t] = "committed"
      BY <1>1, <2>1 DEF JournalTypes
    <3>2. QED
      BY <1>2, <2>1, <2>3, <3>1 DEF JournalAgrees, RowAgrees, Open
  <2>4. QED  BY <2>2, <2>3
<1>5. ASSUME NEW t \in Turns, NEW v \in BOOLEAN, FailInterruptedTurn(t, v) PROVE JournalAgrees(x)' /\ RowAgrees(x)'
  <2> DEFINE r == VerifyAgentGoal(t, "interrupted", v)
  <2>1. /\ turn[t] = "running" /\ r # "completed"
        /\ turn' = [turn EXCEPT ![t] = "failed"] /\ disposition' = [disposition EXCEPT ![t] = r]
        /\ retryable' = [retryable EXCEPT ![t] = (r \in RetryableFailures)]
        /\ UNCHANGED <<action, tool, effect>>
    BY <1>5 DEF FailInterruptedTurn, FailAgentTurn, actionRows
  <2>2. r \in RetryableFailures => action[t] = "none"
    BY DEF VerifyAgentGoal, RetryableFailures
  <2>3. CASE x # t
    <3>1. turn'[x] = turn[x] /\ disposition'[x] = disposition[x] /\ retryable'[x] = retryable[x]
      BY <1>1, <2>1, <2>3 DEF JournalTypes
    <3>2. QED
      BY <1>2, <2>1, <3>1 DEF JournalAgrees, RowAgrees
  <2>4. CASE x = t
    <3>1. turn'[t] = "failed" /\ disposition'[t] = r /\ retryable'[t] = (r \in RetryableFailures)
      BY <1>1, <2>1 DEF JournalTypes
    <3>2. action[t] = "none" => effect[t] = "none"
      BY DEF JournalAgrees
    <3>3. QED
      BY <1>2, <2>1, <2>2, <2>4, <3>1, <3>2 DEF JournalAgrees, RowAgrees
  <2>5. QED  BY <2>3, <2>4
<1>6. CASE SettleStaging
  <2>1. /\ UNCHANGED <<turn, disposition, retryable, tool, effect>>
        /\ action'[x] = IF action[x] # "staging" THEN action[x]
                        ELSE IF MutationCommitted(x) THEN "committed" ELSE "rolled_back"
    BY <1>6 DEF SettleStaging, turnRows
  <2>2. action[x] = "staging" =>
          /\ tool[x] \in ReceiptBacked => effect[x] # "done" /\ ~MutationCommitted(x)
          /\ tool[x] \notin ReceiptBacked => (MutationCommitted(x) <=> effect[x] = "done")
    BY <1>6 DEF SettleStaging, ReceiptGap, MutationCommitted
  <2>3. JournalAgrees(x)'
    <3>1. CASE action[x] = "staging"
      BY <1>2, <2>1, <2>2, <3>1 DEF JournalAgrees
    <3>2. CASE action[x] # "staging"
      BY <1>2, <2>1, <3>2 DEF JournalAgrees
    <3>3. QED  BY <3>1, <3>2
  <2>4. RowAgrees(x)'
    <3>1. action[x] \notin Open => action'[x] = action[x]
      BY <2>1 DEF Open
    <3>2. action[x] = "none" \/ action[x] = "rolled_back" => action[x] \notin Open
      BY DEF Open
    <3>3. turn'[x] = turn[x] /\ disposition'[x] = disposition[x] /\ retryable'[x] = retryable[x] /\ effect'[x] = effect[x]
      BY <2>1
    <3>4. QED  BY <1>2, <3>1, <3>2, <3>3 DEF RowAgrees
  <2>5. QED  BY <1>3, <2>3, <2>4
<1>7. CASE LoseSessionsAndChecks
  <2>1. /\ UNCHANGED <<turn, disposition, retryable, action, tool>>
        /\ effect'[x] = IF effect[x] = "running" THEN "cut" ELSE effect[x]
    BY <1>7 DEF LoseSessionsAndChecks, turnRows
  <2>2. JournalAgrees(x)'
    BY <1>2, <2>1 DEF JournalAgrees
  <2>3. RowAgrees(x)'
    <3>1. effect[x] = "none" => effect'[x] = "none"
      BY <2>1
    <3>2. turn'[x] = turn[x] /\ disposition'[x] = disposition[x] /\ retryable'[x] = retryable[x] /\ action'[x] = action[x]
      BY <2>1
    <3>3. QED  BY <1>2, <3>1, <3>2 DEF RowAgrees
  <2>4. QED  BY <1>3, <2>2, <2>3
<1>8. QED
  BY <1>3, <1>4, <1>5, <1>6, <1>7 DEF Reconcile

LEMMA OwnInBackend ==
  ASSUME IInv, Backend, NEW x \in Turns
  PROVE  Own(x)'
<1> USE DEF IInv, TurnAgrees, Own
<1>1. JournalTypes /\ MemoryStates /\ GrantTypes
  BY TypesAre, MemoryAre
<1>2. ASSUME NEW c \in Conversations, ArchiveConversation(c) \/ ArchiveOwner(c) PROVE Own(x)'
  <2>1. GrantRests(x)
    BY <1>1, <1>2, RevokeRests DEF ArchiveConversation, ArchiveOwner, GrantRests, grantVars
  <2>2. Rests(x) /\ server' = server
    BY <1>2 DEF ArchiveConversation, ArchiveOwner, Rests, service, turnMemory, turnRows, actionRows, history
  <2>3. QED  BY <2>1, <2>2, RestAgrees
<1>3. CASE Crash
  <2>1. /\ UNCHANGED <<turn, disposition, retryable, action, tool, effect, executions>> /\ server' = "down"
        /\ pc'[x] = (IF pc[x] = "idle" THEN "idle" ELSE "done")
        /\ control'[x] = (IF pc[x] = "idle" THEN "open" ELSE "terminal")
        /\ call'[x] = "idle" /\ cap'[x] = (IF cap[x] = "live" THEN "revoked" ELSE cap[x])
    BY <1>3 DEF Crash, ForgetGrants, journalVars, turnRows, actionRows, history
  <2>2. JournalAgrees(x)'
    BY <2>1 DEF JournalAgrees
  <2>3. RowAgrees(x)'
    BY <2>1 DEF RowAgrees
  <2>4. GrantAgrees(x)'
    BY <1>1, <2>1 DEF GrantAgrees, GrantTypes
  <2>5. QED  BY <2>2, <2>3, <2>4
<1>4. CASE Boot \/ Serve
  <2>1. UNCHANGED <<journalVars, grantVars, turnMemory, history>>
    BY <1>4 DEF Boot, Serve
  <2>2. RowAgrees(x)' /\ GrantAgrees(x)'
    BY <2>1 DEF RowAgrees, GrantAgrees, journalVars, turnRows, actionRows, turnMemory, history, grantVars
  <2>3. server' = "up" => turn[x] # "running" /\ effect[x] # "running"
    BY <1>4 DEF Boot, Serve, Reconciled, Interrupted
  <2>4. JournalAgrees(x)'
    BY <2>1, <2>3 DEF JournalAgrees, journalVars, turnRows, actionRows, turnMemory
  <2>5. QED  BY <2>2, <2>4
<1>5. QED
  BY <1>2, <1>3, <1>4, OwnInReconcile DEF Backend, Startup

LEMMA OwnInductive ==
  ASSUME IInv, Next, NEW x \in Turns
  PROVE  Own(x)'
BY Families, OpenCodeFamily, OwnInTurns, OwnInCalls, OwnInOpenCode, OwnInControls, OwnInBackend
-----------------------------------------------------------------------------
(* The call in progress: until its effect nothing comes between. *)

LEMMA CallInductive ==
  ASSUME IInv, Next, NEW x \in Turns
  PROVE  CallAgrees(x)'
<1> USE DEF IInv, TurnAgrees
<1>1. JournalTypes /\ MemoryStates /\ GrantTypes
  BY TypesAre, MemoryAre
<1>2. CASE call[x] = "idle" /\ call'[x] = "idle"
  BY <1>2 DEF CallAgrees
<1>3. ASSUME NEW t \in Turns, TurnSteps(t) PROVE CallAgrees(x)'
  <2>1. call[x] \in {"idle", "checking"} /\ call' = call
    BY <1>1, <1>3, TurnStepServed DEF Quiet, OneAtATime, MemoryStates
  <2>2. UNCHANGED <<action, tool, effect>>
    BY <1>3, TurnFamily DEF EndsInStore, GoesOn, CompleteAgentTurn, FailAgentTurn, journalVars, actionRows,
       SessionOp, MarkSessionLost, BeginSessionGeneration, ActivateSession, FailSessionGeneration, SessionStep
  <2>3. QED  BY <2>1, <2>2 DEF CallAgrees
<1>4. ASSUME NEW t \in Turns, CallSteps(t) PROVE CallAgrees(x)'
  <2>1. CASE x = t
    BY <1>4, <2>1, CallMoves
  <2>2. CASE x # t
    <3>1. call[x] \in {"idle", "checking"}
      BY <1>1, <1>4, <2>2, CallStepServed DEF Quiet, OneAtATime, MemoryStates
    <3>2. action'[x] = action[x] /\ tool'[x] = tool[x] /\ effect'[x] = effect[x] /\ call'[x] = call[x]
      BY <1>1, <1>4, <2>2, CallFamily DEF JournalCall, TransitionAction, StartTechnicalCheck, FinishTechnicalCheck,
         CommitEffect, CommitReceiptBacked, journalVars, actionRows, JournalTypes, MemoryStates
    <3>3. QED  BY <3>1, <3>2 DEF CallAgrees
  <2>3. QED  BY <2>1, <2>2
<1>5. ASSUME NEW t \in Turns, AcceptsCall(t), OpenCodeCalls(t) PROVE CallAgrees(x)'
  <2>1. call[x] \in {"idle", "checking"}
    BY <1>1, <1>5 DEF AcceptsCall, Quiet, MemoryStates
  <2>2. CASE UNCHANGED <<journalVars, call>>
    BY <2>1, <2>2 DEF CallAgrees, journalVars, actionRows
  <2>3. CASE \E kind \in Tools : /\ RecordAction(t, kind) /\ InScope(t) /\ call[t] = "idle"
                                /\ call' = [call EXCEPT ![t] = "recorded"] /\ UNCHANGED capGen
    <3>1. /\ UNCHANGED <<usable, turn, sessionRows, effect, capGen>> /\ action[t] = "none"
          /\ \E kind \in Tools : action' = [action EXCEPT ![t] = "proposed"] /\ tool' = [tool EXCEPT ![t] = kind]
      BY <2>3 DEF RecordAction, turnRows
    <3>2. CASE x = t
      <4>1. call'[t] = "recorded" /\ action'[t] = "proposed" /\ effect[t] = "none"
        BY <1>1, <2>3, <3>1 DEF JournalTypes, MemoryStates, JournalAgrees
      <4>2. ActiveAgentToolGrant(t, capGen[t])'
        BY <2>3, <3>1 DEF InScope, ActiveAgentToolGrant, sessionRows
      <4>3. QED
        BY <3>1, <3>2, <4>1, <4>2 DEF CallAgrees
    <3>3. CASE x # t
      <4>1. action'[x] = action[x] /\ tool'[x] = tool[x] /\ effect'[x] = effect[x] /\ call'[x] = call[x]
        BY <1>1, <2>3, <3>1, <3>3 DEF JournalTypes, MemoryStates
      <4>2. QED  BY <2>1, <4>1 DEF CallAgrees
    <3>4. QED  BY <3>2, <3>3
  <2>4. QED
    BY <1>5, <2>2, <2>3 DEF OpenCodeCalls, CallRejected, CallOutOfScope, CallProposal, CallConsequential, CallStep, turnMemory, Consume, grantVars
<1>6. ASSUME NEW t \in Turns, Controls(t) PROVE CallAgrees(x)'
  <2>1. call[x] \in {"idle", "checking"} /\ UNCHANGED <<call, action, tool, effect>>
    BY <1>1, <1>6 DEF Controls, Quiet, MemoryStates, StartAgentTurn, journalVars, actionRows
  <2>2. QED  BY <2>1 DEF CallAgrees
<1>7. CASE Backend
  <2>1. ASSUME NEW c \in Conversations, ArchiveConversation(c) \/ ArchiveOwner(c) PROVE CallAgrees(x)'
    <3>1. call[x] \in {"idle", "checking"} /\ UNCHANGED <<call, action, tool, effect>>
      BY <1>1, <2>1 DEF ArchiveConversation, ArchiveOwner, Quiet, MemoryStates, actionRows, turnMemory
    <3>2. QED  BY <3>1 DEF CallAgrees
  <2>2. CASE Crash
    <3>1. call'[x] = "idle"
      BY <2>2 DEF Crash
    <3>2. QED  BY <3>1 DEF CallAgrees
  <2>3. CASE Startup
    <3>1. server # "up" /\ call' = call
      BY <2>3 DEF Startup, Boot, Reconcile, Serve, turnMemory
    <3>2. QED  BY <1>2, <3>1 DEF DownIsIdle
  <2>4. QED  BY <1>7, <2>1, <2>2, <2>3 DEF Backend
<1>8. QED
  BY <1>3, <1>4, <1>5, <1>6, <1>7, Families, OpenCodeFamily
-----------------------------------------------------------------------------
(* What a turn repeats. *)

\* A failure that may be retried stays one.
LEMMA FailureStays ==
  ASSUME IInv, Next, NEW x \in Turns, turn[x] = "failed", retryable[x]
  PROVE  turn'[x] = "failed" /\ retryable'[x]
<1>1. JournalTypes /\ JournalStep
  BY TypesAre, JournalFollows DEF IInv
<1>2. QED
  BY <1>1 DEF JournalTypes, JournalStep, StartAgentTurn, CompleteAgentTurn, FailAgentTurn, RecordAction,
     TransitionAction, StartTechnicalCheck, FinishTechnicalCheck, CommitEffect, CommitReceiptBacked,
     BeginSessionGeneration, SessionStep, Archives, SettleStaging, LoseSessionsAndChecks, journalVars, turnRows

LEMMA RetryInductive ==
  ASSUME IInv, Next, NEW t \in Turns
  PROVE  RetryAgrees(t)'
<1> DEFINE old == <<ConversationOf(t), retryOf[t]>>
<1>1. RetryAgrees(t) /\ MemoryStates
  BY TypesAre, MemoryAre DEF IInv, TurnAgrees
<1>2. CASE retryOf'[t] = retryOf[t]
  <2>1. ASSUME retryOf[t] # 0 PROVE old \in Turns /\ turn'[old] = "failed" /\ retryable'[old]
    <3>1. old \in Turns /\ turn[old] = "failed" /\ retryable[old]
      BY <1>1, <2>1 DEF RetryAgrees
    <3>2. QED  BY <3>1, FailureStays
  <2>2. QED  BY <1>2, <2>1 DEF RetryAgrees
<1>3. ASSUME NEW source \in Earlier(t), turn[source] = "failed", retryable[source], retryOf'[t] = source[2]
      PROVE  RetryAgrees(t)'
  <2>1. source \in Turns /\ source = <<ConversationOf(t), source[2]>>
    BY TurnsBelong DEF Earlier
  <2>2. turn'[source] = "failed" /\ retryable'[source]
    BY <1>3, <2>1, FailureStays
  <2>3. QED  BY <1>3, <2>1, <2>2 DEF RetryAgrees
<1>4. ASSUME NEW x \in Turns, Controls(x) PROVE RetryAgrees(t)'
  <2>1. \/ UNCHANGED retryOf
        \/ \E s \in Earlier(x) : turn[s] = "failed" /\ retryable[s] /\ retryOf' = [retryOf EXCEPT ![x] = s[2]]
    BY <1>4 DEF Controls
  <2>2. CASE x # t
    BY <1>1, <1>2, <2>1, <2>2 DEF MemoryStates
  <2>3. CASE x = t
    BY <1>1, <1>2, <1>3, <2>1, <2>3 DEF MemoryStates
  <2>4. QED  BY <2>2, <2>3
<1>5. ASSUME NEW x \in Turns, TurnSteps(x) \/ CallSteps(x) PROVE UNCHANGED retryOf
  BY <1>5, TurnFamily, CallFamily DEF EndsInStore, Terminal, GoesOn, JournalCall, history
<1>6. CASE OpenCodeSteps \/ Backend
  <2>1. UNCHANGED retryOf
    BY <1>6, OpenCodeFamily DEF AcceptsCall, Backend, ArchiveConversation, ArchiveOwner, Crash, Startup, Boot,
       Reconcile, Serve, history
  <2>2. QED  BY <1>2, <2>1
<1>7. QED
  BY <1>2, <1>4, <1>5, <1>6, Families
-----------------------------------------------------------------------------
(* The theorems. *)

LEMMA BoundAreTurns ==
  ASSUME Types, Next
  PROVE  bound' \subseteq Turns
<1>1. ASSUME NEW t \in Turns, TurnSteps(t) PROVE bound' \subseteq bound \cup {t}
  BY <1>1, OtherSteps DEF PrepareTurn, UnbindScopedMcp
<1>2. CASE OpenCodeSteps \/ Backend
  BY <1>2, OpenCodeFamily DEF AcceptsCall, Backend, ArchiveConversation, ArchiveOwner, Crash, Startup, Boot,
     Reconcile, Serve, Types, TypeOK
<1>3. QED
  BY <1>1, <1>2, Families, CallFamily DEF Controls, JournalCall, Types, TypeOK

LEMMA Initially == Init => IInv
<1> SUFFICES ASSUME Init PROVE IInv
  OBVIOUS
<1> USE TurnsAssumption DEF Init, JournalInit, GrantsInit
<1>1. Types
  <2>1. mcpTail \in Seq(Turns)
    BY EmptySeq
  <2>2. QED
    BY <2>1 DEF Types, TypeOK, PcState
<1>2. DownIsIdle
  BY DEF DownIsIdle
<1>3. OneAtATime
  BY DEF OneAtATime, SyncTurn, SyncCall
<1>4. \A t \in Turns : TurnAgrees(t)
  BY DEF TurnAgrees, CallAgrees, JournalAgrees, RowAgrees, RetryAgrees, GrantAgrees, Open
<1>5. TailAgrees
  <2>1. Len(mcpTail) = 0
    BY EmptySeq
  <2>2. QED  BY <2>1 DEF TailAgrees, InTail
<1>6. QED
  BY <1>1, <1>2, <1>3, <1>4, <1>5 DEF IInv

LEMMA Preserved == IInv /\ [Next]_vars => IInv'
<1> SUFFICES ASSUME IInv, [Next]_vars PROVE IInv'
  OBVIOUS
<1>1. CASE Next
  <2>1. Types /\ JournalTypes /\ GrantTypes /\ MemoryStates
    BY TypesAre, MemoryAre DEF IInv
  <2>2. TailAgrees' /\ mcpTail' \in Seq(Turns)
    BY <1>1, TailInductive
  <2>3. Types'
    <3>1. JournalTypes' /\ GrantTypes' /\ MemoryStates' /\ bound' \subseteq Turns
      BY <1>1, <2>1, JournalFollows, JournalTyped, GrantFollows, GrantTyped, MemoryTyped, BoundAreTurns
    <3>2. QED
      BY <2>2, <3>1 DEF Types, TypeOK, JournalTypes, GrantTypes, MemoryStates, Phases, TurnStates, Dispositions,
         SessionStates, Actions
  <2>4. DownIsIdle' /\ OneAtATime'
    BY <1>1, LoopInductive
  <2>5. \A t \in Turns : TurnAgrees(t)'
    BY <1>1, OwnInductive, CallInductive, RetryInductive DEF TurnAgrees, Own
  <2>6. QED  BY <2>2, <2>3, <2>4, <2>5 DEF IInv
<1>2. CASE UNCHANGED vars
  BY <1>2 DEF IInv, Types, TypeOK, DownIsIdle, OneAtATime, TurnAgrees, CallAgrees, JournalAgrees, RowAgrees,
     RetryAgrees, GrantAgrees, TailAgrees, InTail, ActiveAgentToolGrant, vars, journalVars, turnRows, sessionRows,
     actionRows, grantVars, service, turnMemory, history
<1>3. QED
  BY <1>1, <1>2

LEMMA Invariance == Spec => []IInv
<1>1. QED
  BY Initially, Preserved, PTL DEF Spec

\* The rows of every turn are true of what it did, for any Conversations, turns and tools
\* and any number of starts of the backend: the journal of every effect, the disposition
\* of the actions in doubt, and one execution for one approval (verifyAgentGoal,
\* transitionAgentAction and reconcileCommittedAgentOperationEvidenceGaps of
\* product-store-v2.ts, authorizeConsequentialOperation and handle of agent-mcp.ts).
THEOREM TurnsAreTrueTheorem == Spec => []TurnsAreTrue
<1>1. IInv => TurnsAreTrue
  <2> SUFFICES ASSUME IInv PROVE TurnsAreTrue
    OBVIOUS
  <2> USE DEF IInv, TurnAgrees
  <2>1. TypeOK
    BY DEF Types
  <2>2. JournalIsTrue
    BY DEF JournalIsTrue, JournalAgrees
  <2>3. CompletedIsSettled
    BY TypesAre DEF CompletedIsSettled, RowAgrees, JournalTypes, Actions
  <2>4. ApprovedOnce
    BY DEF ApprovedOnce, GrantAgrees
  <2>5. QED  BY <2>1, <2>2, <2>3, <2>4 DEF TurnsAreTrue
<1>2. QED
  BY <1>1, Invariance, PTL

\* Turns that share a Conversation or the tool registry are not mixed up, for any
\* instance: a retry repeats no effect of what it retries, and the one live capability
\* OpenCode knows is of the turn at the head of the queue (retryableAgentTurnInput of
\* product-store-v2.ts, #acquireScopedMcpTurn of agent-workspace-service.ts).
THEOREM TurnsAreApartTheorem == Spec => []TurnsAreApart
<1>1. IInv => TurnsAreApart
  <2> SUFFICES ASSUME IInv PROVE TurnsAreApart
    OBVIOUS
  <2> USE DEF IInv, TurnAgrees
  <2>1. RetryRepeatsNothing
    <3>1. ASSUME NEW t \in Turns, turn[t] = "failed", retryable[t] PROVE effect[t] = "none" /\ action[t] # "committed"
      BY <3>1 DEF RowAgrees
    <3>2. QED
      BY <3>1 DEF RetryRepeatsNothing, RetryAgrees
  <2>2. OneLiveRegistration
    <3> SUFFICES ASSUME NEW t \in bound, cap[t] = "live" PROVE mcpTail # <<>> /\ Head(mcpTail) = t
      BY DEF OneLiveRegistration
    <3>1. t \in Turns /\ mcpTail \in Seq(Turns)
      BY DEF Types, TypeOK
    <3>2. InTail(t) /\ t = mcpTail[1]
      BY <3>1 DEF TailAgrees
    <3>3. mcpTail # <<>>
      BY <3>2, EmptySeq DEF InTail
    <3>4. QED  BY <3>1, <3>2, <3>3, HeadTailProperties
  <2>3. QED  BY <2>1, <2>2 DEF TurnsAreApart
<1>2. QED
  BY <1>1, Invariance, PTL

LEMMA EffectsStayInScope == IInv /\ [Next]_vars => [EffectsInScope]_vars
<1> SUFFICES ASSUME IInv, Next PROVE EffectsInScope
  OBVIOUS
<1> SUFFICES ASSUME NEW t \in Turns, effect[t] = "none", effect'[t] # "none"
             PROVE  ActiveAgentToolGrant(t, capGen[t])
  BY DEF EffectsInScope, ActiveAgentToolGrant
<1>1. JournalTypes /\ GrantTypes
  BY TypesAre DEF IInv
<1>2. ASSUME NEW x \in Turns, CallSteps(x) PROVE ActiveAgentToolGrant(t, capGen[t])
  <2>1. x = t /\ (Execute(t) \/ StartCheck(t))
    BY <1>1, <1>2 DEF CallSteps, AuthorizeAction, StageAction, Execute, StartCheck, CheckDone, CommitAction,
       ExecuteFails, OperationThrows, TransitionAction, StartTechnicalCheck, FinishTechnicalCheck, CommitEffect,
       CommitReceiptBacked, journalVars, actionRows, JournalTypes
  <2>2. call[t] = "staged"
    BY <2>1 DEF Execute, StartCheck, CallStep
  <2>3. QED  BY <2>2 DEF IInv, TurnAgrees, CallAgrees
<1>3. ASSUME NEW x \in Turns, TurnSteps(x) \/ Controls(x) PROVE UNCHANGED effect
  BY <1>3, TurnFamily DEF EndsInStore, GoesOn, Controls, StartAgentTurn, CompleteAgentTurn, FailAgentTurn, journalVars,
     actionRows, SessionOp, MarkSessionLost, BeginSessionGeneration, ActivateSession, FailSessionGeneration, SessionStep
<1>4. CASE OpenCodeSteps
  BY <1>4, OpenCodeFamily DEF AcceptsCall, RecordAction, journalVars, actionRows
<1>5. CASE Backend
  <2>1. CASE Crash \/ \E c \in Conversations : ArchiveConversation(c) \/ ArchiveOwner(c)
    BY <2>1 DEF Crash, ArchiveConversation, ArchiveOwner, journalVars, actionRows
  <2>2. CASE Startup
    BY <1>1, <2>2 DEF Startup, Boot, Reconcile, Serve, RecoverReceiptGap, CommitReceiptBacked, FailInterruptedTurn,
       FailAgentTurn, SettleStaging, LoseSessionsAndChecks, journalVars, actionRows, JournalTypes
  <2>3. QED  BY <1>5, <2>1, <2>2 DEF Backend
<1>6. QED
  BY <1>2, <1>3, <1>4, <1>5, Families

LEMMA StopsStay == IInv /\ [Next]_vars => [StopWins]_vars
<1> SUFFICES ASSUME IInv, Next, NEW t \in Turns, control[t] = "stopping" PROVE turn'[t] # "complete"
  BY DEF StopWins
<1>1. JournalTypes /\ JournalStep /\ RowAgrees(t)
  BY TypesAre, JournalFollows DEF IInv, TurnAgrees
<1>2. turn[t] # "complete" /\ pc[t] # "answered"
  BY <1>1 DEF RowAgrees
<1>3. ASSUME NEW x \in Turns, TurnSteps(x) PROVE turn'[t] # "complete"
  BY <1>1, <1>2, <1>3, TurnFamily DEF EndsInStore, GoesOn, CompleteAgentTurn, FailAgentTurn, JournalTypes, journalVars,
     turnRows, SessionOp, MarkSessionLost, BeginSessionGeneration, ActivateSession, FailSessionGeneration, SessionStep
<1>4. ASSUME NEW x \in Turns, CallSteps(x) PROVE turn'[t] # "complete"
  BY <1>2, <1>4, CallFamily DEF JournalCall, TransitionAction, StartTechnicalCheck, FinishTechnicalCheck, CommitEffect,
     CommitReceiptBacked, journalVars, turnRows
<1>5. ASSUME NEW x \in Turns, Controls(x) PROVE turn'[t] # "complete"
  BY <1>1, <1>2, <1>5 DEF Controls, StartAgentTurn, JournalTypes, journalVars, turnRows
<1>6. CASE OpenCodeSteps
  BY <1>2, <1>6, OpenCodeFamily DEF AcceptsCall, RecordAction, journalVars, turnRows
<1>7. CASE Backend
  <2>1. CASE Crash \/ \E c \in Conversations : ArchiveConversation(c) \/ ArchiveOwner(c)
    BY <1>2, <2>1 DEF Crash, ArchiveConversation, ArchiveOwner, journalVars, turnRows
  <2>2. CASE Startup
    BY <1>1, <1>2, <2>2 DEF Startup, Boot, Reconcile, Serve, RecoverReceiptGap, CommitReceiptBacked, FailInterruptedTurn,
       FailAgentTurn, SettleStaging, LoseSessionsAndChecks, journalVars, turnRows, JournalTypes
  <2>3. QED  BY <1>7, <2>1, <2>2 DEF Backend
<1>8. QED
  BY <1>3, <1>4, <1>5, <1>6, <1>7, Families

\* A turn acts only while it may, for any instance: each effect begins in the active
\* Conversation of an active owner, under the session its capability was issued for, and
\* a turn that was told to stop never completes (assertActiveAgentToolGrant of
\* product-store-v2.ts, #assertTurnControlOpen of agent-workspace-service.ts).
THEOREM ActsWhileAllowedTheorem == Spec => ActsWhileAllowed
<1>1. IInv /\ [Next]_vars => [EffectsInScope]_vars /\ [StopWins]_vars
  BY EffectsStayInScope, StopsStay
<1>2. QED
  BY <1>1, Invariance, PTL DEF Spec, ActsWhileAllowed
-----------------------------------------------------------------------------
(*                           Prompts of a session                            *)
-----------------------------------------------------------------------------
(* The last of some messages. *)

LEMMA LeastIsThere ==
  ASSUME NEW T \in SUBSET Nat, T # {}
  PROVE  \E x \in T : \A y \in T : x <= y
<1> DEFINE Less == OpToRel(<, Nat)
<1>1. IsWellFoundedOn(Less, Nat)
  BY NatLessThanWellFounded
<1>2. PICK x \in T : \A y \in T : ~(<<y, x>> \in Less)
  <2> HIDE DEF Less
  <2> QED BY <1>1, WFMin
<1>3. \A y \in T : y < x => <<y, x>> \in Less
  BY DEF OpToRel
<1> QED
  <2>1. \A y \in T : ~(y < x)
    BY <1>2, <1>3
  <2> HIDE DEF Less
  <2> QED BY <2>1

LEMMA GreatestIsThere ==
  ASSUME NEW n \in Nat, NEW T \in SUBSET (1..n), T # {}
  PROVE  \E x \in T : \A y \in T : y <= x
<1> DEFINE U == {n - y : y \in T}
<1>1. U \in SUBSET Nat /\ U # {}
  <2>1. \A y \in T : n - y \in Nat /\ n - y \in U
    OBVIOUS
  <2>2. U \in SUBSET Nat
    BY <2>1
  <2>3. U # {}
    BY <2>1
  <2> QED BY <2>2, <2>3
<1>2. PICK u \in U : \A y \in U : u <= y
  <2> HIDE DEF U
  <2> QED BY <1>1, LeastIsThere
<1>3. PICK x \in T : u = n - x
  OBVIOUS
<1>4. ASSUME NEW y \in T PROVE y <= x
  <2>1. n - y \in U
    OBVIOUS
  <2> QED BY <1>2, <1>3, <2>1
<1> QED BY <1>3, <1>4

LEMMA LastFailureIsLast ==
  ASSUME NEW v
  PROVE  /\ LastFailure(v) \in {0} \cup Steps
         /\ LastFailure(v) # 0 => v[LastFailure(v)].state = "failed"
         /\ \A s \in Steps : v[s].state = "failed" => s <= LastFailure(v)
<1> DEFINE T == {s \in Steps : v[s].state = "failed"}
<1>1. CASE T = {}
  BY <1>1 DEF LastFailure
<1>2. CASE T # {}
  <2>1. T \in SUBSET (1..MaxSteps) /\ MaxSteps \in Nat
    BY PromptsAssumption DEF Steps
  <2>2. PICK x \in T : \A y \in T : y <= x
    <3> HIDE DEF T
    <3> QED BY <1>2, <2>1, GreatestIsThere
  <2>3. x \in Steps /\ v[x].state = "failed" /\ \A r \in Steps : r > x => v[r].state # "failed"
    BY <2>1, <2>2 DEF Steps
  <2>4. /\ LastFailure(v) \in Steps /\ v[LastFailure(v)].state = "failed"
        /\ \A r \in Steps : r > LastFailure(v) => v[r].state # "failed"
    BY <2>3 DEF LastFailure
  <2>5. \A s \in Steps : v[s].state = "failed" => s <= LastFailure(v)
    BY <2>4, PromptsAssumption DEF Steps
  <2> QED BY <2>4, <2>5
<1> QED BY <1>1, <1>2

-----------------------------------------------------------------------------
(* What OpenCode has written. *)

\* A message that is not there has no call; a closed one waits for nothing; a call
\* outside the grant is denied for good.
MessageOK(m) ==
  /\ m.state = "absent" => m.call = "none"
  /\ m.state \in Completed => m.call \in {"none", "complete", "failed"}
  /\ m.input = Foreign => m.call = "failed"

LogOK ==
  /\ \A p \in Prompts, s \in Steps : MessageOK(log[p][s])
  /\ \A p \in Prompts : p \notin asked => log[p] = NoView

\* What stands of a message whatever OpenCode writes next.
StaysOf(old, new) ==
  /\ old.state = "failed" => new.state = "failed"
  /\ old.call = "failed" => new.call = "failed"
  /\ old.input = Foreign => new.input = Foreign
Precedes(v, w) == \A s \in Steps : StaysOf(v[s], w[s])

FailedAt(f, v) == f # 0 => f \in Steps /\ v[f].state = "failed"

(* Where the poll is. *)

Unasked == {"ready", "rules", "submit"}
Undecided == Unasked \cup {"status", "messages", "observe", "again"}

InTurn ==
  /\ work \in {0, current} /\ asked \subseteq 1..current
  /\ stage \in Unasked => work = 0 /\ current \notin asked
  /\ stage \in Undecided => outcome[current] = "none"
  /\ \A p \in Prompts : p > current => outcome[p] = "none"
  /\ stage \in {"submit", "status", "messages", "observe", "again", "checking"} => rules = current

MineOK ==
  stage # "ready" =>
    /\ prior = asked \ {current}
    /\ mine \in {0, current} /\ (mine = current => current \in asked)
    /\ stage \in {"observe", "again"} => mine = current

\* An idle session has written its last word.
IdleOK ==
  /\ (stage \in {"messages", "observe", "again"} /\ idle) => work = 0
  /\ stage = "again" => idle
  /\ stage = "observe" => Precedes(view, log[current]) /\ (idle => view = log[current])
  /\ watch.on => Precedes(watch.view, log[watch.of])

\* A boundary is a failed message; evidence is of the attempt after it.
BoundariesOK ==
  /\ \A p \in Prompts : FailedAt(boundary[p].failure, log[p])
  /\ stage # "ready" =>
       /\ FailedAt(failure, log[current])
       /\ \A s \in Steps : evidence[s] = "failed" => s > failure /\ log[current][s].call = "failed"
  /\ stage = "again" => \E s \in Steps : s > LastFailure(candidate) /\ candidate[s].state = "open"

PollTypes ==
  /\ work \in {0} \cup Prompts /\ asked \subseteq Prompts /\ log \in [Prompts -> Views] /\ rules \in {0} \cup Prompts
  /\ current \in Prompts
  /\ stage \in Undecided \cup {"checking", "close", "over"}
  /\ prior \subseteq Prompts /\ mine \in {0} \cup Prompts /\ installed \in BOOLEAN /\ idle \in BOOLEAN /\ view \in Views
  /\ failure \in {0} \cup Steps /\ evidence \in [Steps -> {"none", "pending", "complete", "failed"}] /\ candidate \in Views
  /\ outcome \in [Prompts -> Ended] /\ answer \in [Prompts -> SUBSET Steps]
  /\ boundary \in [Prompts -> [user : {0} \cup Prompts, failure : {0} \cup Steps]]
  /\ watch \in [on : BOOLEAN, of : Prompts, view : Views]

PollOK == PollTypes /\ LogOK /\ InTurn /\ MineOK /\ IdleOK /\ BoundariesOK /\ AnswersAreWhole /\ FailuresAreReal

(* Approvals. *)

Replies == [at : {"none", "open", "authorized", "visible", "proved"}, id : Ids \cup {NoReply.id}, once : BOOLEAN]

ApprovalTypes ==
  /\ released \in BOOLEAN /\ shown \subseteq Ids /\ authorities \subseteq Ids
  /\ reply.at \in {"none", "open", "authorized", "visible", "proved"} /\ reply.once \in BOOLEAN
  /\ reply \in Replies /\ (reply.at # "none" => reply.id \in Ids)
  /\ capability \in {"none", "live", "revoked", "consumed"} /\ commitment \in Inputs \cup {NoInput}
  /\ delivered \subseteq Ids /\ ran \subseteq Ids

InFlight == reply.at \in {"authorized", "visible", "proved"} /\ reply.once /\ reply.id.prompt = current

\* What is approved of the current prompt is one input, whoever approved it.
OneInput ==
  /\ stage = "ready" => (reply.at # "none" => reply.id.prompt < current)
  /\ \A id \in delivered : id.prompt <= current /\ (stage = "ready" => id.prompt < current)
  /\ reply.at # "none" => reply.id.prompt <= current
  /\ released => capability # "live"
  /\ capability = "live" /\ stage # "ready" =>
       /\ InFlight => commitment = reply.id.input
       /\ \A id \in delivered : id.prompt = current => commitment = id.input
       /\ \A s \in Steps : log[current][s].call = "allowed" => \E id \in delivered : id.prompt = current

ApprovalsOK == ApprovalTypes /\ OneInput /\ ApprovalsAreAnswered /\ RanAsApproved

PromptsInv == PollOK /\ ApprovalsOK

LEMMA InvImplies == PromptsInv => PromptsEndAsTheyWent /\ PromptsActAsAllowed
<1> SUFFICES ASSUME PromptsInv PROVE PromptsEndAsTheyWent /\ PromptsActAsAllowed
  OBVIOUS
<1>1. PromptTypes
  BY DEF PromptsInv, PollOK, ApprovalsOK, PollTypes, ApprovalTypes, PromptTypes, Undecided, Unasked
<1>2. RulesAreOurs
  BY DEF PromptsInv, PollOK, PollTypes, InTurn, RulesAreOurs, Polling
<1> QED BY <1>1, <1>2 DEF PromptsInv, PollOK, ApprovalsOK, PromptsEndAsTheyWent, PromptsActAsAllowed

LEMMA Initial == PromptsInit => PromptsInv
<1> SUFFICES ASSUME PromptsInit PROVE PromptsInv
  OBVIOUS
<1> USE PromptsAssumption DEF PromptsInit
<1>1. NoMessage \in Messages /\ MessageOK(NoMessage) /\ \A s \in Steps : NoView[s] = NoMessage
  BY DEF NoMessage, Messages, MessageOK, NoView, Completed
<1>2. NoView \in Views /\ 1 \in Prompts
  BY <1>1 DEF Views, NoView, Prompts
<1>3. PollTypes
  BY <1>2 DEF PollTypes, Undecided, Unasked, Ended, NoWatch
<1>4. LogOK /\ InTurn /\ MineOK /\ IdleOK /\ BoundariesOK
  BY <1>1, <1>2 DEF LogOK, InTurn, MineOK, IdleOK, BoundariesOK, FailedAt, Unasked, Undecided, NoWatch
<1>5. AnswersAreWhole /\ FailuresAreReal
  BY DEF AnswersAreWhole, FailuresAreReal
<1>6. ApprovalsOK
  BY DEF ApprovalsOK, ApprovalTypes, Replies, OneInput, ApprovalsAreAnswered, RanAsApproved, NoReply
<1> QED BY <1>3, <1>4, <1>5, <1>6 DEF PromptsInv, PollOK

-----------------------------------------------------------------------------
(* OpenCode writes. *)

pollState == <<current, stage, pollVars, endVars, boundary, watch>>

LEMMA PollRests == PollOK /\ UNCHANGED <<openCodeVars, pollState>> => PollOK'
BY DEF PollOK, PollTypes, LogOK, InTurn, MineOK, IdleOK, BoundariesOK, AnswersAreWhole, FailuresAreReal,
   openCodeVars, pollState, pollVars, endVars, Final, Written, Present

LEMMA WriteKeepsPolls ==
  ASSUME PollOK, work \in asked, NEW s \in Steps, NEW m \in Messages, Write(s, m),
         MessageOK(m), StaysOf(log[work][s], m), UNCHANGED pollState
  PROVE  PollOK'
<1> USE DEF PollOK
<1>1. /\ work \in Prompts /\ work = current /\ stage \notin Unasked
      /\ UNCHANGED <<work, asked, rules, current, stage, prior, mine, installed, idle, view, failure,
                     evidence, candidate, outcome, answer, boundary, watch>>
  BY DEF PollTypes, InTurn, Prompts, Write, pollState, pollVars, endVars
<1>2. /\ log' \in [Prompts -> Views]
      /\ \A p \in Prompts : p # work => log'[p] = log[p]
      /\ log'[work][s] = m /\ \A r \in Steps : r # s => log'[work][r] = log[work][r]
  BY <1>1 DEF PollTypes, Write, Views
<1>3. PollTypes'
  BY <1>1, <1>2 DEF PollTypes
<1>4. LogOK'
  BY <1>1, <1>2 DEF LogOK
<1>5. InTurn' /\ MineOK'
  BY <1>1 DEF InTurn, MineOK
<1>6. \A p \in Prompts : Precedes(log[p], log'[p])
  BY <1>1, <1>2 DEF Precedes, StaysOf
<1>7. \A p \in Prompts, v \in Views : Precedes(v, log[p]) => Precedes(v, log'[p])
  BY <1>6 DEF Precedes, StaysOf
<1>8. IdleOK'
  BY <1>1, <1>2, <1>7 DEF IdleOK, PollTypes, Prompts
<1>9. BoundariesOK'
  BY <1>1, <1>2, <1>6 DEF BoundariesOK, FailedAt, Precedes, StaysOf, PollTypes
<1>10. \A p \in Prompts : p # work => Final(p)' = Final(p)
  BY <1>2 DEF Final, Written, Present
<1>11. AnswersAreWhole'
  BY <1>1, <1>2, <1>10 DEF AnswersAreWhole, PollTypes, Final
<1>12. FailuresAreReal'
  BY <1>1, <1>2, <1>6, <1>10 DEF FailuresAreReal, PollTypes, Final, Precedes, StaysOf
<1> QED BY <1>3, <1>4, <1>5, <1>8, <1>9, <1>11, <1>12

\* Nothing OpenCode does on its own makes a call allowed.
OwnWrite(s, m) ==
  /\ m \in Messages /\ MessageOK(m) /\ StaysOf(log[work][s], m)
  /\ m.call = "allowed" => log[work][s].call = "allowed"

LEMMA MessagesOK ==
  ASSUME PollOK, work \in asked, NEW s \in Steps
  PROVE  /\ work \in Prompts /\ log[work][s] \in Messages /\ MessageOK(log[work][s])
         /\ log[work][s] = [state |-> log[work][s].state, call |-> log[work][s].call, input |-> log[work][s].input]
         /\ log[work][s].state \in {"absent", "open", "failed", "spoken", "mute"}
         /\ log[work][s].call \in {"none", "asking", "allowed", "complete", "failed"}
         /\ log[work][s].input \in Inputs \cup {NoInput, Foreign}
BY DEF PollOK, PollTypes, LogOK, Views, Messages, Completed

LEMMA Rewritten ==
  ASSUME NEW m \in Messages, NEW x
  PROVE  /\ [m EXCEPT !.call = x] = [state |-> m.state, call |-> x, input |-> m.input]
         /\ [m EXCEPT !.input = x] = [state |-> m.state, call |-> m.call, input |-> x]
         /\ [m EXCEPT !.state = x] = [state |-> x, call |-> m.call, input |-> m.input]
BY DEF Messages

LEMMA OwnWrites ==
  ASSUME PollOK, OpenCodeStep
  PROVE  \/ TakePrompt \/ BecomeIdle
         \/ \E s \in Steps : \E m \in Messages : work \in asked /\ OwnWrite(s, m) /\ Write(s, m)
<1>1. ASSUME NEW s \in Steps, NextStep(s)
      PROVE  \E m \in Messages : work \in asked /\ OwnWrite(s, m) /\ Write(s, m)
  <2> DEFINE m == [state |-> "open", call |-> "none", input |-> NoInput]
  <2>1. m \in Messages /\ m = [NoMessage EXCEPT !.state = "open"]
    BY DEF Messages, NoMessage
  <2>2. OwnWrite(s, m)
    BY <1>1, <2>1, MessagesOK, PromptsAssumption DEF NextStep, OwnWrite, MessageOK, StaysOf, Present, Completed
  <2> QED BY <1>1, <2>1, <2>2 DEF NextStep
<1>2. ASSUME NEW s \in Steps, NEW c \in ToolCalls, MakeCall(s, c)
      PROVE  \E m \in Messages : work \in asked /\ OwnWrite(s, m) /\ Write(s, m)
  <2> DEFINE m == [state |-> "open", call |-> c[1], input |-> c[2]]
  <2>0. /\ c[1] \in {"asking", "complete", "failed"} /\ c[2] \in Inputs \cup {NoInput, Foreign}
        /\ c[2] = Foreign => c[1] = "failed"
    BY PromptsAssumption DEF ToolCalls
  <2>1. m \in Messages
    BY <2>0 DEF Messages
  <2>2. OwnWrite(s, m)
    BY <1>2, <2>0, <2>1, MessagesOK DEF MakeCall, OwnWrite, MessageOK, StaysOf, Completed
  <2> QED BY <1>2, <2>1, <2>2 DEF MakeCall
<1>3. ASSUME NEW s \in Steps, NEW i \in Inputs, RewriteCall(s, i)
      PROVE  \E m \in Messages : work \in asked /\ OwnWrite(s, m) /\ Write(s, m)
  <2> DEFINE m == [state |-> log[work][s].state, call |-> log[work][s].call, input |-> i]
  <2>1. m \in Messages /\ m = [log[work][s] EXCEPT !.input = i]
    <3>1. m \in Messages
      BY <1>3, MessagesOK DEF Messages, RewriteCall, Completed
    <3>2. log[work][s] \in Messages
      BY <1>3, MessagesOK DEF RewriteCall
    <3>3. m = [log[work][s] EXCEPT !.input = i]
      BY <3>2, Rewritten
    <3> QED BY <3>1, <3>3
  <2>2. OwnWrite(s, m)
    BY <1>3, <2>1, MessagesOK, PromptsAssumption DEF RewriteCall, Asks, OwnWrite, MessageOK, StaysOf, Completed
  <2> QED BY <1>3, <2>1, <2>2 DEF RewriteCall
<1>4. ASSUME NEW s \in Steps, NEW end \in Completed \cup {"failed"}, EndStep(s, end)
      PROVE  \E m \in Messages : work \in asked /\ OwnWrite(s, m) /\ Write(s, m)
  <2> DEFINE m == [state |-> end, call |-> log[work][s].call, input |-> log[work][s].input]
  <2>1. m \in Messages /\ m = [log[work][s] EXCEPT !.state = end]
    <3>1. m \in Messages
      BY <1>4, MessagesOK DEF Messages, EndStep, Completed
    <3>2. m = [log[work][s] EXCEPT !.state = end]
      BY <1>4, MessagesOK, Rewritten DEF EndStep
    <3> QED BY <3>1, <3>2
  <2>2. OwnWrite(s, m)
    BY <1>4, <2>1, MessagesOK DEF EndStep, Waiting, OwnWrite, MessageOK, StaysOf, Completed, Messages
  <2> QED BY <1>4, <2>1, <2>2 DEF EndStep
<1> QED BY <1>1, <1>2, <1>3, <1>4 DEF OpenCodeStep

LEMMA TakeOrIdleKeepsPolls ==
  ASSUME PollOK, TakePrompt \/ BecomeIdle, UNCHANGED pollState
  PROVE  PollOK'
<1>1. /\ work' \in {0, work} /\ asked' \subseteq asked \cup {work} /\ asked \subseteq asked'
      /\ UNCHANGED <<log, rules, current, stage, prior, mine, installed, idle, view, failure,
                     evidence, candidate, outcome, answer, boundary, watch>>
      /\ work # 0 /\ work = current /\ work \in Prompts
  BY DEF PollOK, PollTypes, InTurn, Prompts, TakePrompt, BecomeIdle, pollState, pollVars, endVars
<1> USE <1>1 DEF PollOK
<1>2. PollTypes' /\ LogOK'
  BY DEF PollTypes, LogOK
<1>5. InTurn'
  BY DEF InTurn, Unasked, Prompts, PollTypes
<1>6. MineOK'
  BY DEF InTurn, MineOK, Unasked, TakePrompt, BecomeIdle
<1>3. IdleOK' /\ BoundariesOK'
  BY DEF IdleOK, BoundariesOK
<1>4. AnswersAreWhole' /\ FailuresAreReal'
  BY DEF AnswersAreWhole, FailuresAreReal, Final, Written, Present, Prompts
<1> QED BY <1>2, <1>3, <1>4, <1>5, <1>6

-----------------------------------------------------------------------------
(* The poll. *)

LEMMA AdvancedOK ==
  ASSUME NEW v \in Views, NEW w, Precedes(v, w), NEW f \in {0} \cup Steps, FailedAt(f, w)
  PROVE  Advanced(f, v) \in {0} \cup Steps /\ FailedAt(Advanced(f, v), w)
BY LastFailureIsLast DEF Advanced, FailedAt, Precedes, StaysOf

LEMMA StoppedKeepsPolls ==
  ASSUME PollOK, stage # "ready", EndsAs("stopped"), UNCHANGED <<asked, log, current, pollVars, boundary, watch>>,
         \/ UNCHANGED work
         \/ stage = "submit" /\ work' = current,
         rules' \in {rules, current}
  PROVE  PollOK'
<1> USE DEF PollOK, EndsAs
<1>1. /\ outcome' \in [Prompts -> Ended] /\ answer' \in [Prompts -> SUBSET Steps]
      /\ outcome'[current] = "stopped" /\ \A p \in Prompts : p # current => outcome'[p] = outcome[p] /\ answer'[p] = answer[p]
      /\ current \in Prompts
  BY DEF PollTypes, Ended
<1>2. PollTypes'
  BY <1>1 DEF PollTypes, pollVars
<1>3. LogOK' /\ MineOK'
  BY <1>1 DEF LogOK, MineOK, InTurn, pollVars, Unasked
<1>7. IdleOK' /\ BoundariesOK'
  BY <1>1 DEF IdleOK, BoundariesOK, MineOK, InTurn, pollVars, Unasked
<1>4. InTurn'
  BY <1>1 DEF InTurn, Unasked, Undecided, PollTypes, Prompts
<1>5. \A p \in Prompts : p # current /\ outcome[p] # "none" => work # p /\ work' # p
  BY <1>1 DEF InTurn, PollTypes, Prompts
<1>6. AnswersAreWhole' /\ FailuresAreReal'
  BY <1>1, <1>5 DEF AnswersAreWhole, FailuresAreReal, Final, Written, Present
<1> QED BY <1>2, <1>3, <1>4, <1>6, <1>7

LEMMA ReadBeforeKeepsPolls == PollOK /\ ReadBefore => PollOK'
<1> SUFFICES ASSUME PollOK, ReadBefore PROVE PollOK'
  OBVIOUS
<1> USE DEF PollOK, ReadBefore, openCodeVars, endVars, snapshotVars
<1>1. NoView \in Views
  BY DEF NoView, Views, NoMessage, Messages
<1>2. PollTypes'
  BY <1>1 DEF PollTypes, Undecided, Unasked, NoEvidence
<1>3. LogOK' /\ InTurn' /\ IdleOK'
  BY DEF LogOK, InTurn, IdleOK, Unasked, Undecided
<1>6. MineOK'
  BY DEF MineOK, InTurn, Unasked, PollTypes, Prompts
<1>4. BoundariesOK'
  BY DEF BoundariesOK, FailedAt, NoEvidence
<1>5. AnswersAreWhole' /\ FailuresAreReal'
  BY DEF AnswersAreWhole, FailuresAreReal, Final, Written, Present
<1> QED BY <1>2, <1>3, <1>4, <1>5, <1>6

\* The steps that only move the prompt along.
LEMMA MovesKeepPolls ==
  ASSUME PollOK,
         \/ InstallRules /\ stage' = "submit"
         \/ Submit /\ stage' = "status"
         \/ ReadStatus
         \/ LookAgain /\ stage' = "status"
         \/ Conclude \/ CloseRules \/ NextPrompt
  PROVE  PollOK'
<1> USE DEF PollOK, openCodeVars, endVars, snapshotVars
<1>0. PollTypes /\ InTurn /\ (NextPrompt => work = 0 /\ current + 1 \in Prompts)
  BY PromptsAssumption DEF AnswersAreWhole, NextPrompt, InTurn, PollTypes, Prompts
<1>7. UNCHANGED <<asked, log, prior, mine, view, failure, evidence, outcome, answer, boundary, watch>>
  BY DEF pollVars, InstallRules, Submit, ReadStatus, Conclude, CloseRules, NextPrompt, LookAgain, EndsAs, Undecided, Unasked
<1>8. candidate' \in {candidate, NoView} /\ NoView \in Views
  BY DEF pollVars, InstallRules, Submit, ReadStatus, Conclude, CloseRules, NextPrompt, LookAgain, NoView, Views, NoMessage, Messages
<1>9. \/ /\ work' \in {work, current} /\ current' = current /\ rules' \in {rules, 0, current}
         /\ stage \in {"rules", "submit"} => stage' \in {"submit", "status"}
         /\ stage \in Undecided => stage' \in Undecided
         /\ stage' = "submit" => rules' = current /\ work' = work /\ stage = "rules"
         /\ stage' = "status" => rules' = rules /\ stage \in {"submit", "again"}
         /\ stage' = "messages" => rules' = rules /\ stage = "status" /\ work' = work
         /\ stage' \in {"submit", "status", "messages", "close", "over"}
         /\ work' # work => stage \in Undecided
      \/ /\ work' = work /\ work = 0 /\ current' = current + 1 /\ current' \in Prompts /\ stage' = "ready" /\ rules' = rules
  BY <1>0 DEF InTurn, Unasked, Undecided, InstallRules, Submit, ReadStatus, Conclude, CloseRules, NextPrompt, LookAgain, EndsAs
<1>10. installed' \in BOOLEAN /\ idle' \in BOOLEAN
  BY <1>0 DEF PollTypes, pollVars, InstallRules, Submit, ReadStatus, Conclude, CloseRules, NextPrompt, LookAgain
<1>1. PollTypes'
  <2>1. work' \in {0} \cup Prompts /\ rules' \in {0} \cup Prompts /\ current' \in Prompts
    BY <1>0, <1>9 DEF PollTypes
  <2>2. stage' \in Undecided \cup {"checking", "close", "over"}
    BY <1>9 DEF Undecided, Unasked
  <2> QED BY <1>0, <1>7, <1>8, <1>10, <2>1, <2>2 DEF PollTypes
<1>2. LogOK'
  BY DEF LogOK, InstallRules, Submit, ReadStatus, Conclude, CloseRules, NextPrompt, LookAgain
<1>3. InTurn'
  <2>1. current \in Nat /\ MaxPrompts \in Nat
    BY <1>0, PromptsAssumption DEF PollTypes, Prompts
  <2>2. CASE current' = current
    BY <1>0, <1>7, <1>9, <2>1, <2>2 DEF InTurn, Undecided, Unasked
  <2>3. CASE current' = current + 1
    BY <1>0, <1>7, <1>9, <2>1, <2>3 DEF InTurn, Prompts, Undecided, Unasked
  <2> QED BY <1>9, <2>2, <2>3
<1>4. MineOK' /\ IdleOK'
  BY <1>0 DEF MineOK, IdleOK, InTurn, Unasked, pollVars, InstallRules, Submit, ReadStatus, Conclude, CloseRules, NextPrompt, LookAgain, EndsAs
<1>5. BoundariesOK'
  BY <1>0 DEF BoundariesOK, FailedAt, pollVars, InstallRules, Submit, ReadStatus, Conclude, CloseRules, NextPrompt, LookAgain, EndsAs
<1>6. AnswersAreWhole' /\ FailuresAreReal'
  <2>1. /\ UNCHANGED <<log, outcome, answer>>
        /\ work' # work => work' = current /\ outcome[current] = "none"
    BY <1>0 DEF InTurn, Unasked, Undecided, InstallRules, Submit, ReadStatus, Conclude, CloseRules, NextPrompt, LookAgain, EndsAs
  <2> QED BY <2>1 DEF AnswersAreWhole, FailuresAreReal, Final, Written, Present
<1> QED BY <1>1, <1>2, <1>3, <1>4, <1>5, <1>6

LEMMA ReadMessagesKeepsPolls == PollOK /\ ReadMessages => PollOK'
<1> SUFFICES ASSUME PollOK, ReadMessages PROVE PollOK'
  OBVIOUS
<1> USE DEF PollOK, openCodeVars, endVars, snapshotVars
<1>1. FirstNew \in {0, current} /\ (FirstNew = current => current \in asked)
  BY DEF FirstNew, MineOK, ReadMessages, PollTypes
<1>2. mine' \in {0, current} /\ (mine' = current => current \in asked) /\ current \in Prompts /\ current # 0
  BY <1>1 DEF MineOK, ReadMessages, PollTypes, Prompts
<1>3. stage' \in {"status", "observe"} /\ (stage' = "observe" => mine' = current /\ view' = log[current])
  BY <1>2 DEF ReadMessages
<1>4. UNCHANGED <<openCodeVars, current, prior, installed, idle, failure, evidence, candidate, endVars, snapshotVars>>
      /\ (stage' # "observe" => view' = view) /\ stage = "messages"
  BY DEF ReadMessages
<1>5. PollTypes'
  BY <1>2, <1>3, <1>4 DEF PollTypes, Undecided, Unasked
<1>6. LogOK' /\ InTurn' /\ MineOK'
  BY <1>2, <1>3, <1>4 DEF LogOK, InTurn, MineOK, Unasked, Undecided
<1>7. IdleOK' /\ BoundariesOK'
  BY <1>2, <1>3, <1>4 DEF IdleOK, BoundariesOK, Precedes, StaysOf, FailedAt
<1>8. AnswersAreWhole' /\ FailuresAreReal'
  BY <1>4 DEF AnswersAreWhole, FailuresAreReal, Final, Written, Present
<1> QED BY <1>5, <1>6, <1>7, <1>8

\* What a poll makes of the messages it read.
LEMMA ObservedOK ==
  ASSUME PollOK, stage = "observe", NEW f \in {0} \cup Steps, FailedAt(f, log[current]),
         NEW g \in [Steps -> {"none", "pending", "complete", "failed"}],
         \A s \in Steps : g[s] = "failed" => s > f /\ log[current][s].call = "failed"
  PROVE  LET e == Observed(g, view, Attempt(view, f)) IN
         /\ e \in [Steps -> {"none", "pending", "complete", "failed"}]
         /\ \A s \in Steps : e[s] = "failed" => s > f /\ log[current][s].call = "failed"
         /\ \A s \in Attempt(view, f) : view[s].call = "failed" => e[s] = "failed"
<1> DEFINE e == Observed(g, view, Attempt(view, f))
<1>1. view \in Views /\ Precedes(view, log[current])
  BY DEF PollOK, PollTypes, IdleOK
<1>2. \A s \in Steps : CallEvidence(view[s].call) \in {"none", "pending", "complete", "failed"}
                      /\ (CallEvidence(view[s].call) = "failed" <=> view[s].call = "failed")
  BY <1>1 DEF CallEvidence, Views, Messages
<1>3. \A a, b \in {"none", "pending", "complete", "failed"} :
        /\ Merged(a, b) \in {"none", "pending", "complete", "failed"}
        /\ Merged(a, b) = "failed" <=> a = "failed" \/ b = "failed"
  BY DEF Merged
<1>4. \A s \in Attempt(view, f) : s \in Steps /\ s > f
  BY DEF Attempt, Written
<1>5. e \in [Steps -> {"none", "pending", "complete", "failed"}]
  BY <1>2, <1>3 DEF Observed
<1>6. ASSUME NEW s \in Steps, e[s] = "failed" PROVE s > f /\ log[current][s].call = "failed"
  BY <1>1, <1>2, <1>3, <1>4, <1>6 DEF Observed, Precedes, StaysOf
<1>7. ASSUME NEW s \in Attempt(view, f), view[s].call = "failed" PROVE e[s] = "failed"
  BY <1>2, <1>3, <1>4, <1>7 DEF Observed
<1> QED BY <1>5, <1>6, <1>7

LEMMA ObserveKeepsPolls == PollOK /\ Observe => PollOK'
<1> SUFFICES ASSUME PollOK, Observe PROVE PollOK'
  OBVIOUS
<1> DEFINE shared == IF boundary[current].failure # 0 THEN boundary[current].failure ELSE failure
           f == Advanced(shared, view)
           g == IF f = failure THEN evidence ELSE NoEvidence
           e == Observed(g, view, Attempt(view, f))
<1>1. /\ stage = "observe" /\ mine = current /\ current \in asked /\ current \in Prompts /\ view \in Views
      /\ Precedes(view, log[current]) /\ (idle => view = log[current] /\ work = 0)
      /\ outcome[current] = "none" /\ rules = current
  BY DEF PollOK, PollTypes, InTurn, MineOK, IdleOK, Observe, Undecided, Unasked
<1>2. shared \in {0} \cup Steps /\ FailedAt(shared, log[current])
  BY <1>1 DEF PollOK, PollTypes, BoundariesOK
<1>3. f \in {0} \cup Steps /\ FailedAt(f, log[current])
  BY <1>1, <1>2, AdvancedOK
<1>4. /\ g \in [Steps -> {"none", "pending", "complete", "failed"}]
      /\ \A s \in Steps : g[s] = "failed" => s > f /\ log[current][s].call = "failed"
  <2>1. CASE f = failure
    BY <1>1, <2>1 DEF PollOK, PollTypes, BoundariesOK
  <2>2. CASE f # failure
    BY <2>2 DEF NoEvidence
  <2> QED BY <2>1, <2>2
<1>5. /\ e \in [Steps -> {"none", "pending", "complete", "failed"}]
      /\ \A s \in Steps : e[s] = "failed" => s > f /\ log[current][s].call = "failed"
      /\ \A s \in Attempt(view, f) : view[s].call = "failed" => e[s] = "failed"
  <2> HIDE DEF g, f
  <2> QED BY <1>1, <1>3, <1>4, ObservedOK
<1>6. idle => f = LastFailure(log[current]) /\ Known(view, f) /\ Attempt(view, f) = Final(current)
  <2> SUFFICES ASSUME idle PROVE f = LastFailure(log[current]) /\ Known(view, f) /\ Attempt(view, f) = Final(current)
    OBVIOUS
  <2>1. view = log[current]
    BY <1>1
  <2>2. shared \in Nat /\ LastFailure(view) \in Nat /\ shared <= LastFailure(view)
    BY <1>2, <2>1, LastFailureIsLast, PromptsAssumption DEF FailedAt, Steps
  <2>3. f = LastFailure(view)
    BY <1>2, <2>1, <2>2 DEF Advanced, Known, FailedAt, Present
  <2>4. Known(view, f)
    BY <1>3, <2>1 DEF Known, FailedAt, Present
  <2> HIDE DEF f
  <2> QED BY <2>1, <2>3, <2>4 DEF Attempt, Final
<1>7. /\ failure' = f /\ evidence' = e /\ Decided(view, f, e) /\ view' = NoView
      /\ boundary' = [boundary EXCEPT ![current] = [user |-> IF @.user = 0 THEN mine ELSE @.user,
                                                  failure |-> IF f = shared THEN @.failure ELSE f]]
      /\ UNCHANGED <<work, asked, log, rules, current, prior, mine, installed, idle, watch>>
  BY DEF Observe, openCodeVars
<1>8. /\ boundary' \in [Prompts -> [user : {0} \cup Prompts, failure : {0} \cup Steps]]
      /\ \A p \in Prompts : FailedAt(boundary'[p].failure, log[p])
  <2> HIDE DEF f, shared
  <2> DEFINE b == [user |-> IF boundary[current].user = 0 THEN mine ELSE boundary[current].user,
                   failure |-> IF f = shared THEN boundary[current].failure ELSE f]
  <2>1. b \in [user : {0} \cup Prompts, failure : {0} \cup Steps] /\ FailedAt(b.failure, log[current])
    BY <1>1, <1>3 DEF PollOK, PollTypes, BoundariesOK
  <2>2. boundary' = [boundary EXCEPT ![current] = b]
    BY <1>7
  <2> HIDE DEF b
  <2> QED BY <1>1, <2>1, <2>2 DEF PollOK, PollTypes, BoundariesOK
<1> HIDE DEF f, g, e, shared
<1>9. ToolState(e) = "complete" => \A s \in Attempt(view, f) : view[s].call # "failed"
  BY <1>5 DEF ToolState, Attempt, Written
<1>10. ToolState(e) = "failed" => \E s \in Steps : e[s] = "failed"
  BY DEF ToolState
\* What is decided is so of the log.
<1> DEFINE Sound(how, ans) ==
             /\ how \in Ended /\ ans \in SUBSET Steps
             /\ how = "answered" =>
                  /\ work # current /\ ans = Final(current)
                  /\ \A s \in Final(current) :
                       log[current][s].state \in Completed /\ log[current][s].call \in {"none", "complete"}
                  /\ \E s \in Final(current) : log[current][s].state = "spoken"
             /\ how = "error" => work # current /\ Final(current) = {}
             /\ how = "toolFailed" => work # current /\ \E s \in Final(current) : log[current][s].call = "failed"
             /\ how = "incomplete" => work # current /\ \E s \in Final(current) : log[current][s].state = "open"
             /\ how = "forbidden" => \E s \in Steps : log[current][s].input = Foreign
<1>11. ASSUME NEW how, NEW ans, Sound(how, ans), stage' \in {"checking", "close"}, candidate' = candidate,
              outcome' = [outcome EXCEPT ![current] = how], answer' = [answer EXCEPT ![current] = ans]
       PROVE  PollOK'
  <2> HIDE DEF Sound
  <2>1. /\ outcome' \in [Prompts -> Ended] /\ answer' \in [Prompts -> SUBSET Steps]
        /\ outcome'[current] = how /\ answer'[current] = ans
        /\ \A p \in Prompts : p # current => outcome'[p] = outcome[p] /\ answer'[p] = answer[p]
    BY <1>1, <1>11 DEF PollOK, PollTypes, Sound
  <2>2. PollTypes'
    BY <1>3, <1>5, <1>7, <1>8, <1>11, <2>1 DEF PollOK, PollTypes, NoView, Views, NoMessage, Messages
  <2>3. LogOK' /\ MineOK' /\ IdleOK'
    BY <1>1, <1>7, <1>11 DEF PollOK, LogOK, MineOK, IdleOK
  <2>4. InTurn'
    BY <1>1, <1>7, <1>11, <2>1 DEF PollOK, InTurn, Undecided, Unasked, PollTypes, Prompts
  <2>5. BoundariesOK'
    BY <1>1, <1>3, <1>5, <1>7, <1>8, <1>11 DEF BoundariesOK
  <2>6. \A p \in Prompts : Final(p)' = Final(p)
    BY <1>7 DEF Final, Written, Present
  <2>7. AnswersAreWhole'
    BY <1>7, <1>11, <2>1, <2>6 DEF PollOK, AnswersAreWhole, Sound
  <2>8. FailuresAreReal'
    BY <1>7, <1>11, <2>1, <2>6 DEF PollOK, FailuresAreReal, Sound
  <2> QED BY <2>2, <2>3, <2>4, <2>5, <2>7, <2>8 DEF PollOK
<1>12. CASE Ungranted(view, f)
  <2>1. Sound("forbidden", {})
    BY <1>1, <1>12 DEF Ungranted, Attempt, Written, Precedes, StaysOf, Ended
  <2> HIDE DEF Sound
  <2> QED BY <1>7, <1>11, <1>12, <2>1 DEF Decided, EndsAs
<1>13. CASE ~Ungranted(view, f) /\ \E how \in Conclusions : Concludes(view, f, e, how)
  <2>1. PICK how \in Conclusions :
          /\ Concludes(view, f, e, how)
          /\ outcome' = [outcome EXCEPT ![current] = how]
          /\ answer' = [answer EXCEPT ![current] = IF how = "answered" THEN Response(view, f) ELSE {}]
          /\ stage' = "checking" /\ UNCHANGED candidate
    BY <1>7, <1>13 DEF Decided
  <2>2. idle /\ view = log[current] /\ work = 0 /\ current # 0 /\ Attempt(view, f) = Final(current)
        /\ f = LastFailure(log[current])
    BY <1>1, <1>6, <2>1 DEF Concludes, Prompts
  <2>3. \A s \in Attempt(view, f) : log[current][s].call \in {"none", "asking", "allowed", "complete", "failed"} /\ MessageOK(log[current][s])
    BY <1>1 DEF PollOK, PollTypes, LogOK, Views, Messages, Attempt, Written
  <2>4. CASE how = "answered"
    <3>1. AllCompleted(view, f) /\ HasText(view, f) /\ ToolState(e) = "complete"
      BY <2>1, <2>4 DEF Concludes
    <3>2. \A s \in Final(current) : log[current][s].state \in Completed /\ log[current][s].call \in {"none", "complete"}
      BY <1>9, <2>2, <2>3, <3>1 DEF AllCompleted, MessageOK, Completed
    <3>3. Sound("answered", Response(view, f))
      BY <2>2, <3>1, <3>2 DEF HasText, Response, Ended, Final, Written
    <3> HIDE DEF Sound
    <3> QED BY <1>11, <2>1, <2>4, <3>3
  <2>5. CASE how = "error"
    <3>1. Sound("error", {})
      BY <2>1, <2>2, <2>5 DEF Concludes, Ended
    <3> HIDE DEF Sound
    <3> QED BY <1>11, <2>1, <2>5, <3>1
  <2>6. CASE how = "toolFailed"
    <3>1. PICK s \in Steps : e[s] = "failed"
      BY <1>10, <2>1, <2>6 DEF Concludes
    <3>2. s \in Final(current) /\ log[current][s].call = "failed"
      BY <1>1, <1>5, <2>2, <3>1 DEF PollOK, LogOK, MessageOK, Final, Written, Present
    <3>3. Sound("toolFailed", {})
      BY <2>2, <3>2 DEF Ended
    <3> HIDE DEF Sound
    <3> QED BY <1>11, <2>1, <2>6, <3>3
  <2> QED BY <2>1, <2>4, <2>5, <2>6 DEF Conclusions
<1>14. CASE ~Ungranted(view, f) /\ ~\E how \in Conclusions : Concludes(view, f, e, how)
  <2>1. /\ UNCHANGED <<outcome, answer>> /\ candidate' \in {view, NoView} /\ stage' \in {"status", "again"}
        /\ stage' = "again" => IdleIncomplete(view, f, e) /\ candidate' = view
    BY <1>7, <1>14 DEF Decided, endVars
  <2>2. stage' = "again" => idle /\ view = log[current] /\ work = 0
           /\ \E s \in Steps : s > LastFailure(view) /\ view[s].state = "open"
    BY <1>1, <1>6, <2>1 DEF IdleIncomplete, Attempt, Written
  <2>3. NoView \in Views
    BY DEF NoView, Views, NoMessage, Messages
  <2>4. PollTypes'
    BY <1>1, <1>3, <1>5, <1>7, <1>8, <2>1, <2>3 DEF PollOK, PollTypes, Undecided
  <2>5. LogOK' /\ MineOK' /\ IdleOK'
    BY <1>1, <1>7, <2>1, <2>2 DEF PollOK, LogOK, MineOK, IdleOK
  <2>6. InTurn'
    BY <1>1, <1>7, <2>1 DEF PollOK, InTurn, Undecided, Unasked
  <2>7. BoundariesOK'
    BY <1>3, <1>5, <1>7, <1>8, <2>1, <2>2 DEF BoundariesOK
  <2>8. AnswersAreWhole' /\ FailuresAreReal'
    BY <1>7, <2>1 DEF PollOK, AnswersAreWhole, FailuresAreReal, Final, Written, Present
  <2> QED BY <2>4, <2>5, <2>6, <2>7, <2>8 DEF PollOK
<1> QED BY <1>12, <1>13, <1>14

LEMMA IncompleteKeepsPolls == PollOK /\ LookAgain /\ stage' = "close" => PollOK'
<1> SUFFICES ASSUME PollOK, LookAgain, stage' = "close" PROVE PollOK'
  OBVIOUS
<1>1. /\ stage = "again" /\ EndsAs("incomplete") /\ work = 0 /\ log[current] = candidate /\ mine = current
      /\ current \in Prompts /\ current # 0
      /\ \E s \in Steps : s > LastFailure(log[current]) /\ log[current][s].state = "open"
  BY DEF LookAgain, PollOK, PollTypes, MineOK, BoundariesOK, Prompts
<1>2. /\ candidate' = NoView /\ UNCHANGED <<openCodeVars, current, prior, mine, installed, idle, view, failure, evidence, boundary, watch>>
  BY DEF LookAgain, snapshotVars
<1>3. /\ outcome' \in [Prompts -> Ended] /\ answer' \in [Prompts -> SUBSET Steps]
      /\ outcome'[current] = "incomplete" /\ \A p \in Prompts : p # current => outcome'[p] = outcome[p] /\ answer'[p] = answer[p]
  BY <1>1 DEF PollOK, PollTypes, Ended, EndsAs
<1>4. PollTypes'
  BY <1>2, <1>3 DEF PollOK, PollTypes, openCodeVars, NoView, Views, NoMessage, Messages
<1>5. LogOK' /\ MineOK' /\ IdleOK' /\ BoundariesOK'
  BY <1>1, <1>2 DEF PollOK, LogOK, MineOK, IdleOK, BoundariesOK, FailedAt, openCodeVars
<1>6. InTurn'
  BY <1>1, <1>2, <1>3 DEF PollOK, InTurn, Undecided, Unasked, PollTypes, Prompts, openCodeVars
<1>7. Final(current) = {s \in Steps : log[current][s].state # "absent" /\ s > LastFailure(log[current])}
  BY DEF Final, Written, Present
<1>8. AnswersAreWhole' /\ FailuresAreReal'
  <2>1. \A p \in Prompts : Final(p)' = Final(p)
    BY <1>2 DEF Final, Written, Present, openCodeVars
  <2>2. \E s \in Final(current) : log[current][s].state = "open"
    BY <1>1, <1>7
  <2>3. AnswersAreWhole'
    BY <1>2, <1>3, <2>1 DEF PollOK, AnswersAreWhole, openCodeVars
  <2>4. FailuresAreReal'
    BY <1>1, <1>2, <1>3, <2>1, <2>2 DEF PollOK, FailuresAreReal, openCodeVars
  <2> QED BY <2>3, <2>4
<1> QED BY <1>4, <1>5, <1>6, <1>8 DEF PollOK

LEMMA ReleaseKeepsPolls == PollOK /\ Release => PollOK'
<1> SUFFICES ASSUME PollOK, Release PROVE PollOK'
  OBVIOUS
<1>1. /\ work' \in {work, 0} /\ stage = "over"
      /\ UNCHANGED <<asked, log, rules, current, stage, prior, mine, installed, idle, view, failure, evidence, candidate,
                     outcome, answer, boundary, watch>>
  BY DEF Release, pollVars, endVars
<1> USE <1>1 DEF PollOK
<1>2. PollTypes' /\ LogOK' /\ InTurn' /\ MineOK'
  BY DEF PollTypes, LogOK, InTurn, MineOK, Undecided, Unasked
<1>3. IdleOK' /\ BoundariesOK'
  BY DEF IdleOK, BoundariesOK
<1>4. AnswersAreWhole' /\ FailuresAreReal'
  BY DEF AnswersAreWhole, FailuresAreReal, Final, Written, Present, Prompts
<1> QED BY <1>2, <1>3, <1>4

LEMMA PromptKeepsPolls == PollOK /\ PromptStep => PollOK'
<1> SUFFICES ASSUME PollOK, PromptStep PROVE PollOK'
  OBVIOUS
<1> USE DEF snapshotVars
<1>1. CASE ReadBefore
  BY <1>1, ReadBeforeKeepsPolls
<1>2. CASE InstallRules
  BY <1>2, MovesKeepPolls, StoppedKeepsPolls DEF InstallRules, pollVars
<1>3. CASE Submit
  BY <1>3, MovesKeepPolls, StoppedKeepsPolls DEF Submit
<1>4. CASE ReadStatus \/ Conclude \/ CloseRules \/ NextPrompt
  BY <1>4, MovesKeepPolls
<1>5. CASE ReadMessages
  BY <1>5, ReadMessagesKeepsPolls
<1>6. CASE Observe
  BY <1>6, ObserveKeepsPolls
<1>7. CASE LookAgain
  <2>1. stage' \in {"close", "status"}
    BY <1>7 DEF LookAgain, EndsAs
  <2> QED BY <1>7, <2>1, MovesKeepPolls, IncompleteKeepsPolls
<1>8. CASE GiveUp
  BY <1>8, StoppedKeepsPolls DEF GiveUp, Polling, openCodeVars
<1>9. CASE Release
  BY <1>9, ReleaseKeepsPolls
<1> QED BY <1>1, <1>2, <1>3, <1>4, <1>5, <1>6, <1>7, <1>8, <1>9 DEF PromptStep

-----------------------------------------------------------------------------
(* Snapshots. *)

LEMMA SnapshotKeepsPolls ==
  ASSUME PollOK, NEW p \in Prompts, NEW v \in Views, Precedes(v, log[p]), Snapshot(p, v), watch' \in {watch, NoWatch},
         UNCHANGED <<openCodeVars, current, stage, pollVars, endVars>>
  PROVE  PollOK' /\ shown' \subseteq Ids /\ authorities' \subseteq Ids
<1> DEFINE f == Advanced(boundary[p].failure, v)
<1>1. f \in {0} \cup Steps /\ FailedAt(f, log[p]) /\ boundary[p] \in [user : {0} \cup Prompts, failure : {0} \cup Steps]
  BY AdvancedOK DEF PollOK, PollTypes, BoundariesOK
<1>2. boundary' = boundary \/ boundary' = [boundary EXCEPT ![p].failure = f]
  BY DEF Snapshot
<1>3. shown' \subseteq Ids /\ authorities' \subseteq Ids
  BY DEF Snapshot, PendingRequests
<1> HIDE DEF f
<1>4. /\ boundary' \in [Prompts -> [user : {0} \cup Prompts, failure : {0} \cup Steps]]
      /\ \A q \in Prompts : FailedAt(boundary'[q].failure, log[q])
  <2>1. CASE boundary' = boundary
    BY <2>1 DEF PollOK, PollTypes, BoundariesOK
  <2>2. CASE boundary' = [boundary EXCEPT ![p].failure = f]
    <3> DEFINE b == [user |-> boundary[p].user, failure |-> f]
    <3>1. b \in [user : {0} \cup Prompts, failure : {0} \cup Steps] /\ b.failure = f
      BY <1>1
    <3>2. [boundary[p] EXCEPT !.failure = f] = b
      BY <1>1
    <3>3. boundary' = [boundary EXCEPT ![p] = b]
      BY <2>2, <3>2
    <3> HIDE DEF b
    <3> QED BY <1>1, <3>1, <3>3 DEF PollOK, PollTypes, BoundariesOK
  <2> QED BY <1>2, <2>1, <2>2
<1>5. PollTypes'
  <2>1. watch' \in [on : BOOLEAN, of : Prompts, view : Views]
    <3>1. NoView \in Views
      BY DEF NoView, Views, NoMessage, Messages
    <3>2. NoWatch \in [on : BOOLEAN, of : Prompts, view : Views]
      BY <3>1, PromptsAssumption DEF NoWatch, Prompts
    <3> QED BY <3>2 DEF PollOK, PollTypes
  <2> QED BY <1>4, <2>1 DEF PollOK, PollTypes, openCodeVars, pollVars, endVars
<1>6. LogOK' /\ InTurn' /\ MineOK' /\ IdleOK'
  BY DEF PollOK, LogOK, InTurn, MineOK, IdleOK, openCodeVars, pollVars, endVars, NoWatch
<1>7. BoundariesOK'
  BY <1>4 DEF PollOK, BoundariesOK, openCodeVars, pollVars
<1>8. AnswersAreWhole' /\ FailuresAreReal'
  BY DEF PollOK, AnswersAreWhole, FailuresAreReal, Final, Written, Present, openCodeVars, endVars
<1> QED BY <1>3, <1>5, <1>6, <1>7, <1>8 DEF PollOK

LEMMA NowOK ==
  ASSUME PollOK
  PROVE  /\ current \in Prompts /\ Now \in Views /\ Precedes(Now, log[current])
         /\ \A id \in PendingNow : id \in Ids /\ id.prompt = current
BY DEF PollOK, PollTypes, Precedes, StaysOf, Now, PendingNow, PendingRequests

\* A step of the user's answer takes a snapshot, or has OpenCode take the answer.
LEMMA InteractionKeepsPolls ==
  ASSUME PromptsInv, InteractionStep
  PROVE  PollOK' /\ shown' \subseteq Ids /\ authorities' \subseteq Ids
<1>1. PollOK /\ shown \subseteq Ids /\ authorities \subseteq Ids
  BY DEF PromptsInv, ApprovalsOK, ApprovalTypes
<1>2. CASE WatchRead
  <2>1. watch' = [on |-> TRUE, of |-> current, view |-> log[current]]
        /\ UNCHANGED <<openCodeVars, current, stage, pollVars, endVars, boundary, shown, authorities>>
    BY <1>2 DEF WatchRead, Now
  <2>2. watch' \in [on : BOOLEAN, of : Prompts, view : Views] /\ Precedes(watch'.view, log[watch'.of])
    BY <1>1, <2>1 DEF PollOK, PollTypes, Precedes, StaysOf
  <2>3. PollTypes' /\ LogOK' /\ InTurn' /\ MineOK'
    BY <1>1, <2>1, <2>2 DEF PollOK, PollTypes, LogOK, InTurn, MineOK, openCodeVars, pollVars, endVars
  <2>4. IdleOK' /\ BoundariesOK'
    BY <1>1, <2>1, <2>2 DEF PollOK, IdleOK, BoundariesOK, openCodeVars, pollVars, endVars
  <2>5. AnswersAreWhole' /\ FailuresAreReal'
    BY <1>1, <2>1 DEF PollOK, AnswersAreWhole, FailuresAreReal, Final, Written, Present, openCodeVars, endVars
  <2> QED BY <1>1, <2>1, <2>3, <2>4, <2>5 DEF PollOK
<1>3. CASE WatchApply
  <2>1. watch.of \in Prompts /\ watch.view \in Views /\ Precedes(watch.view, log[watch.of])
    BY <1>1, <1>3 DEF PollOK, PollTypes, IdleOK, WatchApply
  <2> QED BY <1>1, <1>3, <2>1, SnapshotKeepsPolls DEF WatchApply
<1>4. CASE Snapshot(current, Now) /\ UNCHANGED openCodeVars /\ ReplyFrame
  BY <1>1, <1>4, NowOK, SnapshotKeepsPolls DEF ReplyFrame
<1>5. CASE UNCHANGED <<openCodeVars, boundary>> /\ shown' = shown /\ authorities' \subseteq authorities /\ ReplyFrame
  BY <1>1, <1>5, PollRests DEF ReplyFrame, pollState
<1>6. CASE SendReply /\ Taken(reply.id, reply.once)
  <2> DEFINE s == reply.id.step
             m == [state |-> log[work][s].state, call |-> IF reply.once THEN "allowed" ELSE "failed", input |-> log[work][s].input]
  <2>1. work \in asked /\ s \in Steps /\ log[work][s].state = "open" /\ log[work][s].call = "asking"
        /\ Write(s, [log[work][s] EXCEPT !.call = IF reply.once THEN "allowed" ELSE "failed"])
    BY <1>6 DEF SendReply, Taken, Asks, PromptsInv, ApprovalsOK, ApprovalTypes, Ids
  <2>2. log[work][s] \in Messages
    BY <1>1, <2>1, MessagesOK
  <2>3. [log[work][s] EXCEPT !.call = IF reply.once THEN "allowed" ELSE "failed"] = m
    <3> HIDE DEF s
    <3> QED BY <2>2, Rewritten
  <2>4. m \in Messages
    BY <1>1, <2>1, MessagesOK DEF Messages, Completed
  <2>5. MessageOK(m) /\ StaysOf(log[work][s], m)
    BY <1>1, <2>1, MessagesOK DEF MessageOK, StaysOf, Completed
  <2>6. UNCHANGED <<pollState, shown, authorities>>
    BY <1>6 DEF SendReply, ReplyFrame, pollState
  <2> HIDE DEF m, s
  <2> QED BY <1>1, <2>1, <2>3, <2>4, <2>5, <2>6, WriteKeepsPolls
<1>7. \/ WatchRead \/ WatchApply
      \/ Snapshot(current, Now) /\ UNCHANGED openCodeVars /\ ReplyFrame
      \/ UNCHANGED <<openCodeVars, boundary>> /\ shown' = shown /\ authorities' \subseteq authorities /\ ReplyFrame
      \/ SendReply /\ Taken(reply.id, reply.once)
  BY DEF InteractionStep, Respond, ResolveAuthority, ReadVisible, Reprove, SendReply
<1> QED BY <1>2, <1>3, <1>4, <1>5, <1>6, <1>7

-----------------------------------------------------------------------------
(* Approvals. *)

\* They stand while nothing they are about changes.
LEMMA ApprovalsRest ==
  ASSUME ApprovalsOK, UNCHANGED <<current, released, shown, authorities, reply, approvalVars>>,
         stage' = "ready" <=> stage = "ready",
         \A s \in Steps : log'[current][s].call = "allowed" => log[current][s].call = "allowed"
  PROVE  ApprovalsOK'
<1>1. ApprovalTypes'
  BY DEF ApprovalsOK, ApprovalTypes, approvalVars
<1>2. OneInput'
  BY DEF ApprovalsOK, OneInput, InFlight, approvalVars
<1>3. ApprovalsAreAnswered' /\ RanAsApproved'
  BY DEF ApprovalsOK, ApprovalsAreAnswered, RanAsApproved, approvalVars
<1> QED BY <1>1, <1>2, <1>3 DEF ApprovalsOK

LEMMA PromptKeepsApprovals == PromptsInv /\ PromptStep => ApprovalsOK'
<1> SUFFICES ASSUME PromptsInv, PromptStep PROVE ApprovalsOK'
  OBVIOUS
<1> USE DEF openCodeVars, snapshotVars
<1>0. PollOK /\ ApprovalsOK
  BY DEF PromptsInv
<1>1. CASE InstallRules \/ Submit \/ ReadStatus \/ ReadMessages \/ Observe \/ LookAgain \/ Conclude \/ GiveUp \/ CloseRules
  <2>1. UNCHANGED <<current, released, shown, authorities, reply, approvalVars, log>>
    BY <1>1 DEF InstallRules, Submit, ReadStatus, ReadMessages, Observe, LookAgain, Conclude, GiveUp, CloseRules
  <2>2. stage # "ready"
    BY <1>1 DEF InstallRules, Submit, ReadStatus, ReadMessages, Observe, LookAgain, Conclude, GiveUp, CloseRules, Polling
  <2>3. stage' # "ready"
    BY <1>1 DEF InstallRules, Submit, ReadStatus, ReadMessages, Observe, Decided, EndsAs, LookAgain, Conclude, GiveUp, CloseRules
  <2> QED BY <1>0, <2>1, <2>2, <2>3, ApprovalsRest
<1>2. CASE ReadBefore
  <2>1. \A s \in Steps : log[current][s].call = "none"
    BY <1>0, <1>2 DEF ReadBefore, PollOK, PollTypes, LogOK, InTurn, Unasked, NoView, NoMessage
  <2>2. ApprovalTypes'
    BY <1>0, <1>2 DEF ReadBefore, ApprovalsOK, ApprovalTypes
  <2>3. \A id \in delivered : id.prompt # current
    BY <1>0, <1>2 DEF ReadBefore, ApprovalsOK, ApprovalTypes, OneInput, Ids, PollOK, PollTypes, Prompts
  <2>4. reply.at # "none" => reply.id.prompt # current
    BY <1>0, <1>2 DEF ReadBefore, ApprovalsOK, ApprovalTypes, OneInput, Ids, PollOK, PollTypes, Prompts
  <2>5. OneInput'
    BY <1>0, <1>2, <2>1, <2>3, <2>4 DEF ReadBefore, ApprovalsOK, OneInput, InFlight
  <2>6. ApprovalsAreAnswered' /\ RanAsApproved'
    BY <1>0, <1>2 DEF ReadBefore, ApprovalsOK, ApprovalsAreAnswered, RanAsApproved
  <2> QED BY <2>2, <2>5, <2>6 DEF ApprovalsOK
<1>3. CASE Release
  <2>1. ApprovalTypes'
    BY <1>0, <1>3 DEF Release, ApprovalsOK, ApprovalTypes
  <2>2. OneInput' /\ ApprovalsAreAnswered' /\ RanAsApproved'
    BY <1>0, <1>3 DEF Release, ApprovalsOK, OneInput, ApprovalsAreAnswered, RanAsApproved
  <2> QED BY <2>1, <2>2 DEF ApprovalsOK
<1>4. CASE NextPrompt
  <2>1. ApprovalTypes'
    BY <1>0, <1>4 DEF NextPrompt, ApprovalsOK, ApprovalTypes, approvalVars
  <2>2. capability # "live" /\ current' = current + 1 /\ stage' = "ready"
    BY <1>0, <1>4 DEF NextPrompt, ApprovalsOK, OneInput
  <2>3. /\ \A id \in delivered : id.prompt < current' /\ id.prompt <= current'
        /\ reply.at # "none" => reply.id.prompt < current' /\ reply.id.prompt <= current'
    BY <1>0, <2>2 DEF ApprovalsOK, ApprovalTypes, OneInput, Ids, PollOK, PollTypes, Prompts
  <2>4. OneInput'
    BY <1>4, <2>2, <2>3 DEF NextPrompt, OneInput, approvalVars
  <2>5. ApprovalsAreAnswered' /\ RanAsApproved'
    BY <1>0, <1>4, <2>2 DEF NextPrompt, ApprovalsOK, ApprovalsAreAnswered, RanAsApproved, approvalVars
  <2> QED BY <2>1, <2>4, <2>5 DEF ApprovalsOK
<1> QED BY <1>1, <1>2, <1>3, <1>4 DEF PromptStep

\* OpenCode's own steps: what it runs was delivered.
LEMMA RunKeepsApprovals ==
  ASSUME PromptsInv, NEW s \in Steps, RunCall(s), UNCHANGED <<current, stage, released, shown, authorities, reply>>
  PROVE  PollOK /\ (UNCHANGED pollState => PollOK') /\ ApprovalsOK'
<1> DEFINE M == log[work][s]
           m(c) == [state |-> M.state, call |-> c, input |-> M.input]
<1>1. /\ PollOK /\ ApprovalsOK /\ work \in asked /\ M.state = "open" /\ M.call = "allowed"
      /\ work = current /\ stage # "ready" /\ current \in Prompts
  BY DEF PromptsInv, RunCall, Waiting, PollOK, PollTypes, InTurn, Prompts, Unasked
<1>2. M \in Messages /\ MessageOK(M)
  BY <1>1, MessagesOK
<1>3. ASSUME NEW c \in {"complete", "failed"}
      PROVE  /\ [M EXCEPT !.call = c] = m(c) /\ m(c) \in Messages
             /\ MessageOK(m(c)) /\ StaysOf(M, m(c)) /\ m(c).call = c
  <2>1. [M EXCEPT !.call = c] = m(c)
    <3> HIDE DEF M
    <3> QED BY <1>2, Rewritten
  <2>2. m(c) \in Messages
    <3> HIDE DEF M
    <3> QED BY <1>2 DEF Messages, Completed
  <2>3. MessageOK(m(c)) /\ StaysOf(M, m(c)) /\ m(c).call = c
    <3> HIDE DEF M
    <3> QED BY <1>1, <1>2 DEF MessageOK, StaysOf, Completed
  <2> QED BY <2>1, <2>2, <2>3
<1>4. PICK c \in {"complete", "failed"} : Write(s, [M EXCEPT !.call = c])
  BY DEF RunCall
<1>5. UNCHANGED pollState => PollOK'
  <2> HIDE DEF M, m
  <2>1. log[work][s] = M
    BY DEF M
  <2>2. Write(s, m(c))
    BY <1>3, <1>4
  <2> QED BY <1>1, <1>3, <2>1, <2>2, WriteKeepsPolls
<1>6. \A r \in Steps : log'[current][r].call = "allowed" => log[current][r].call = "allowed"
  <2>1. log' \in [Prompts -> Views] /\ log'[work][s] = m(c) /\ \A r \in Steps : r # s => log'[work][r] = log[work][r]
    <3>1. log' = [log EXCEPT ![work][s] = m(c)]
      <4> HIDE DEF m, M
      <4> QED BY <1>3, <1>4 DEF Write
    <3> HIDE DEF m, M
    <3> QED BY <1>1, <1>3, <3>1 DEF PollOK, PollTypes, Views
  <2> QED BY <1>1, <2>1
<1>7. ASSUME Grants(M.input) PROVE ApprovalsOK'
  <2> DEFINE x == [prompt |-> work, step |-> s, input |-> M.input]
  <2>1. /\ capability = "live" /\ commitment = M.input /\ capability' = "consumed"
        /\ ran' = ran \cup {x} /\ UNCHANGED <<commitment, delivered>>
    BY <1>7 DEF RunCall, Grants
  <2>2. PICK d \in delivered : d.prompt = current /\ d.input = M.input
    BY <1>1, <2>1 DEF ApprovalsOK, OneInput
  <2>3. M.input \in Inputs
    BY <2>2, <1>1 DEF ApprovalsOK, ApprovalTypes, Ids
  <2>4. x \in Ids
    BY <1>1, <2>3 DEF Ids
  <2>5. ApprovalTypes'
    BY <1>1, <2>1, <2>4 DEF ApprovalsOK, ApprovalTypes
  <2>6. OneInput' /\ ApprovalsAreAnswered'
    BY <1>1, <2>1 DEF ApprovalsOK, OneInput, ApprovalsAreAnswered
  <2>7. x.prompt = current /\ x.input = M.input
    BY <1>1
  <2>8. RanAsApproved'
    <3> HIDE DEF x, M
    <3> SUFFICES ASSUME NEW id \in ran' PROVE \E e \in delivered' : e.prompt = id.prompt /\ e.input = id.input
      BY DEF RanAsApproved
    <3>1. CASE id = x
      BY <2>1, <2>2, <2>7, <3>1
    <3>2. CASE id \in ran
      BY <1>1, <2>1, <3>2 DEF ApprovalsOK, RanAsApproved
    <3> QED BY <2>1, <3>1, <3>2
  <2> QED BY <2>5, <2>6, <2>8 DEF ApprovalsOK
<1>8. ASSUME ~Grants(M.input) PROVE ApprovalsOK'
  <2>1. UNCHANGED approvalVars
    BY <1>8 DEF RunCall
  <2>2. ApprovalsOK /\ (stage' = "ready" <=> stage = "ready")
    BY <1>1
  <2>3. UNCHANGED <<current, released, shown, authorities, reply, approvalVars>>
    BY <2>1
  <2> HIDE DEF M, m
  <2> QED BY <1>6, <2>2, <2>3, ApprovalsRest
<1> QED BY <1>1, <1>5, <1>7, <1>8

LEMMA OpenCodeKeepsAll ==
  ASSUME PromptsInv, OpenCodeStep \/ \E s \in Steps : RunCall(s),
         UNCHANGED <<current, stage, pollVars, endVars, released, snapshotVars, reply>>
  PROVE  PromptsInv'
<1>1. PollOK /\ ApprovalsOK /\ UNCHANGED pollState
  BY DEF PromptsInv, pollState, snapshotVars
<1>2. CASE \E s \in Steps : RunCall(s)
  BY <1>1, <1>2, RunKeepsApprovals DEF PromptsInv, snapshotVars
<1>3. CASE OpenCodeStep
  <2>1. UNCHANGED approvalVars
    BY <1>3 DEF OpenCodeStep
  <2>2. CASE TakePrompt \/ BecomeIdle
    <3>1. log' = log
      BY <2>2 DEF TakePrompt, BecomeIdle
    <3>2. ApprovalsOK'
      BY <1>1, <2>1, <3>1, ApprovalsRest DEF snapshotVars
    <3> QED BY <1>1, <2>2, <3>2, TakeOrIdleKeepsPolls DEF PromptsInv
  <2>3. ASSUME NEW s \in Steps, NEW m \in Messages, work \in asked, OwnWrite(s, m), Write(s, m) PROVE PromptsInv'
    <3>1. PollOK'
      BY <1>1, <2>3, WriteKeepsPolls DEF OwnWrite
    <3>2. work = current /\ work \in Prompts
      BY <1>1, <2>3 DEF PollOK, PollTypes, InTurn, Prompts
    <3>3. log'[work][s] = m /\ \A r \in Steps : r # s => log'[work][r] = log[work][r]
      BY <1>1, <2>3, <3>2 DEF PollOK, PollTypes, Views, Write
    <3>4. \A r \in Steps : log'[current][r].call = "allowed" => log[current][r].call = "allowed"
      BY <2>3, <3>2, <3>3 DEF OwnWrite
    <3>5. ApprovalsOK'
      BY <1>1, <2>1, <3>4, ApprovalsRest DEF snapshotVars
    <3> QED BY <3>1, <3>5 DEF PromptsInv
  <2> QED BY <1>1, <1>3, <2>2, <2>3, OwnWrites
<1> QED BY <1>2, <1>3

\* An answer that is refused takes the approval it stands for along.
LEMMA RefusedKeepsApprovals ==
  ASSUME ApprovalsOK, reply.at # "none", Refused, shown' \subseteq Ids, authorities' \subseteq Ids,
         UNCHANGED <<current, stage, released>>,
         \A s \in Steps : log'[current][s].call = "allowed" => InFlight \/ log[current][s].call = "allowed"
  PROVE  ApprovalsOK'
<1>1. /\ reply' = NoReply /\ UNCHANGED <<delivered, ran>>
      /\ \/ capability' = "revoked" /\ commitment' = NoInput
         \/ UNCHANGED <<capability, commitment>> /\ (InFlight => released)
  BY DEF Refused, InFlight
<1>2. ApprovalTypes'
  BY <1>1 DEF ApprovalsOK, ApprovalTypes, NoReply, Replies
<1>3. reply'.at = "none"
  BY <1>1 DEF NoReply
<1>4. OneInput'
  BY <1>1, <1>3 DEF ApprovalsOK, OneInput, InFlight
<1>5. ApprovalsAreAnswered'
  BY <1>1, <1>3 DEF ApprovalsOK, OneInput, InFlight, ApprovalsAreAnswered
<1>6. RanAsApproved'
  BY <1>1 DEF ApprovalsOK, RanAsApproved
<1> QED BY <1>2, <1>4, <1>5, <1>6 DEF ApprovalsOK

\* An answer that goes on stays what it is.
LEMMA GoesKeepsApprovals ==
  ASSUME ApprovalsOK, UNCHANGED <<current, stage, released, log, approvalVars>>,
         shown' \subseteq Ids, authorities' \subseteq Ids, NEW at, reply' = [reply EXCEPT !.at = at],
         \/ reply.at = "open" /\ ~reply.once /\ at = "authorized"
         \/ reply.at \in {"authorized", "visible"} /\ at \in {"visible", "proved"}
  PROVE  ApprovalsOK'
<1>1. reply' = [at |-> at, id |-> reply.id, once |-> reply.once] /\ at \in {"authorized", "visible", "proved"}
  BY DEF ApprovalsOK, ApprovalTypes, Replies
<1>2. ApprovalTypes'
  BY <1>1 DEF ApprovalsOK, ApprovalTypes, Replies, approvalVars
<1>3. OneInput'
  BY <1>1 DEF ApprovalsOK, OneInput, InFlight, approvalVars
<1>4. ApprovalsAreAnswered' /\ RanAsApproved'
  BY <1>1 DEF ApprovalsOK, ApprovalsAreAnswered, RanAsApproved, approvalVars
<1> QED BY <1>2, <1>3, <1>4 DEF ApprovalsOK

LEMMA RespondKeepsApprovals ==
  ASSUME PromptsInv, shown' \subseteq Ids, authorities' \subseteq Ids, NEW id \in shown, NEW once \in BOOLEAN, Respond(id, once)
  PROVE  ApprovalsOK'
<1>1. /\ PollOK /\ ApprovalsOK /\ reply.at = "none" /\ stage # "ready"
      /\ UNCHANGED <<current, stage, released, log, approvalVars>>
  BY DEF PromptsInv, Respond, ReplyFrame, HasBoundary, openCodeVars
<1>2. CASE reply' = reply
  <2>1. ApprovalTypes'
    BY <1>1, <1>2 DEF ApprovalsOK, ApprovalTypes, approvalVars
  <2>2. OneInput' /\ ApprovalsAreAnswered' /\ RanAsApproved'
    BY <1>1, <1>2 DEF ApprovalsOK, OneInput, InFlight, ApprovalsAreAnswered, RanAsApproved, approvalVars
  <2> QED BY <2>1, <2>2 DEF ApprovalsOK
<1>3. CASE reply' # reply
  <2>1. reply' = [at |-> "open", id |-> id, once |-> once] /\ id \in Ids /\ id.prompt = current
    BY <1>1, <1>3, NowOK DEF Respond
  <2>2. ApprovalTypes'
    BY <1>1, <2>1 DEF ApprovalsOK, ApprovalTypes, Replies, approvalVars
  <2>3. current <= current
    BY <1>1 DEF PollOK, PollTypes, Prompts
  <2>4. OneInput'
    BY <1>1, <2>1, <2>3 DEF ApprovalsOK, OneInput, InFlight, approvalVars
  <2>5. ApprovalsAreAnswered' /\ RanAsApproved'
    BY <1>1, <2>1 DEF ApprovalsOK, ApprovalsAreAnswered, RanAsApproved, approvalVars
  <2> QED BY <2>2, <2>4, <2>5 DEF ApprovalsOK
<1> QED BY <1>2, <1>3

LEMMA ResolveKeepsApprovals ==
  ASSUME PromptsInv, shown' \subseteq Ids, authorities' \subseteq Ids, ResolveAuthority
  PROVE  ApprovalsOK'
<1>1. /\ PollOK /\ ApprovalsOK /\ reply.at = "open"
      /\ UNCHANGED <<current, stage, released, log>>
  BY DEF PromptsInv, ResolveAuthority, ReplyFrame, openCodeVars
<1>2. CASE Refused
  BY <1>1, <1>2, RefusedKeepsApprovals
<1>3. CASE Goes("authorized") /\ ~reply.once
  BY <1>1, <1>3, GoesKeepsApprovals DEF Goes
<1>4. CASE /\ HasBoundary /\ reply.id \in PendingNow /\ reply.once /\ AuthorizeCall(reply.id.input)
           /\ reply' = IF Authorizable(reply.id.input) THEN [reply EXCEPT !.at = "authorized"] ELSE NoReply
  <2> DEFINE i == reply.id.input
  <2>1. /\ reply.id \in Ids /\ reply.id.prompt = current /\ i \in Inputs /\ i # NoInput /\ stage # "ready"
        /\ UNCHANGED <<delivered, ran>> /\ current <= current
    BY <1>1, <1>4, NowOK, PromptsAssumption DEF Ids, HasBoundary, AuthorizeCall, PollOK, PollTypes, Prompts
  <2>2. CASE Authorizable(i)
    <3>1. /\ reply' = [at |-> "authorized", id |-> reply.id, once |-> reply.once]
          /\ capability' = "live" /\ capability = "live" /\ commitment' = i /\ commitment \in {NoInput, i}
      BY <1>1, <1>4, <2>2 DEF Authorizable, AuthorizeCall, ApprovalsOK, ApprovalTypes, Replies
    <3>2. ApprovalTypes'
      BY <1>1, <2>1, <3>1 DEF ApprovalsOK, ApprovalTypes, Replies
    <3>3. \A id \in delivered : id.prompt = current => i = id.input
      BY <1>1, <2>1, <3>1, PromptsAssumption DEF ApprovalsOK, OneInput, ApprovalTypes, Ids
    <3> HIDE DEF i
    <3>4. OneInput'
      BY <1>1, <1>4, <2>1, <3>1, <3>3 DEF ApprovalsOK, OneInput, InFlight, i
    <3>5. ApprovalsAreAnswered' /\ RanAsApproved'
      BY <1>1, <1>4, <2>1, <3>1 DEF ApprovalsOK, ApprovalsAreAnswered, RanAsApproved, i
    <3> QED BY <3>2, <3>4, <3>5 DEF ApprovalsOK
  <2>3. CASE ~Authorizable(i)
    <3>1. reply' = NoReply /\ capability' # "live" /\ capability' \in {capability, "revoked"} /\ commitment' \in Inputs \cup {NoInput}
      BY <1>1, <1>4, <2>1, <2>3 DEF Authorizable, AuthorizeCall, ApprovalsOK, ApprovalTypes
    <3>2. ApprovalTypes'
      BY <1>1, <2>1, <3>1 DEF ApprovalsOK, ApprovalTypes, Replies, NoReply
    <3>3. OneInput' /\ ApprovalsAreAnswered' /\ RanAsApproved'
      BY <1>1, <2>1, <3>1 DEF ApprovalsOK, OneInput, ApprovalsAreAnswered, RanAsApproved, NoReply
    <3> QED BY <3>2, <3>3 DEF ApprovalsOK
  <2> QED BY <2>2, <2>3
<1> QED BY <1>2, <1>3, <1>4 DEF ResolveAuthority

LEMMA SendKeepsApprovals ==
  ASSUME PromptsInv, shown' \subseteq Ids, authorities' \subseteq Ids, SendReply
  PROVE  ApprovalsOK'
<1>1. /\ PollOK /\ ApprovalsOK /\ reply.at = "proved" /\ reply.id \in Ids /\ reply.id.step \in Steps
      /\ UNCHANGED <<current, stage, released>>
  BY DEF PromptsInv, SendReply, ReplyFrame, ApprovalsOK, ApprovalTypes, Ids
<1>2. Taken(reply.id, reply.once) =>
        /\ reply.id.prompt = current /\ stage # "ready" /\ current <= current
        /\ \A s \in Steps : log'[current][s].call = "allowed" => reply.once \/ log[current][s].call = "allowed"
  <2> SUFFICES ASSUME Taken(reply.id, reply.once)
               PROVE  /\ reply.id.prompt = current /\ stage # "ready" /\ current <= current
                      /\ \A s \in Steps : log'[current][s].call = "allowed" => reply.once \/ log[current][s].call = "allowed"
    OBVIOUS
  <2> DEFINE t == reply.id.step
             c == IF reply.once THEN "allowed" ELSE "failed"
             m == [log[work][t] EXCEPT !.call = c]
  <2>1. /\ work = reply.id.prompt /\ work \in asked /\ work \in Prompts /\ work = current /\ stage # "ready"
        /\ current <= current /\ log' = [log EXCEPT ![work][t] = m]
    BY <1>1 DEF Taken, Write, PollOK, PollTypes, InTurn, Unasked, Prompts
  <2>2. log[work][t] \in Messages
    BY <1>1, <2>1, MessagesOK
  <2>3. m.call = c
    <3> HIDE DEF t, c
    <3> QED BY <2>2 DEF Messages
  <2> HIDE DEF m, t
  <2>4. log'[work][t] = m /\ \A s \in Steps : s # t => log'[work][s] = log[work][s]
    BY <1>1, <2>1 DEF PollOK, PollTypes, Views, t
  <2> QED BY <2>1, <2>3, <2>4
<1>3. CASE /\ Taken(reply.id, reply.once) /\ reply' = NoReply
           /\ delivered' = IF reply.once THEN delivered \cup {reply.id} ELSE delivered
           /\ UNCHANGED <<capability, commitment, ran>>
  <2>1. ApprovalTypes'
    BY <1>1, <1>3 DEF ApprovalsOK, ApprovalTypes, Replies, NoReply
  <2>2. reply'.at = "none" /\ (InFlight <=> reply.once)
    BY <1>1, <1>2, <1>3 DEF NoReply, InFlight
  <2>3. delivered \subseteq delivered' /\ (reply.once => reply.id \in delivered')
        /\ \A id \in delivered' : id \in delivered \/ (reply.once /\ id = reply.id)
    BY <1>3
  <2>4. OneInput'
    BY <1>1, <1>2, <1>3, <2>2, <2>3 DEF ApprovalsOK, OneInput, InFlight
  <2>5. ApprovalsAreAnswered'
    BY <1>1, <1>3, <2>2, <2>3 DEF ApprovalsOK, ApprovalsAreAnswered
  <2>6. RanAsApproved'
    BY <1>1, <1>3, <2>3 DEF ApprovalsOK, RanAsApproved
  <2> QED BY <2>1, <2>4, <2>5, <2>6 DEF ApprovalsOK
<1>4. CASE (Taken(reply.id, reply.once) \/ UNCHANGED openCodeVars) /\ Refused
  <2>1. \A s \in Steps : log'[current][s].call = "allowed" => InFlight \/ log[current][s].call = "allowed"
    BY <1>1, <1>2, <1>4 DEF InFlight, openCodeVars
  <2> QED BY <1>1, <1>4, <2>1, RefusedKeepsApprovals
<1> QED BY <1>3, <1>4 DEF SendReply

LEMMA InteractionKeepsApprovals == PromptsInv /\ InteractionStep => ApprovalsOK'
<1> SUFFICES ASSUME PromptsInv, InteractionStep PROVE ApprovalsOK'
  OBVIOUS
<1>1. PollOK /\ ApprovalsOK /\ shown' \subseteq Ids /\ authorities' \subseteq Ids
  BY InteractionKeepsPolls DEF PromptsInv
<1>2. CASE WatchRead \/ WatchApply
  <2>1. UNCHANGED <<current, stage, released, log, reply, approvalVars>>
    BY <1>2 DEF WatchRead, WatchApply, openCodeVars
  <2>2. ApprovalTypes'
    BY <1>1, <2>1 DEF ApprovalsOK, ApprovalTypes, approvalVars
  <2>3. OneInput' /\ ApprovalsAreAnswered' /\ RanAsApproved'
    BY <1>1, <2>1 DEF ApprovalsOK, OneInput, InFlight, ApprovalsAreAnswered, RanAsApproved, approvalVars
  <2> QED BY <2>2, <2>3 DEF ApprovalsOK
<1>3. CASE \E id \in shown, once \in BOOLEAN : Respond(id, once)
  BY <1>1, <1>3, RespondKeepsApprovals
<1>4. CASE ResolveAuthority
  BY <1>1, <1>4, ResolveKeepsApprovals
<1>5. CASE ReadVisible \/ Reprove
  <2>1. reply.at \in {"authorized", "visible"} /\ UNCHANGED <<current, stage, released, log>>
    BY <1>5 DEF ReadVisible, Reprove, ReplyFrame, openCodeVars
  <2>2. Refused \/ Goes("visible") \/ Goes("proved")
    BY <1>5 DEF ReadVisible, Reprove
  <2> QED BY <1>1, <2>1, <2>2, RefusedKeepsApprovals, GoesKeepsApprovals DEF Goes
<1>6. CASE SendReply
  BY <1>1, <1>6, SendKeepsApprovals
<1> QED BY <1>2, <1>3, <1>4, <1>5, <1>6 DEF InteractionStep

-----------------------------------------------------------------------------
LEMMA PromptsPreserved == PromptsInv /\ [PromptsNext]_promptVars => PromptsInv'
<1> SUFFICES ASSUME PromptsInv, [PromptsNext]_promptVars PROVE PromptsInv'
  OBVIOUS
<1>1. CASE (OpenCodeStep \/ \E s \in Steps : RunCall(s))
             /\ UNCHANGED <<current, stage, pollVars, endVars, released, snapshotVars, reply>>
  BY <1>1, OpenCodeKeepsAll
<1>2. CASE PromptStep
  BY <1>2, PromptKeepsPolls, PromptKeepsApprovals DEF PromptsInv
<1>3. CASE InteractionStep
  BY <1>3, InteractionKeepsPolls, InteractionKeepsApprovals DEF PromptsInv
<1>4. CASE UNCHANGED promptVars
  <2>1. UNCHANGED <<openCodeVars, pollState, released, shown, authorities, reply, approvalVars, log>>
    BY <1>4 DEF promptVars, pollState, snapshotVars, openCodeVars
  <2> QED BY <2>1, PollRests, ApprovalsRest DEF PromptsInv, pollState
<1> QED BY <1>1, <1>2, <1>3, <1>4 DEF PromptsNext

\* How promptWithModel reports a prompt is how it went, for any number of prompts,
\* messages and calls, whatever snapshots and answers run beside the poll.
THEOREM PromptsEndAsTheyWentTheorem == PromptsSpec => []PromptsEndAsTheyWent
BY Initial, PromptsPreserved, InvImplies, PTL DEF PromptsSpec

\* OpenCode runs for this prompt, under its rules, and only what an approval that it
\* took was for; an answer that failed leaves no approval behind.
THEOREM PromptsActAsAllowedTheorem == PromptsSpec => []PromptsActAsAllowed
BY Initial, PromptsPreserved, InvImplies, PTL DEF PromptsSpec
=============================================================================
