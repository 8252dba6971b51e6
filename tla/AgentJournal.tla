----------------------------- MODULE AgentJournal -----------------------------
(***************************************************************************)
(* The durable side of the historical Agent turns: the rows of             *)
(* product-store-v2.ts for turns, Agent sessions and action records, and   *)
(* their reconciliation when the store is opened again.  Every operation   *)
(* is one transaction; one that is not enabled throws.                     *)
(*                                                                         *)
(* A turn is a pair of its conversation and its number in it.  The model   *)
(* follows one tool per turn: a "mutation" or a "proposal" is committed    *)
(* together with its evidence (committed_mutations), an "operation" and a  *)
(* "check" have a domain receipt of their own that becomes evidence with   *)
(* the action record.                                                      *)
(***************************************************************************)
EXTENDS Integers, FiniteSets

CONSTANTS Conversations, Turns, Tools

ConversationOf(t) == t[1]

VARIABLES
  usable,        \* conversation: active, archived, or with an archived owner
  turn,          \* the row in agent_turns
  disposition,   \* what the goal verification recorded for it
  retryable,     \* its failure_retryable
  generation,    \* latest session generation of a conversation
  session,       \* and its state
  action,        \* the action record of the turn's tool
  tool,          \* which tool that is
  effect         \* the tool's own rows: none, running or cut (a check), done

turnRows == <<turn, disposition, retryable>>
sessionRows == <<generation, session>>
actionRows == <<action, tool, effect>>
journalVars == <<usable, turnRows, sessionRows, actionRows>>

ReceiptBacked == {"operation", "check"}
Open == {"proposed", "authorized", "staging"}
Unsuccessful == {"rolled_back", "failed"}

\* A row in committed_mutations for the transaction of the action.
MutationCommitted(t) ==
  IF tool[t] \in ReceiptBacked THEN action[t] = "committed" ELSE effect[t] = "done"

JournalInit ==
  /\ usable = [c \in Conversations |-> "active"]
  /\ turn = [t \in Turns |-> "none"] /\ disposition = [t \in Turns |-> "none"]
  /\ retryable = [t \in Turns |-> FALSE]
  /\ generation = [c \in Conversations |-> 0] /\ session = [c \in Conversations |-> "none"]
  /\ action = [t \in Turns |-> "none"] /\ tool = [t \in Turns |-> "none"]
  /\ effect = [t \in Turns |-> "none"]
-----------------------------------------------------------------------------
(* Turns. *)

StartAgentTurn(t) ==
  /\ turn[t] = "none" /\ usable[ConversationOf(t)] = "active"
  /\ turn' = [turn EXCEPT ![t] = "running"]
  /\ UNCHANGED <<usable, disposition, retryable, sessionRows, actionRows>>

\* Only the conversation has to be active, its owner may be archived by now.
CompleteAgentTurn(t, result) ==
  /\ turn[t] = "running" /\ usable[ConversationOf(t)] # "archived"
  /\ result \in {"completed", "outcome_unknown"}
  /\ turn' = [turn EXCEPT ![t] = "complete"]
  /\ disposition' = [disposition EXCEPT ![t] = result]
  /\ UNCHANGED <<usable, retryable, sessionRows, actionRows>>

RetryableFailures == {"failed", "read_only"}
FailAgentTurn(t, result) ==
  /\ turn[t] = "running"
  /\ result \in {"failed", "read_only", "outcome_unknown", "budget_exhausted"}
  /\ turn' = [turn EXCEPT ![t] = "failed"]
  /\ disposition' = [disposition EXCEPT ![t] = result]
  /\ retryable' = [retryable EXCEPT ![t] = result \in RetryableFailures]
  /\ UNCHANGED <<usable, sessionRows, actionRows>>

VerifyPhase(t, outcome, verified) ==
  CASE outcome = "idle" -> "completed" [] outcome = "read_only" -> "read_only"
    [] outcome = "timeout" -> "budget_exhausted" [] OTHER -> "failed"

\* verifyAgentGoal: what is recorded of a turn that ends in a phase; verified
\* says that the resources its committed action declared are still as it left them.
\* "completed" stands for needs_user_input too: the goal itself is not modelled.
VerifyAgentGoal(t, outcome, verified) ==
  IF action[t] \in Open \/ (action[t] = "committed" /\ ~verified) THEN "outcome_unknown"
  ELSE CASE outcome = "idle" -> "completed"
         [] outcome = "read_only" ->
              IF action[t] = "none" THEN "read_only" ELSE "outcome_unknown"
         [] outcome = "timeout" ->
              IF action[t] = "committed" THEN "outcome_unknown" ELSE "budget_exhausted"
         [] outcome = "interrupted" ->
              IF action[t] = "none" THEN "failed" ELSE "outcome_unknown"
         [] outcome = "failed" ->
              IF action[t] = "committed" THEN "outcome_unknown" ELSE "failed"
-----------------------------------------------------------------------------
(* Sessions. *)

BeginSessionGeneration(c) ==
  /\ usable[c] # "archived"
  /\ generation' = [generation EXCEPT ![c] = @ + 1]
  /\ session' = [session EXCEPT ![c] = "creating"]
  /\ UNCHANGED <<usable, turnRows, actionRows>>

SessionStep(c, from, to) ==
  /\ session[c] = from
  /\ session' = [session EXCEPT ![c] = to]
  /\ UNCHANGED <<usable, turnRows, generation, actionRows>>

ActivateSession(c) == SessionStep(c, "creating", "available")
FailSessionGeneration(c) == SessionStep(c, "creating", "closed")
MarkSessionLost(c) == SessionStep(c, "available", "lost")

RunningTurnOnly(t, g) == turn[t] = "running"
\* assertActiveAgentToolGrant.
ActiveAgentToolGrant(t, g) ==
  LET c == ConversationOf(t) IN
  /\ turn[t] = "running" /\ usable[c] = "active"
  /\ session[c] = "available" /\ generation[c] = g
-----------------------------------------------------------------------------
(* Action records: written ahead of the effect, settled after it. *)

RecordAction(t, kind) ==
  /\ action[t] = "none"
  /\ action' = [action EXCEPT ![t] = "proposed"]
  /\ tool' = [tool EXCEPT ![t] = kind]
  /\ UNCHANGED <<usable, turnRows, sessionRows, effect>>

TransitionAction(t, from, to) ==
  /\ action[t] = from
  /\ (from = "staging" /\ to = "committed") => MutationCommitted(t)
  /\ (from = "staging" /\ to \in Unsuccessful) => ~MutationCommitted(t)
  /\ action' = [action EXCEPT ![t] = to]
  /\ UNCHANGED <<usable, turnRows, sessionRows, tool, effect>>

\* A Model has at most one running technical check (a unique index).
StartTechnicalCheck(t) ==
  /\ effect[t] = "none"
  /\ \A x \in Turns : ConversationOf(x) = ConversationOf(t) => effect[x] # "running"
  /\ effect' = [effect EXCEPT ![t] = "running"]
  /\ UNCHANGED <<usable, turnRows, sessionRows, action, tool>>

FinishTechnicalCheck(t) ==
  /\ effect[t] = "running"
  /\ effect' = [effect EXCEPT ![t] = "done"]
  /\ UNCHANGED <<usable, turnRows, sessionRows, action, tool>>

CommitEffect(t) ==
  /\ effect[t] = "none"
  /\ effect' = [effect EXCEPT ![t] = "done"]
  /\ UNCHANGED <<usable, turnRows, sessionRows, action, tool>>

\* commitReceiptBackedAgentAction: evidence and action in one transaction.
CommitReceiptBacked(t) ==
  /\ action[t] = "staging"
  /\ action' = [action EXCEPT ![t] = "committed"]
  /\ UNCHANGED <<usable, turnRows, sessionRows, tool, effect>>
-----------------------------------------------------------------------------
(* Reconciliation when the store is opened, in this order. *)

ReceiptGap(t) == action[t] = "staging" /\ tool[t] \in ReceiptBacked /\ effect[t] = "done"

RecoverReceiptGap(t) == ReceiptGap(t) /\ CommitReceiptBacked(t)

\* One transaction settles every other action that was left in staging.
SettleStaging ==
  /\ \A t \in Turns : ~ReceiptGap(t)
  /\ \E t \in Turns : action[t] = "staging"
  /\ action' = [t \in Turns |-> IF action[t] # "staging" THEN action[t]
                                ELSE IF MutationCommitted(t) THEN "committed" ELSE "rolled_back"]
  /\ UNCHANGED <<usable, turnRows, sessionRows, tool, effect>>

FailInterruptedTurn(t, verified) ==
  /\ \A x \in Turns : action[x] # "staging"
  /\ FailAgentTurn(t, VerifyAgentGoal(t, "interrupted", verified))

Interrupted ==
  \/ \E t \in Turns : effect[t] = "running"
  \/ \E c \in Conversations : session[c] \notin {"none", "closed", "lost"}

\* Sessions are lost and running checks have failed, in one transaction.
LoseSessionsAndChecks ==
  /\ \A t \in Turns : turn[t] # "running" /\ action[t] # "staging"
  /\ Interrupted
  /\ session' = [c \in Conversations |->
                   IF session[c] \in {"none", "closed"} THEN session[c] ELSE "lost"]
  /\ effect' = [t \in Turns |-> IF effect[t] = "running" THEN "cut" ELSE effect[t]]
  /\ UNCHANGED <<usable, turnRows, generation, action, tool>>

Reconciled ==
  /\ \A t \in Turns : turn[t] # "running" /\ action[t] # "staging"
  /\ ~Interrupted
=============================================================================
