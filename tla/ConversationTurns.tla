-------------------------- MODULE ConversationTurns --------------------------
(***************************************************************************)
(* Agent turns: the submission of a turn, the process that discovers the   *)
(* provider, sets up an OpenCode session, binds a tool capability to it,   *)
(* prompts, commits the answer with its evidence, and settles the token    *)
(* reservation of TokenQuota.  The turn rows and the ledger live in two    *)
(* databases; phases, capabilities and recorded actions live in memory.    *)
(*                                                                         *)
(* One action is one synchronous stretch of the code between two awaits.   *)
(* OpenCode is an environment: it answers, fails or times out as it likes, *)
(* and calls tools whenever it holds a capability.  What the tools do to   *)
(* the Project is in ProjectRuns; here a tool call is an effect to account *)
(* for.                                                                    *)
(***************************************************************************)
EXTENDS TokenQuota

CONSTANTS
  Conversations,  \* conversation ids
  Submissions,    \* bound: the conversations a turn may be submitted in
  NoConversation, \* "no row"
  NoSession,      \* external_session_ref is NULL
  Estimate,       \* estimatedTurnTokens of the turn's request and answer
  Tools,          \* kinds of tools a capability allows
  MaxSessions,    \* bound: OpenCode sessions created
  MaxStops        \* bound: how often the backend stops

ASSUME BoundsAssumption == MaxSessions \in Nat /\ MaxStops \in Nat

ASSUME EstimateAssumption ==
  Estimate \in [Keys -> Nat] /\ Submissions \in [Keys -> SUBSET Conversations]

VARIABLES
  turn,           \* project_conversation_turns.state, "absent" without a row
  turnOf,         \* ... .conversation_id
  evidence,       \* ... .actions_json: the kinds of effects it reports
  effects,        \* what the turn's tool calls did to rows of the Store
  sessionState,   \* project_conversations.session_state
  sessionRef,     \* ... .external_session_ref
  generation,     \* ... .session_generation
  sessions,       \* OpenCode sessions created so far
  phase,          \* where runTurn awaits; "none" without a pending turn
  actions,        \* #turnActions
  cancelling,     \* turns whose cancel tool call waits for a Run to end
  grant,          \* session generation of the turn's capability, 0 without
  backend,        \* the server process
  stops           \* how often it stopped (bounds the model)

turnRows    == <<turn, turnOf, evidence, effects>>
sessionRows == <<sessionState, sessionRef, generation>>
memory      == <<phase, actions, cancelling, grant>>
turnVars    == <<turnRows, sessionRows, sessions, memory, backend, stops>>
vars        == <<quotaVars, turnVars>>

\* A tool call changes files or an Experiment or starts a Run, or it cancels
\* a Run; reading tools have no effect.
Effects == {"change", "cancel"}

ASSUME ToolsAssumption == Tools \subseteq Effects

\* A turn the restart failed is "failed" with the code backend_restart.
TurnStates == {"absent", "running", "complete", "failed", "read_only",
               "backend_restart"}
Ended == {"complete", "failed", "read_only", "backend_restart"}
Phases == {"none", "rejected", "discovering", "resuming", "creating",
           "binding", "prompting", "aborting", "returning"}
Executing == Phases \ {"none", "rejected", "returning"}

Granted(k) == grant[k] # 0
Up == backend \in {"serving", "closing"}
RunningIn(c) == {k \in Keys : turn[k] = "running" /\ turnOf[k] = c}

Init ==
  /\ QuotaInit
  /\ turn = [k \in Keys |-> "absent"]
  /\ turnOf = [k \in Keys |-> NoConversation]
  /\ evidence = [k \in Keys |-> {}]
  /\ effects = [k \in Keys |-> {}]
  /\ sessionState = [c \in Conversations |-> "none"]
  /\ sessionRef = [c \in Conversations |-> NoSession]
  /\ generation = [c \in Conversations |-> 1]
  /\ sessions = 0
  /\ phase = [k \in Keys |-> "none"]
  /\ actions = [k \in Keys |-> {}]
  /\ cancelling = {}
  /\ grant = [k \in Keys |-> 0]
  /\ backend = "stopped"
  /\ stops = 0

(***************************************************************************)
(* Accounts: requests of the administrator.                                *)
(***************************************************************************)
ManageUsers ==
  /\ backend = "serving"
  /\ UNCHANGED turnVars
  /\ \E u \in Users :
       \/ \E q \in 1..MaxQuota : CreateUser(u, q)
       \/ \E q \in 1..MaxQuota : IncreaseQuota(u, q)
       \/ RevokeUser(u)

(***************************************************************************)
(* Submission: reserve tokens, insert the turn row, start to run.  A key   *)
(* that has a row or is pending is answered without any effect.            *)
(***************************************************************************)
Begin(k, c) ==
  /\ turn' = [turn EXCEPT ![k] = "running"]
  /\ turnOf' = [turnOf EXCEPT ![k] = c]
  /\ sessionState' = [sessionState EXCEPT ![c] = "connecting"]
  /\ actions' = [actions EXCEPT ![k] = {}]
  /\ phase' = [phase EXCEPT ![k] = "discovering"]
  /\ UNCHANGED <<sessionRef, generation>>

\* beginConversationTurn throws while another turn runs in the conversation
\* (unique index): the caller gets a 503, the reservation is already made.
RejectBegin(k) ==
  /\ phase' = [phase EXCEPT ![k] = "rejected"]
  /\ UNCHANGED <<turn, turnOf, sessionRows, actions>>

ConversationFree(c) == RunningIn(c) = {}

SubmitTurn(u, k, c) ==
  /\ backend = "serving"
  /\ turn[k] = "absent"
  /\ phase[k] = "none"
  /\ MayReserve(u, k)
  /\ ReserveTurn(u, k)
  /\ IF ConversationFree(c) THEN Begin(k, c) ELSE RejectBegin(k)
  /\ UNCHANGED <<evidence, effects, sessions, cancelling, grant,
                 backend, stops>>

(***************************************************************************)
(* How a turn ends in the Store, and what ends with it in memory.          *)
(***************************************************************************)
ForgetEvidence(k) == {}
EvidenceOf(k) == actions[k]

KeepGrant(k) == UNCHANGED grant
RevokeGrant(k) == grant' = [grant EXCEPT ![k] = 0]

\* completeConversationTurn or failConversationTurn, and the synchronous
\* part of the finally of runTurn.
EndTurn(k, state) ==
  /\ turn' = [turn EXCEPT ![k] = state]
  /\ evidence' = [evidence EXCEPT ![k] = EvidenceOf(k)]
  /\ actions' = [actions EXCEPT ![k] = {}]
  /\ phase' = [phase EXCEPT ![k] = "returning"]
  /\ RevokeGrant(k)
  /\ UNCHANGED <<turnOf, effects, sessions, cancelling, backend, stops>>

SessionAfter(state) ==
  CASE state = "complete" -> "available"
    [] state = "read_only" -> "read_only"
    [] OTHER -> "lost"

EndTurnIn(k, state) ==
  /\ EndTurn(k, state)
  /\ sessionState' =
       [sessionState EXCEPT ![turnOf[k]] = SessionAfter(state)]
  /\ UNCHANGED <<sessionRef, generation, quotaVars>>

Await(k, p) ==
  /\ phase' = [phase EXCEPT ![k] = p]
  /\ UNCHANGED <<quotaVars, turnRows, sessions, actions, cancelling, backend,
                 stops>>

\* The discovery of the provider ends: no provider, no answer, or go on.
Discovered(k) ==
  /\ Up
  /\ phase[k] = "discovering"
  /\ \/ EndTurnIn(k, "read_only")
     \/ EndTurnIn(k, "failed")
     \/ /\ Await(k, IF sessionRef[turnOf[k]] = NoSession
                      THEN "creating" ELSE "resuming")
        /\ UNCHANGED <<sessionRows, grant>>

\* The grant carries the generation the session has at that moment.
Grant(k) ==
  grant' = [grant EXCEPT ![k] = generation'[turnOf[k]]]

\* getSession answers: the session is there, is gone, or no answer.
Resumed(k) ==
  /\ Up
  /\ phase[k] = "resuming"
  /\ \/ Await(k, "binding") /\ UNCHANGED sessionRows /\ Grant(k)
     \/ Await(k, "creating") /\ UNCHANGED <<sessionRows, grant>>
     \/ EndTurnIn(k, "failed")

NextGeneration(c) ==
  IF sessionRef[c] = NoSession THEN generation[c] ELSE generation[c] + 1

\* createSession answers.  Only a session that replaces one is a new
\* generation: what drops a session counts for itself.
SessionCreated(k) ==
  LET c == turnOf[k] IN
  /\ Up
  /\ phase[k] = "creating"
  /\ \/ EndTurnIn(k, "failed")
     \/ /\ sessions < MaxSessions
        /\ phase' = [phase EXCEPT ![k] = "binding"]
        /\ sessions' = sessions + 1
        /\ sessionRef' = [sessionRef EXCEPT ![c] = sessions']
        /\ sessionState' = [sessionState EXCEPT ![c] = "available"]
        /\ generation' = [generation EXCEPT ![c] = NextGeneration(c)]
        /\ Grant(k)
        /\ UNCHANGED <<quotaVars, turnRows, actions, cancelling, backend,
                       stops>>

\* bindScopedMcp answers, or fails with a session at hand.
ScopeBound(k) ==
  /\ Up
  /\ phase[k] = "binding"
  /\ Await(k, "prompting") \/ Await(k, "aborting")
  /\ UNCHANGED <<sessionRows, grant>>

\* OpenCode calls tools with the turn's capability, also while the backend
\* waits for the abort it asked for.
MayCall(k, tool) ==
  /\ Up
  /\ tool \in Tools
  /\ Granted(k)
  /\ phase[k] \in {"prompting", "aborting", "returning"}

\* The effect and its record are one synchronous stretch, whatever the tool
\* awaits afterwards.
ChangeCall(k) ==
  /\ MayCall(k, "change")
  /\ effects' = [effects EXCEPT ![k] = @ \cup {"change"}]
  /\ actions' = [actions EXCEPT ![k] = @ \cup {"change"}]
  /\ UNCHANGED <<quotaVars, turn, turnOf, evidence, sessionRows, sessions,
                 phase, cancelling, grant, backend, stops>>

\* riff_cancel_run marks and aborts the Run, and waits for its end before it
\* records anything.
CancelCall(k) ==
  /\ MayCall(k, "cancel")
  /\ effects' = [effects EXCEPT ![k] = @ \cup {"cancel"}]
  /\ cancelling' = cancelling \cup {k}
  /\ UNCHANGED <<quotaVars, turn, turnOf, evidence, sessionRows, sessions,
                 phase, actions, grant, backend, stops>>

\* The Run ended: #recordTurnAction throws, or records in vain, when the turn
\* ended first.
CancelAnswered(k) ==
  /\ Up
  /\ k \in cancelling
  /\ cancelling' = cancelling \ {k}
  /\ actions' = [actions EXCEPT ![k] =
       IF turn[k] = "running" THEN @ \cup {"cancel"} ELSE @]
  /\ UNCHANGED <<quotaVars, turnRows, sessionRows, sessions, phase, grant,
                 backend, stops>>

\* promptWithModel returns what the request asked for, or the turn fails.
Prompted(k) ==
  /\ Up
  /\ phase[k] = "prompting"
  /\ \/ EndTurnIn(k, "complete")
     \/ Await(k, "aborting") /\ UNCHANGED <<sessionRows, grant>>

\* The abort has answered or failed: the session is given up.
Aborted(k) ==
  LET c == turnOf[k] IN
  /\ Up
  /\ phase[k] = "aborting"
  /\ EndTurn(k, "failed")
  /\ sessionState' = [sessionState EXCEPT ![c] = "lost"]
  /\ sessionRef' = [sessionRef EXCEPT ![c] = NoSession]
  /\ generation' = [generation EXCEPT ![c] = @ + 1]
  /\ UNCHANGED quotaVars

IsCharged(k) == turn[k] = "complete"

\* The operation's promise settles, after the scope was unbound or right
\* after a rejected begin: settle or release, forget the pending turn.
OperationSettles(k) ==
  /\ Up
  /\ phase[k] \in {"returning", "rejected"}
  /\ FinishReservations({k}, {j \in {k} : IsCharged(j)}, Estimate)
  /\ phase' = [phase EXCEPT ![k] = "none"]
  /\ UNCHANGED <<turnRows, sessionRows, sessions, actions, cancelling, grant,
                 backend, stops>>

(***************************************************************************)
(* initialize: at startup, and again whenever the provider has to be       *)
(* discovered anew, reservations of turns that do not run are finished.    *)
(***************************************************************************)
CompleteOnly(k) == Unfinished(k) /\ turn[k] = "complete"
Reconcilable(k) == Unfinished(k) /\ turn[k] # "running"

Reconcile(S) ==
  FinishReservations(S, {k \in S : IsCharged(k)}, Estimate)

RefreshProviders ==
  /\ backend = "serving"
  /\ Reconcile({k \in Keys : Reconcilable(k)})
  /\ UNCHANGED turnVars

(***************************************************************************)
(* Stop and start.                                                         *)
(***************************************************************************)
ForgetMemory ==
  /\ phase' = [k \in Keys |-> "none"]
  /\ actions' = [k \in Keys |-> {}]
  /\ cancelling' = {}
  /\ grant' = [k \in Keys |-> 0]

Crash ==
  /\ Up
  /\ stops < MaxStops
  /\ stops' = stops + 1
  /\ backend' = "crashed"
  /\ ForgetMemory
  /\ UNCHANGED <<quotaVars, turnRows, sessionRows, sessions>>

\* close revokes every capability first; turns are not waited for.
BeginClose ==
  /\ backend = "serving"
  /\ stops < MaxStops
  /\ stops' = stops + 1
  /\ backend' = "closing"
  /\ grant' = [k \in Keys |-> 0]
  /\ UNCHANGED <<quotaVars, turnRows, sessionRows, sessions, phase, actions,
                 cancelling>>

CloseStore ==
  /\ backend = "closing"
  /\ backend' = "stopped"
  /\ ForgetMemory
  /\ UNCHANGED <<quotaVars, turnRows, sessionRows, sessions, stops>>

Interrupted(k) == turn[k] = "running"

SessionInterrupted(c) == RunningIn(c) # {}

\* reconcileInterruptedConversationTurns, before anything else runs.  What
\* the tools of such a turn did is in the Store, but not in its report.
ReconcileTurns ==
  /\ backend \in {"stopped", "crashed"}
  /\ backend' = "starting"
  /\ turn' = [k \in Keys |->
       IF Interrupted(k) THEN "backend_restart" ELSE turn[k]]
  /\ sessionState' = [c \in Conversations |->
       IF SessionInterrupted(c) THEN "lost" ELSE sessionState[c]]
  /\ sessionRef' = [c \in Conversations |->
       IF SessionInterrupted(c) THEN NoSession ELSE sessionRef[c]]
  /\ generation' = [c \in Conversations |->
       generation[c] + (IF SessionInterrupted(c) THEN 1 ELSE 0)]
  /\ UNCHANGED <<quotaVars, turnOf, evidence, effects, sessions, memory, stops>>

\* Each row is a transaction of its own, so a crash may leave only some of
\* them finished.
ReconcileQuota ==
  /\ backend = "starting"
  /\ \E S \in SUBSET {k \in Keys : Reconcilable(k)} :
       /\ Reconcile(S)
       /\ IF \A k \in Keys : Reconcilable(k) => k \in S
            THEN backend' = "serving" /\ UNCHANGED stops
            ELSE stops < MaxStops /\ stops' = stops + 1 /\ backend' = "crashed"
  /\ UNCHANGED <<turnRows, sessionRows, sessions, memory>>

Next ==
  \/ ManageUsers
  \/ \E u \in Users, k \in Keys : \E c \in Submissions[k] : SubmitTurn(u, k, c)
  \/ \E k \in Keys : Discovered(k)
  \/ \E k \in Keys : Resumed(k)
  \/ \E k \in Keys : SessionCreated(k)
  \/ \E k \in Keys : ScopeBound(k)
  \/ \E k \in Keys : ChangeCall(k)
  \/ \E k \in Keys : CancelCall(k)
  \/ \E k \in Keys : CancelAnswered(k)
  \/ \E k \in Keys : Prompted(k)
  \/ \E k \in Keys : Aborted(k)
  \/ \E k \in Keys : OperationSettles(k)
  \/ RefreshProviders
  \/ Crash \/ BeginClose \/ CloseStore \/ ReconcileTurns \/ ReconcileQuota

Spec == Init /\ [][Next]_vars

(***************************************************************************)
(* Fairness.  Every await on OpenCode is bounded by a timeout, what follows *)
(* is run by the event loop, and a backend that crashed is restarted.      *)
(***************************************************************************)
Fairness ==
  /\ \A k \in Keys :
       WF_vars(\/ Discovered(k) \/ Resumed(k) \/ SessionCreated(k)
               \/ ScopeBound(k) \/ Prompted(k) \/ Aborted(k)
               \/ OperationSettles(k))
  /\ WF_vars(backend = "crashed" /\ ReconcileTurns)
  /\ WF_vars(ReconcileQuota)

FairSpec == Spec /\ Fairness

(***************************************************************************)
(* Properties.                                                             *)
(***************************************************************************)
\* Every variable stays in the set its column or field ranges over.
TypeOK ==
  /\ QuotaTypeOK
  /\ turn \in [Keys -> TurnStates]
  /\ turnOf \in [Keys -> Conversations \cup {NoConversation}]
  /\ evidence \in [Keys -> SUBSET Effects]
  /\ effects \in [Keys -> SUBSET Effects]
  /\ sessionState \in [Conversations ->
       {"none", "connecting", "available", "lost", "read_only"}]
  /\ sessionRef \in [Conversations -> 1..MaxSessions \cup {NoSession}]
  /\ generation \in [Conversations -> Nat]
  /\ sessions \in 0..MaxSessions
  /\ phase \in [Keys -> Phases]
  /\ actions \in [Keys -> SUBSET Effects]
  /\ cancelling \subseteq Keys
  /\ grant \in [Keys -> Nat]
  /\ backend \in {"stopped", "crashed", "starting", "serving", "closing"}
  /\ stops \in 0..MaxStops

\* Nobody pays for a turn that did not complete: a settled reservation is
\* that of a complete turn, whichever of the submission's callback, a refresh
\* and a restart got to finish it.
OnlyCompleteTurnsPay ==
  \A k \in Keys : reservation[k] = "settled" => turn[k] = "complete"

\* The report of a turn that ended in a live process names every change its
\* tool calls made, those during the abort included, and nothing they did not
\* do.  Cancels are left out: a cancel that still waits for the end of its Run
\* when the turn ends is in no report.
EvidenceIsComplete ==
  \A k \in Keys :
    /\ evidence[k] \subseteq effects[k]
    /\ turn[k] \in {"complete", "failed", "read_only"} =>
         effects[k] \ {"cancel"} \subseteq evidence[k]

\* A capability belongs to a running turn, to the session generation its
\* conversation has now, and no conversation has two of them.
GrantsAreCurrent ==
  \A k \in Keys : Granted(k) =>
    /\ turn[k] = "running"
    /\ grant[k] = generation[turnOf[k]]
    /\ \A j \in Keys : Granted(j) /\ turnOf[j] = turnOf[k] => j = k

\* A conversation that shows "connecting" has a turn running that will end
\* that, and while the backend is up a running turn has someone running it.
NothingHangs ==
  /\ \A c \in Conversations :
       sessionState[c] = "connecting" => RunningIn(c) # {}
  /\ Up => \A k \in Keys : turn[k] = "running" <=> phase[k] \in Executing

\* Once a turn ended, nothing it started changes the Project any more.
NoLateEffects ==
  \A k \in Keys : turn[k] \in Ended =>
    turn'[k] = turn[k] /\ effects'[k] = effects[k]

\* A generation number names one OpenCode session: it never decreases, and
\* whenever a session is replaced or given up it grows.
GenerationsNameSessions ==
  \A c \in Conversations :
    /\ generation'[c] >= generation[c]
    /\ sessionRef[c] \notin {NoSession, sessionRef'[c]} =>
         generation'[c] > generation[c]

\* The ledger of a user agrees with the turns it pays for: what is reserved and
\* charged adds up within the limit, and only complete turns are charged.
LedgerIsTrue == TypeOK /\ LedgerBalanced /\ OnlyCompleteTurnsPay

\* The turn rows agree with the sessions, the capabilities and the changes the
\* turns made: none hangs, none has two capabilities, none leaves out a change.
TurnsAgree == EvidenceIsComplete /\ GrantsAreCurrent /\ NothingHangs

\* What is over stays over: an ended turn changes nothing more, and a session
\* that was given up is not taken for its successor.
TurnsAreFinal == [][NoLateEffects]_vars /\ [][GenerationsNameSessions]_vars

\* Every submitted turn ends, and with it the wait of its conversation.
TurnsEnd ==
  []<>(backend = "stopped" \/ \A k \in Keys : turn[k] # "running")

\* No reservation is held for ever: it is settled or released, also when the
\* process died between the end of the turn and the ledger's transaction.
ReservationsEnd ==
  []<>(backend = "stopped" \/ \A k \in Keys : ~Unfinished(k))

\* Nothing that a submission opened stays open.
EverythingEnds == TurnsEnd /\ ReservationsEnd

\* Every complete turn is paid for once its submission has been dealt with.
CompleteTurnsPay ==
  backend = "serving" =>
    \A k \in Keys :
      turn[k] = "complete" /\ phase[k] = "none" => reservation[k] = "settled"
==============================================================================
