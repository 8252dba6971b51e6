----------------------- MODULE ConversationTurnsProofs -----------------------
(***************************************************************************)
(* Proofs about the turns of ConversationTurns: the rows of a turn, its    *)
(* session, its capability and its report, and about the ledger that pays  *)
(* for them.  A sum is the number of tokens it counts (TotalIsCount), so   *)
(* that the facts about cardinalities are facts about sums.                *)
(***************************************************************************)
EXTENDS ConversationTurns, FiniteSetTheorems, TLAPS

SessionStates == {"none", "connecting", "available", "lost", "read_only"}

TurnTypes ==
  /\ turn \in [Keys -> TurnStates]
  /\ turnOf \in [Keys -> Conversations \cup {NoConversation}]
  /\ evidence \in [Keys -> SUBSET Effects] /\ effects \in [Keys -> SUBSET Effects]
  /\ actions \in [Keys -> SUBSET Effects]
  /\ sessionState \in [Conversations -> SessionStates]
  /\ sessionRef \in [Conversations -> Nat \cup {NoSession}]
  /\ generation \in [Conversations -> Nat] /\ sessions \in Nat
  /\ phase \in [Keys -> Phases] /\ cancelling \subseteq Keys /\ grant \in [Keys -> Nat]
  /\ backend \in {"stopped", "crashed", "starting", "serving", "closing"}

\* What a turn did is in its report, or will be: the actions in memory cover it as long
\* as the process that has them is up.
Reported(k) ==
  /\ turn[k] = "absent" => effects[k] = {}
  /\ evidence[k] \subseteq effects[k] /\ actions[k] \subseteq effects[k]
  /\ k \in cancelling => "cancel" \in effects[k]
  /\ turn[k] \in {"complete", "failed", "read_only"} => effects[k] \ {"cancel"} \subseteq evidence[k]
  /\ Up /\ turn[k] = "running" => effects[k] \ {"cancel"} \subseteq actions[k]

\* A turn runs where it was submitted, as long as somebody runs it; its capability is for
\* the session of now.
Driven(k) ==
  /\ turn[k] # "absent" => turnOf[k] \in Conversations
  /\ Up => (turn[k] = "running" <=> phase[k] \in Executing)
  /\ ~Up => phase[k] = "none" /\ actions[k] = {} /\ grant[k] = 0 /\ k \notin cancelling
  /\ backend = "starting" => turn[k] # "running"
  /\ Granted(k) => turn[k] = "running" /\ grant[k] = generation[turnOf[k]]

\* The unique index of running turns.
OneRuns ==
  \A j, k \in Keys : turn[j] = "running" /\ turn[k] = "running" /\ turnOf[j] = turnOf[k] => j = k

ConnectingHasTurn ==
  \A c \in Conversations : sessionState[c] = "connecting" =>
    \E k \in Keys : turn[k] = "running" /\ turnOf[k] = c

KeyOK(k) == Reported(k) /\ Driven(k)

IInv == TurnTypes /\ (\A k \in Keys : KeyOK(k)) /\ OneRuns /\ ConnectingHasTurn

LEMMA InvariantAgrees == IInv => TurnsAgree
<1> SUFFICES ASSUME IInv PROVE TurnsAgree
  OBVIOUS
<1> USE DEF IInv, KeyOK
<1>1. EvidenceIsComplete
  BY DEF Reported, EvidenceIsComplete
<1>2. GrantsAreCurrent
  BY DEF Driven, OneRuns, GrantsAreCurrent
<1>3. NothingHangs
  BY DEF Driven, ConnectingHasTurn, NothingHangs, RunningIn
<1>4. QED
  BY <1>1, <1>2, <1>3 DEF TurnsAgree
-----------------------------------------------------------------------------
(* Steps of one turn. *)

\* The other turns have what they had.
OthersKeep(k) ==
  \A j \in Keys \ {k} :
    /\ turn'[j] = turn[j] /\ turnOf'[j] = turnOf[j] /\ evidence'[j] = evidence[j]
    /\ effects'[j] = effects[j] /\ actions'[j] = actions[j] /\ phase'[j] = phase[j]
    /\ grant'[j] = grant[j] /\ (j \in cancelling') = (j \in cancelling)

LEMMA OthersReported ==
  ASSUME NEW k, OthersKeep(k), UNCHANGED backend, NEW j \in Keys \ {k}, Reported(j)
  PROVE  Reported(j)'
BY DEF OthersKeep, Reported, Up

LEMMA OthersDriven ==
  ASSUME NEW k, OthersKeep(k), UNCHANGED backend, NEW j \in Keys \ {k}, Driven(j),
         turn[j] = "running" => generation'[turnOf[j]] = generation[turnOf[j]]
  PROVE  Driven(j)'
BY DEF OthersKeep, Driven, Up, Granted

\* A step that leaves the sessions alone.
LEMMA TurnStep ==
  ASSUME IInv, NEW k \in Keys, OthersKeep(k), UNCHANGED <<sessionRows, backend>>, TurnTypes', KeyOK(k)',
         turn'[k] = "running" <=> turn[k] = "running", turn[k] = "running" => turnOf'[k] = turnOf[k]
  PROVE  IInv'
<1> USE DEF IInv, KeyOK
<1>1. ASSUME NEW j \in Keys \ {k} PROVE Reported(j)' /\ Driven(j)'
  BY OthersReported, OthersDriven DEF sessionRows
<1>2. \A j \in Keys : KeyOK(j)'
  BY <1>1
<1>3. \A j \in Keys : (turn'[j] = "running" <=> turn[j] = "running") /\ (turn[j] = "running" => turnOf'[j] = turnOf[j])
  BY DEF OthersKeep
<1>4. OneRuns' /\ ConnectingHasTurn'
  BY <1>3 DEF OneRuns, ConnectingHasTurn, sessionRows
<1>5. QED
  BY <1>2, <1>4

\* A step of the turn of a Conversation that has no other.
LEMMA SessionStep ==
  ASSUME IInv, NEW k \in Keys, NEW c \in Conversations, OthersKeep(k), UNCHANGED backend, TurnTypes', KeyOK(k)',
         \A j \in Keys \ {k} : turn[j] = "running" => turnOf[j] # c,
         \A d \in Conversations \ {c} : generation'[d] = generation[d] /\ sessionState'[d] = sessionState[d],
         turn[k] = "running" => turnOf[k] = c, turn'[k] = "running" => turnOf'[k] = c,
         sessionState'[c] = "connecting" => turn'[k] = "running"
  PROVE  IInv'
<1> USE DEF IInv, KeyOK
<1>1. ASSUME NEW j \in Keys \ {k} PROVE Reported(j)' /\ Driven(j)'
  <2>1. Reported(j)'
    BY OthersReported
  <2>2. turn[j] = "running" => turnOf[j] \in Conversations \ {c}
    BY DEF Driven
  <2>3. Driven(j)'
    BY <2>2, OthersDriven
  <2>4. QED  BY <2>1, <2>3
<1>2. \A j \in Keys : KeyOK(j)'
  BY <1>1
<1>3. \A j \in Keys \ {k} : turn'[j] = turn[j] /\ turnOf'[j] = turnOf[j]
  BY DEF OthersKeep
<1>4. OneRuns'
  BY <1>3 DEF OneRuns
<1>5. ConnectingHasTurn'
  <2> SUFFICES ASSUME NEW d \in Conversations, sessionState'[d] = "connecting"
               PROVE  \E j \in Keys : turn'[j] = "running" /\ turnOf'[j] = d
    BY DEF ConnectingHasTurn
  <2>1. CASE d = c
    BY <2>1
  <2>2. CASE d # c
    <3>1. PICK j \in Keys : turn[j] = "running" /\ turnOf[j] = d
      BY <2>2 DEF ConnectingHasTurn
    <3>2. j # k
      BY <2>2, <3>1
    <3>3. QED
      BY <1>3, <3>1, <3>2
  <2>3. QED  BY <2>1, <2>2
<1>6. QED
  BY <1>2, <1>4, <1>5

LEMMA Kept == IInv /\ UNCHANGED turnVars => IInv'
BY DEF IInv, TurnTypes, KeyOK, Reported, Driven, OneRuns, ConnectingHasTurn, Up, Granted,
       turnVars, turnRows, sessionRows, memory
-----------------------------------------------------------------------------
(* The actions. *)

LEMMA SubmitSteps ==
  ASSUME IInv, NEW u, NEW k \in Keys, NEW c \in Conversations, SubmitTurn(u, k, c)
  PROVE  IInv'
<1> USE DEF IInv, KeyOK
<1>1. /\ backend = "serving" /\ UNCHANGED <<evidence, effects, sessions, cancelling, grant, backend>>
      /\ turn[k] = "absent" /\ phase[k] = "none" /\ Up /\ Up' /\ Reported(k) /\ Driven(k) /\ TurnTypes
  BY DEF SubmitTurn, Up
<1>2. CASE Begin(k, c) /\ ConversationFree(c)
  <2>1. /\ turn' = [turn EXCEPT ![k] = "running"] /\ turnOf' = [turnOf EXCEPT ![k] = c]
        /\ sessionState' = [sessionState EXCEPT ![c] = "connecting"]
        /\ actions' = [actions EXCEPT ![k] = {}] /\ phase' = [phase EXCEPT ![k] = "discovering"]
        /\ UNCHANGED <<sessionRef, generation>>
    BY <1>2 DEF Begin
  <2>2. TurnTypes' /\ OthersKeep(k)
    BY <1>1, <2>1 DEF TurnTypes, TurnStates, Phases, SessionStates, OthersKeep
  <2>3. turn'[k] = "running" /\ turnOf'[k] = c /\ actions'[k] = {} /\ phase'[k] = "discovering"
    BY <1>1, <2>1 DEF TurnTypes
  <2>4. KeyOK(k)'
    BY <1>1, <2>3 DEF Reported, Driven, Executing, Phases, Granted, Up
  <2>5. \A d \in Conversations \ {c} : generation'[d] = generation[d] /\ sessionState'[d] = sessionState[d]
    BY <1>1, <2>1 DEF TurnTypes
  <2>6. \A j \in Keys \ {k} : turn[j] = "running" => turnOf[j] # c
    BY <1>2 DEF ConversationFree, RunningIn
  <2>7. QED
    BY <1>1, <2>2, <2>3, <2>4, <2>5, <2>6, SessionStep
<1>3. CASE RejectBegin(k)
  <2>1. phase' = [phase EXCEPT ![k] = "rejected"] /\ UNCHANGED <<turn, turnOf, sessionRows, actions>>
    BY <1>3 DEF RejectBegin
  <2>2. TurnTypes' /\ OthersKeep(k)
    BY <1>1, <2>1 DEF TurnTypes, Phases, OthersKeep, sessionRows
  <2>3. KeyOK(k)'
    BY <1>1, <2>1 DEF Reported, Driven, Executing, Phases, Granted, Up, TurnTypes, sessionRows
  <2>4. QED
    BY <1>1, <2>1, <2>2, <2>3, TurnStep
<1>4. QED
  BY <1>2, <1>3 DEF SubmitTurn

\* The end of a turn, whatever becomes of its session.
LEMMA EndSteps ==
  ASSUME IInv, NEW k \in Keys, Up, phase[k] \in Executing, NEW state \in {"complete", "failed", "read_only"},
         EndTurn(k, state), NEW s \in SessionStates \ {"connecting"},
         sessionState' = [sessionState EXCEPT ![turnOf[k]] = s],
         sessionRef' \in [Conversations -> Nat \cup {NoSession}], generation' \in [Conversations -> Nat],
         \A d \in Conversations \ {turnOf[k]} : generation'[d] = generation[d]
  PROVE  IInv'
<1> USE DEF IInv, KeyOK
<1>1. Reported(k) /\ Driven(k) /\ TurnTypes /\ turn[k] = "running" /\ turnOf[k] \in Conversations
  BY DEF Driven
<1>2. /\ turn' = [turn EXCEPT ![k] = state] /\ evidence' = [evidence EXCEPT ![k] = actions[k]]
      /\ actions' = [actions EXCEPT ![k] = {}] /\ phase' = [phase EXCEPT ![k] = "returning"]
      /\ grant' = [grant EXCEPT ![k] = 0]
      /\ UNCHANGED <<turnOf, effects, sessions, cancelling, backend>>
  BY DEF EndTurn, EvidenceOf, RevokeGrant
<1>3. TurnTypes' /\ OthersKeep(k)
  <2>1. TurnTypes'
    BY <1>1, <1>2 DEF TurnTypes, TurnStates, Phases
  <2>2. OthersKeep(k)
    BY <1>1, <1>2 DEF TurnTypes, OthersKeep
  <2>3. QED  BY <2>1, <2>2
<1>4. turn'[k] = state /\ evidence'[k] = actions[k] /\ actions'[k] = {} /\ phase'[k] = "returning" /\ grant'[k] = 0
  BY <1>1, <1>2 DEF TurnTypes
<1>5. KeyOK(k)'
  BY <1>1, <1>2, <1>4 DEF Reported, Driven, Executing, Granted, Up
<1>6. /\ \A d \in Conversations \ {turnOf[k]} : sessionState'[d] = sessionState[d]
      /\ sessionState'[turnOf[k]] = s
  BY <1>1 DEF TurnTypes
<1>7. \A j \in Keys \ {k} : turn[j] = "running" => turnOf[j] # turnOf[k]
  BY <1>1 DEF OneRuns
<1>8. QED
  BY <1>1, <1>2, <1>3, <1>4, <1>5, <1>6, <1>7, SessionStep

LEMMA EndInSteps ==
  ASSUME IInv, NEW k \in Keys, Up, phase[k] \in Executing, NEW state \in {"complete", "failed", "read_only"},
         EndTurnIn(k, state)
  PROVE  IInv'
<1>1. SessionAfter(state) \in SessionStates \ {"connecting"}
  BY DEF SessionAfter, SessionStates
<1>2. QED
  BY <1>1, EndSteps DEF EndTurnIn, IInv, TurnTypes

\* The turn goes on to another await, with the capability it has or with a current one.
LEMMA AwaitSteps ==
  ASSUME IInv, NEW k \in Keys, Up, phase[k] \in Executing, NEW p \in Executing, Await(k, p),
         UNCHANGED sessionRows, UNCHANGED grant \/ Grant(k)
  PROVE  IInv'
<1> USE DEF IInv, KeyOK
<1>1. Reported(k) /\ Driven(k) /\ TurnTypes /\ turn[k] = "running" /\ turnOf[k] \in Conversations
  BY DEF Driven
<1>2. phase' = [phase EXCEPT ![k] = p] /\ UNCHANGED <<turnRows, sessionRows, sessions, actions, cancelling, backend>>
  BY DEF Await
<1>3. generation[turnOf[k]] \in Nat /\ p \in Phases
  BY <1>1 DEF TurnTypes, Executing
<1>4. /\ grant' \in [Keys -> Nat] /\ \A j \in Keys \ {k} : grant'[j] = grant[j]
      /\ grant'[k] # 0 => grant'[k] = generation[turnOf[k]]
  BY <1>1, <1>2, <1>3 DEF TurnTypes, Grant, Driven, Granted, sessionRows, turnRows
<1>5. TurnTypes' /\ OthersKeep(k)
  BY <1>1, <1>2, <1>3, <1>4 DEF TurnTypes, OthersKeep, sessionRows, turnRows
<1>6. KeyOK(k)'
  BY <1>1, <1>2, <1>4 DEF Reported, Driven, Granted, Up, TurnTypes, sessionRows, turnRows
<1>7. QED
  BY <1>1, <1>2, <1>5, <1>6, TurnStep DEF turnRows

LEMMA CreatedSteps ==
  ASSUME IInv, NEW k \in Keys, SessionCreated(k)
  PROVE  IInv'
<1> USE DEF IInv, KeyOK
<1>1. Up /\ phase[k] = "creating" /\ "creating" \in Executing /\ "binding" \in Executing
  BY DEF SessionCreated, Executing, Phases
<1>2. CASE EndTurnIn(k, "failed")
  BY <1>1, <1>2, EndInSteps
<1>3. CASE ~EndTurnIn(k, "failed")
  <2> DEFINE c == turnOf[k]
  <2>1. Reported(k) /\ Driven(k) /\ TurnTypes /\ turn[k] = "running" /\ c \in Conversations
    BY <1>1 DEF Driven
  <2>2. /\ phase' = [phase EXCEPT ![k] = "binding"] /\ sessions' = sessions + 1
        /\ sessionRef' = [sessionRef EXCEPT ![c] = sessions + 1]
        /\ sessionState' = [sessionState EXCEPT ![c] = "available"]
        /\ generation' = [generation EXCEPT ![c] = NextGeneration(c)]
        /\ grant' = [grant EXCEPT ![k] = generation'[c]]
        /\ UNCHANGED <<turn, turnOf, evidence, effects, actions, cancelling, backend>>
    BY <1>3, <2>1 DEF SessionCreated, Grant, turnRows
  <2>3. NextGeneration(c) \in Nat /\ sessions + 1 \in Nat
    BY <2>1 DEF NextGeneration, TurnTypes
  <2>4. generation' \in [Conversations -> Nat] /\ generation'[c] \in Nat
    BY <2>1, <2>2, <2>3 DEF TurnTypes
  <2>5. sessionRef' \in [Conversations -> Nat \cup {NoSession}] /\ sessionState' \in [Conversations -> SessionStates]
    BY <2>1, <2>2, <2>3 DEF TurnTypes, SessionStates
  <2>6. phase' \in [Keys -> Phases] /\ grant' \in [Keys -> Nat]
    BY <2>1, <2>2, <2>4 DEF TurnTypes, Phases
  <2>7. TurnTypes' /\ OthersKeep(k)
    BY <2>1, <2>2, <2>3, <2>4, <2>5, <2>6 DEF TurnTypes, OthersKeep
  <2>8. phase'[k] = "binding" /\ grant'[k] = generation'[c]
    BY <2>1, <2>2 DEF TurnTypes
  <2>9. KeyOK(k)'
    BY <1>1, <2>1, <2>2, <2>8 DEF Reported, Driven, Granted, Up
  <2>10. /\ \A d \in Conversations \ {c} : generation'[d] = generation[d] /\ sessionState'[d] = sessionState[d]
         /\ sessionState'[c] = "available"
    BY <2>1, <2>2 DEF TurnTypes
  <2>11. \A j \in Keys \ {k} : turn[j] = "running" => turnOf[j] # c
    BY <2>1 DEF OneRuns
  <2>12. QED
    BY <2>1, <2>2, <2>7, <2>9, <2>10, <2>11, SessionStep
<1>4. QED
  BY <1>2, <1>3

LEMMA AbortedSteps ==
  ASSUME IInv, NEW k \in Keys, Aborted(k)
  PROVE  IInv'
<1> USE DEF IInv, KeyOK
<1>1. Up /\ phase[k] = "aborting" /\ "aborting" \in Executing /\ TurnTypes /\ Driven(k)
  BY DEF Aborted, Executing, Phases
<1>2. turnOf[k] \in Conversations
  BY <1>1 DEF Driven
<1>3. /\ EndTurn(k, "failed") /\ sessionState' = [sessionState EXCEPT ![turnOf[k]] = "lost"]
      /\ sessionRef' = [sessionRef EXCEPT ![turnOf[k]] = NoSession]
      /\ generation' = [generation EXCEPT ![turnOf[k]] = @ + 1]
  BY DEF Aborted
<1>4. generation[turnOf[k]] + 1 \in Nat
  BY <1>1, <1>2 DEF TurnTypes
<1>5. /\ sessionRef' \in [Conversations -> Nat \cup {NoSession}] /\ generation' \in [Conversations -> Nat]
      /\ \A d \in Conversations \ {turnOf[k]} : generation'[d] = generation[d]
  BY <1>1, <1>2, <1>3, <1>4 DEF TurnTypes
<1>6. "lost" \in SessionStates \ {"connecting"} /\ "failed" \in {"complete", "failed", "read_only"}
  BY DEF SessionStates
<1>7. phase[k] \in Executing
  BY <1>1
<1>8. QED
  BY <1>1, <1>3, <1>5, <1>6, <1>7, EndSteps, Zenon

LEMMA CallSteps ==
  ASSUME IInv, NEW k \in Keys, ChangeCall(k) \/ CancelCall(k) \/ CancelAnswered(k) \/ OperationSettles(k)
  PROVE  IInv'
<1> USE DEF IInv, KeyOK
<1>1. /\ Reported(k) /\ Driven(k) /\ TurnTypes /\ Up
      /\ UNCHANGED <<turn, turnOf, evidence, sessionRows, sessions, grant, backend>>
  BY DEF ChangeCall, CancelCall, CancelAnswered, OperationSettles, MayCall, turnRows
<1>2. /\ effects' \in [Keys -> SUBSET Effects] /\ actions' \in [Keys -> SUBSET Effects] /\ cancelling' \subseteq Keys
      /\ phase' \in [Keys -> Phases]
      /\ \A j \in Keys \ {k} : /\ effects'[j] = effects[j] /\ actions'[j] = actions[j] /\ phase'[j] = phase[j]
                               /\ (j \in cancelling') = (j \in cancelling)
      /\ Reported(k)' /\ (phase'[k] \in Executing <=> phase[k] \in Executing)
  <2>1. CASE ChangeCall(k)
    <3>1. /\ turn[k] = "running" /\ UNCHANGED <<cancelling, phase>>
          /\ effects' = [effects EXCEPT ![k] = @ \cup {"change"}] /\ actions' = [actions EXCEPT ![k] = @ \cup {"change"}]
      BY <1>1, <2>1 DEF ChangeCall, MayCall, Driven
    <3>2. QED
      BY <1>1, <3>1 DEF TurnTypes, Effects, Reported, Up
  <2>2. CASE CancelCall(k)
    <3>1. /\ turn[k] = "running" /\ UNCHANGED <<actions, phase>> /\ cancelling' = cancelling \cup {k}
          /\ effects' = [effects EXCEPT ![k] = @ \cup {"cancel"}]
      BY <1>1, <2>2 DEF CancelCall, MayCall, Driven
    <3>2. QED
      BY <1>1, <3>1 DEF TurnTypes, Effects, Reported, Up
  <2>3. CASE CancelAnswered(k)
    <3>1. /\ UNCHANGED <<effects, phase>> /\ cancelling' = cancelling \ {k} /\ k \in cancelling
          /\ actions' = [actions EXCEPT ![k] = IF turn[k] = "running" THEN @ \cup {"cancel"} ELSE @]
      BY <1>1, <2>3 DEF CancelAnswered, turnRows
    <3>2. QED
      BY <1>1, <3>1 DEF TurnTypes, Effects, Reported, Up
  <2>4. CASE OperationSettles(k)
    <3>1. /\ UNCHANGED <<effects, actions, cancelling>> /\ phase' = [phase EXCEPT ![k] = "none"]
          /\ phase[k] \in {"returning", "rejected"}
      BY <2>4 DEF OperationSettles, turnRows
    <3>2. QED
      BY <1>1, <3>1 DEF TurnTypes, Phases, Executing, Reported, Up
  <2>5. QED
    BY <2>1, <2>2, <2>3, <2>4
<1>3. TurnTypes' /\ OthersKeep(k)
  BY <1>1, <1>2 DEF TurnTypes, OthersKeep, sessionRows
<1>4. Driven(k)'
  BY <1>1, <1>2 DEF Driven, Granted, Up, sessionRows
<1>5. QED
  BY <1>1, <1>2, <1>3, <1>4, TurnStep

LEMMA RunSteps ==
  ASSUME IInv, NEW k \in Keys, Discovered(k) \/ Resumed(k) \/ ScopeBound(k) \/ Prompted(k)
  PROVE  IInv'
<1>1. {"discovering", "resuming", "creating", "binding", "prompting", "aborting"} \subseteq Executing
  BY DEF Executing, Phases
<1>2. Up /\ phase[k] \in Executing
  BY <1>1 DEF Discovered, Resumed, ScopeBound, Prompted
<1>3. CASE \E state \in {"complete", "failed", "read_only"} : EndTurnIn(k, state)
  BY <1>2, <1>3, EndInSteps
<1>4. CASE \E p \in Executing : Await(k, p) /\ UNCHANGED sessionRows /\ (UNCHANGED grant \/ Grant(k))
  BY <1>2, <1>4, AwaitSteps
<1>5. QED
  BY <1>1, <1>3, <1>4 DEF Discovered, Resumed, ScopeBound, Prompted
-----------------------------------------------------------------------------
(* Stops and starts. *)

LEMMA StopSteps ==
  ASSUME IInv, Crash \/ BeginClose \/ CloseStore
  PROVE  IInv'
<1> USE DEF IInv, KeyOK
<1>1. /\ TurnTypes /\ Up /\ UNCHANGED <<turnRows, sessionRows, sessions>>
      /\ \/ backend' \in {"crashed", "stopped"} /\ ForgetMemory
         \/ /\ backend' = "closing" /\ grant' = [k \in Keys |-> 0]
            /\ UNCHANGED <<phase, actions, cancelling>>
  BY DEF Crash, BeginClose, CloseStore, Up
<1>2. TurnTypes'
  BY <1>1 DEF TurnTypes, ForgetMemory, turnRows, sessionRows, Phases
<1>3. ASSUME NEW k \in Keys PROVE Reported(k)' /\ Driven(k)'
  <2>1. Reported(k) /\ Driven(k)
    OBVIOUS
  <2>2. CASE backend' \in {"crashed", "stopped"} /\ ForgetMemory
    BY <1>1, <2>1, <2>2 DEF Reported, Driven, ForgetMemory, turnRows, sessionRows, Up, Granted
  <2>3. CASE backend' = "closing" /\ grant' = [j \in Keys |-> 0] /\ UNCHANGED <<phase, actions, cancelling>>
    BY <1>1, <2>1, <2>3 DEF Reported, Driven, turnRows, sessionRows, Up, Granted
  <2>4. QED
    BY <1>1, <2>2, <2>3
<1>4. OneRuns' /\ ConnectingHasTurn'
  BY <1>1 DEF OneRuns, ConnectingHasTurn, turnRows, sessionRows
<1>5. QED
  BY <1>2, <1>3, <1>4

LEMMA StartSteps ==
  ASSUME IInv, ReconcileTurns \/ ReconcileQuota
  PROVE  IInv'
<1> USE DEF IInv, KeyOK
<1>1. CASE ReconcileTurns
  <2>1. /\ TurnTypes /\ ~Up /\ backend' = "starting" /\ ~Up'
        /\ UNCHANGED <<turnOf, evidence, effects, sessions, memory>>
    BY <1>1 DEF ReconcileTurns, Up
  <2>2. \A k \in Keys : turn'[k] = (IF turn[k] = "running" THEN "backend_restart" ELSE turn[k])
    BY <1>1 DEF ReconcileTurns, Interrupted
  <2>3. \A c \in Conversations :
          sessionState'[c] = (IF SessionInterrupted(c) THEN "lost" ELSE sessionState[c])
    BY <1>1 DEF ReconcileTurns
  <2>4. TurnTypes'
    <3>1. turn' \in [Keys -> TurnStates]
      BY <1>1, <2>1 DEF ReconcileTurns, TurnTypes, TurnStates
    <3>2. sessionState' \in [Conversations -> SessionStates] /\ sessionRef' \in [Conversations -> Nat \cup {NoSession}]
      BY <1>1, <2>1 DEF ReconcileTurns, TurnTypes, SessionStates
    <3>3. generation' \in [Conversations -> Nat]
      <4>1. \A c \in Conversations : generation[c] + (IF SessionInterrupted(c) THEN 1 ELSE 0) \in Nat
        BY <2>1 DEF TurnTypes
      <4>2. QED
        BY <1>1, <4>1 DEF ReconcileTurns
    <3>4. QED
      BY <2>1, <3>1, <3>2, <3>3 DEF TurnTypes, memory
  <2>5. ASSUME NEW k \in Keys PROVE Reported(k)' /\ Driven(k)'
    BY <2>1, <2>2 DEF Reported, Driven, Granted, memory
  <2>6. OneRuns'
    BY <2>2 DEF OneRuns
  <2>7. ConnectingHasTurn'
    BY <2>3 DEF ConnectingHasTurn, SessionInterrupted, RunningIn
  <2>8. QED
    BY <2>4, <2>5, <2>6, <2>7
<1>2. CASE ReconcileQuota
  <2>1. /\ TurnTypes /\ backend = "starting" /\ backend' \in {"serving", "crashed"}
        /\ UNCHANGED <<turnRows, sessionRows, sessions, memory>>
    BY <1>2 DEF ReconcileQuota
  <2>2. TurnTypes'
    BY <2>1 DEF TurnTypes, turnRows, sessionRows, memory
  <2>3. ASSUME NEW k \in Keys PROVE Reported(k)' /\ Driven(k)'
    BY <2>1 DEF Reported, Driven, Granted, Up, turnRows, sessionRows, memory, Executing
  <2>4. OneRuns' /\ ConnectingHasTurn'
    BY <2>1 DEF OneRuns, ConnectingHasTurn, turnRows, sessionRows
  <2>5. QED
    BY <2>2, <2>3, <2>4
<1>3. QED
  BY <1>1, <1>2
-----------------------------------------------------------------------------
LEMMA Initially == Init => IInv
BY DEF Init, IInv, TurnTypes, KeyOK, Reported, Driven, OneRuns, ConnectingHasTurn, Up, Granted,
       TurnStates, Phases, SessionStates, Executing

LEMMA Preserved == IInv /\ [Next]_vars => IInv'
<1> SUFFICES ASSUME IInv, [Next]_vars PROVE IInv'
  OBVIOUS
<1>1. CASE ManageUsers \/ RefreshProviders
  BY <1>1, Kept DEF ManageUsers, RefreshProviders
<1>2. ASSUME NEW u \in Users, NEW k \in Keys, NEW c \in Submissions[k], SubmitTurn(u, k, c)
      PROVE  IInv'
  BY <1>2, SubmitSteps, EstimateAssumption
<1>3. ASSUME NEW k \in Keys, Discovered(k) \/ Resumed(k) \/ ScopeBound(k) \/ Prompted(k)
      PROVE  IInv'
  BY <1>3, RunSteps
<1>4. ASSUME NEW k \in Keys, SessionCreated(k) \/ Aborted(k)
      PROVE  IInv'
  BY <1>4, CreatedSteps, AbortedSteps
<1>5. ASSUME NEW k \in Keys, ChangeCall(k) \/ CancelCall(k) \/ CancelAnswered(k) \/ OperationSettles(k)
      PROVE  IInv'
  BY <1>5, CallSteps
<1>6. CASE Crash \/ BeginClose \/ CloseStore \/ ReconcileTurns \/ ReconcileQuota
  BY <1>6, StopSteps, StartSteps
<1>7. CASE UNCHANGED vars
  BY <1>7, Kept DEF vars
<1>8. QED
  BY <1>1, <1>2, <1>3, <1>4, <1>5, <1>6, <1>7 DEF Next

LEMMA AlwaysIInv == Spec => []IInv
<1>1. QED
  BY Initially, Preserved, PTL DEF Spec

\* The rows of the turns agree with their sessions, capabilities and reports, for any
\* users, turns, Conversations, tools and number of stops: no Conversation waits for a
\* turn that nobody runs, a capability is the running turn's and for its session of now,
\* and a report leaves out no change (project-only-agent-service.ts runTurn and its
\* finally block, project-only-store.ts completeConversationTurn and the restart).
THEOREM TurnsAgreeTheorem == Spec => []TurnsAgree
<1>1. QED
  BY AlwaysIInv, InvariantAgrees, PTL-----------------------------------------------------------------------------
(* What is over stays over. *)

LEMMA EndedStays ==
  ASSUME IInv, Next, NEW k \in Keys, turn[k] \in Ended
  PROVE  turn'[k] = turn[k] /\ effects'[k] = effects[k]
<1> USE DEF IInv, KeyOK, Ended
<1>1. ASSUME NEW j \in Keys, phase[j] \in Executing, Up
      PROVE  j # k
  BY <1>1 DEF Driven
<1>2. ASSUME NEW j \in Keys, Granted(j)
      PROVE  j # k
  BY <1>2 DEF Driven
<1>3. CASE ManageUsers \/ RefreshProviders \/ Crash \/ BeginClose \/ CloseStore \/ ReconcileQuota
  BY <1>3 DEF ManageUsers, RefreshProviders, Crash, BeginClose, CloseStore, ReconcileQuota, turnVars, turnRows
<1>4. CASE ReconcileTurns
  BY <1>4 DEF ReconcileTurns, Interrupted
<1>5. ASSUME NEW u \in Users, NEW j \in Keys, NEW c \in Submissions[j], SubmitTurn(u, j, c)
      PROVE  turn'[k] = turn[k] /\ effects'[k] = effects[k]
  BY <1>5 DEF SubmitTurn, Begin, RejectBegin, TurnTypes
<1>6. ASSUME NEW j \in Keys, Discovered(j) \/ Resumed(j) \/ SessionCreated(j) \/ ScopeBound(j) \/ Prompted(j) \/ Aborted(j)
      PROVE  turn'[k] = turn[k] /\ effects'[k] = effects[k]
  <2>1. j # k
    BY <1>1, <1>6 DEF Discovered, Resumed, SessionCreated, ScopeBound, Prompted, Aborted, Executing, Phases
  <2>2. UNCHANGED effects /\ (UNCHANGED turn \/ \E state : turn' = [turn EXCEPT ![j] = state])
    BY <1>6 DEF Discovered, Resumed, SessionCreated, ScopeBound, Prompted, Aborted, EndTurnIn, EndTurn, Await, turnRows
  <2>3. QED
    BY <2>1, <2>2 DEF TurnTypes
<1>7. ASSUME NEW j \in Keys, ChangeCall(j) \/ CancelCall(j)
      PROVE  turn'[k] = turn[k] /\ effects'[k] = effects[k]
  BY <1>2, <1>7 DEF ChangeCall, CancelCall, MayCall, TurnTypes
<1>8. ASSUME NEW j \in Keys, CancelAnswered(j) \/ OperationSettles(j)
      PROVE  turn'[k] = turn[k] /\ effects'[k] = effects[k]
  BY <1>8 DEF CancelAnswered, OperationSettles, turnRows
<1>9. QED
  BY <1>3, <1>4, <1>5, <1>6, <1>7, <1>8 DEF Next

LEMMA GenerationsGrow ==
  ASSUME IInv, Next, NEW c \in Conversations
  PROVE  /\ generation'[c] >= generation[c]
         /\ sessionRef[c] \notin {NoSession, sessionRef'[c]} => generation'[c] > generation[c]
<1> USE DEF IInv
<1>1. generation[c] \in Nat /\ TurnTypes
  BY DEF TurnTypes
<1>2. CASE UNCHANGED <<sessionRef, generation>>
  BY <1>1, <1>2
<1>3. ASSUME NEW k \in Keys, SessionCreated(k)
      PROVE  /\ generation'[c] >= generation[c]
             /\ sessionRef[c] \notin {NoSession, sessionRef'[c]} => generation'[c] > generation[c]
  <2>1. CASE EndTurnIn(k, "failed")
    BY <1>2, <2>1 DEF EndTurnIn
  <2>2. CASE ~EndTurnIn(k, "failed")
    <3>1. /\ sessionRef' = [sessionRef EXCEPT ![turnOf[k]] = sessions']
          /\ generation' = [generation EXCEPT ![turnOf[k]] = NextGeneration(turnOf[k])]
      BY <1>3, <2>2 DEF SessionCreated
    <3>2. CASE c = turnOf[k]
      BY <1>1, <3>1, <3>2 DEF NextGeneration, TurnTypes
    <3>3. CASE c # turnOf[k]
      BY <1>1, <3>1, <3>3 DEF TurnTypes
    <3>4. QED  BY <3>2, <3>3
  <2>3. QED  BY <2>1, <2>2
<1>4. ASSUME NEW k \in Keys, Aborted(k)
      PROVE  generation'[c] >= generation[c] /\ (sessionRef'[c] # sessionRef[c] => generation'[c] > generation[c])
  <2>1. /\ sessionRef' = [sessionRef EXCEPT ![turnOf[k]] = NoSession]
        /\ generation' = [generation EXCEPT ![turnOf[k]] = @ + 1]
    BY <1>4 DEF Aborted
  <2>2. CASE c = turnOf[k]
    BY <1>1, <2>1, <2>2 DEF TurnTypes
  <2>3. CASE c # turnOf[k]
    BY <1>1, <2>1, <2>3 DEF TurnTypes
  <2>4. QED  BY <2>2, <2>3
<1>5. CASE ReconcileTurns
  <2>1. /\ sessionRef'[c] = (IF SessionInterrupted(c) THEN NoSession ELSE sessionRef[c])
        /\ generation'[c] = generation[c] + (IF SessionInterrupted(c) THEN 1 ELSE 0)
    BY <1>5 DEF ReconcileTurns
  <2>2. QED
    BY <1>1, <2>1
<1>6. CASE ManageUsers \/ RefreshProviders \/ Crash \/ BeginClose \/ CloseStore \/ ReconcileQuota
  BY <1>2, <1>6 DEF ManageUsers, RefreshProviders, Crash, BeginClose, CloseStore, ReconcileQuota, turnVars, sessionRows
<1>7. ASSUME NEW u \in Users, NEW k \in Keys, NEW d \in Submissions[k], SubmitTurn(u, k, d)
      PROVE  UNCHANGED <<sessionRef, generation>>
  BY <1>7 DEF SubmitTurn, Begin, RejectBegin, sessionRows
<1>8. ASSUME NEW k \in Keys, Discovered(k) \/ Resumed(k) \/ ScopeBound(k) \/ Prompted(k)
      PROVE  UNCHANGED <<sessionRef, generation>>
  BY <1>8 DEF Discovered, Resumed, ScopeBound, Prompted, EndTurnIn, sessionRows
<1>9. ASSUME NEW k \in Keys, ChangeCall(k) \/ CancelCall(k) \/ CancelAnswered(k) \/ OperationSettles(k)
      PROVE  UNCHANGED <<sessionRef, generation>>
  BY <1>9 DEF ChangeCall, CancelCall, CancelAnswered, OperationSettles, sessionRows
<1>10. QED
  BY <1>2, <1>3, <1>4, <1>5, <1>6, <1>7, <1>8, <1>9 DEF Next

\* What is over stays over, for any instance: an ended turn has no further effect, and
\* the generation of a session grows whenever the session is replaced or given up, so that
\* no late binding is taken for its successor's (the compare-and-set clauses of
\* project-only-store.ts).
THEOREM TurnsAreFinalTheorem == Spec => TurnsAreFinal
<1>1. IInv /\ [Next]_vars => [NoLateEffects]_vars
  BY EndedStays DEF NoLateEffects
<1>2. IInv /\ [Next]_vars => [GenerationsNameSessions]_vars
  BY GenerationsGrow DEF GenerationsNameSessions
<1>3. QED
  BY <1>1, <1>2, AlwaysIInv, PTL DEF Spec, TurnsAreFinal

-----------------------------------------------------------------------------
(* Sums. *)

\* What Total adds up, counted token by token.
Tokens(amount, S) == UNION {{k} \X (1 .. amount[k]) : k \in S}

\* What the fold in Total is a fixed point of.
Summing(amount, S, iter) ==
    [s \in SUBSET S |->
        IF s = {} THEN 0
        ELSE LET x == CHOOSE x \in s : TRUE IN amount[x] + iter[s \ {x}]]

LEMMA TokensAreFinite ==
    ASSUME NEW amount, NEW S, IsFiniteSet(S), \A k \in S : amount[k] \in Nat
    PROVE  IsFiniteSet(Tokens(amount, S)) /\ Cardinality(Tokens(amount, S)) \in Nat
<1> DEFINE of == [k \in S |-> {k} \X (1 .. amount[k])]
           all == {{k} \X (1 .. amount[k]) : k \in S}
<1>1. of \in Surjection(S, all)
  BY DEF Surjection
<1>2. IsFiniteSet(all)
  BY <1>1, FS_Surjection
<1>3. ASSUME NEW k \in S PROVE IsFiniteSet({k} \X (1 .. amount[k]))
  <2>1. IsFiniteSet({k}) BY FS_Singleton
  <2>2. IsFiniteSet(1 .. amount[k]) BY FS_Interval
  <2> QED BY <2>1, <2>2, FS_Product
<1>4. \A T \in all : IsFiniteSet(T)
  BY <1>3
<1>5. IsFiniteSet(UNION all)
  BY <1>2, <1>4, FS_UNION
<1> QED BY <1>5, FS_CardinalityType DEF Tokens

LEMMA TokensOfUnion ==
    ASSUME NEW amount, NEW S, NEW T, IsFiniteSet(S), IsFiniteSet(T), S \cap T = {},
           \A k \in S \cup T : amount[k] \in Nat
    PROVE  Cardinality(Tokens(amount, S \cup T))
             = Cardinality(Tokens(amount, S)) + Cardinality(Tokens(amount, T))
<1>1. Tokens(amount, S \cup T) = Tokens(amount, S) \cup Tokens(amount, T)
  BY DEF Tokens
<1>2. Tokens(amount, S) \cap Tokens(amount, T) = {}
  BY DEF Tokens
<1>3. IsFiniteSet(Tokens(amount, S)) /\ IsFiniteSet(Tokens(amount, T))
  BY TokensAreFinite
<1>4. Cardinality(Tokens(amount, S)) \in Nat /\ Cardinality(Tokens(amount, T)) \in Nat
  BY TokensAreFinite
<1>5. Cardinality(Tokens(amount, S \cup T))
        = Cardinality(Tokens(amount, S)) + Cardinality(Tokens(amount, T))
            - Cardinality(Tokens(amount, S) \cap Tokens(amount, T))
  BY <1>1, <1>3, FS_Union
<1>6. Cardinality(Tokens(amount, S) \cap Tokens(amount, T)) = 0
  BY <1>2, FS_EmptySet
<1> QED BY <1>4, <1>5, <1>6

LEMMA TokensOfOne ==
    ASSUME NEW amount, NEW k, amount[k] \in Nat
    PROVE  Cardinality(Tokens(amount, {k})) = amount[k]
<1>1. Tokens(amount, {k}) = {k} \X (1 .. amount[k])
  BY DEF Tokens
<1>2. Cardinality({k}) = 1 /\ IsFiniteSet({k})
  BY FS_Singleton
<1>3. Cardinality(1 .. amount[k]) = amount[k] /\ IsFiniteSet(1 .. amount[k])
  BY FS_Interval
<1>4. Cardinality({k} \X (1 .. amount[k])) = Cardinality({k}) * Cardinality(1 .. amount[k])
  BY <1>2, <1>3, FS_Product
<1> DEFINE n == amount[k]
<1>5. Cardinality({k} \X (1 .. n)) = 1 * n
  BY <1>2, <1>3, <1>4
<1>6. n \in Nat
  OBVIOUS
<1>7. 1 * n = n
  <2> HIDE DEF n
  <2> QED BY <1>6
<1>8. Cardinality(Tokens(amount, {k})) = Cardinality({k} \X (1 .. n))
  BY <1>1
<1> HIDE DEF n
<1>9. Cardinality(Tokens(amount, {k})) = n
  BY <1>5, <1>7, <1>8
<1> QED BY <1>9 DEF n

LEMMA CountSteps ==
    ASSUME NEW amount, NEW S, IsFiniteSet(S), \A k \in S : amount[k] \in Nat,
           NEW k \in S
    PROVE  Cardinality(Tokens(amount, S)) = amount[k] + Cardinality(Tokens(amount, S \ {k}))
<1>1. S = {k} \cup (S \ {k}) /\ {k} \cap (S \ {k}) = {}
  OBVIOUS
<1>2. IsFiniteSet(S \ {k}) /\ IsFiniteSet({k})
  BY FS_RemoveElement, FS_Singleton
<1>3. Cardinality(Tokens(amount, {k})) = amount[k]
  BY TokensOfOne
<1> QED BY <1>1, <1>2, <1>3, TokensOfUnion

\* The count is a fixed point, and of two of them none can differ at a least set.
LEMMA TotalIsCount ==
    ASSUME NEW amount, NEW S, IsFiniteSet(S), \A k \in S : amount[k] \in Nat
    PROVE  Total(amount, S) = Cardinality(Tokens(amount, S))
<1> DEFINE count == [s \in SUBSET S |-> Cardinality(Tokens(amount, s))]
<1>1. \A s \in SUBSET S : IsFiniteSet(s)
  BY FS_Subset
<1>2. ASSUME NEW s \in SUBSET S, s # {}
      PROVE  count[s] = LET x == CHOOSE x \in s : TRUE IN amount[x] + count[s \ {x}]
  <2> DEFINE x == CHOOSE x \in s : TRUE
  <2>1. x \in s BY <1>2
  <2>2. Cardinality(Tokens(amount, s)) = amount[x] + Cardinality(Tokens(amount, s \ {x}))
    <3>1. IsFiniteSet(s) /\ \A k \in s : amount[k] \in Nat BY <1>1
    <3> HIDE DEF x, count
    <3> QED BY <2>1, <3>1, CountSteps
  <2> QED BY <2>1, <2>2
<1>3. count[{}] = 0
  BY FS_EmptySet DEF Tokens
<1>4. count = Summing(amount, S, count)
  BY <1>2, <1>3 DEF Summing
<1> DEFINE iter == CHOOSE iter : iter = Summing(amount, S, iter)
<1>5. iter = Summing(amount, S, iter)
  BY <1>4
<1>6. Total(amount, S) = iter[S]
  BY DEF Total, MapThenSumSet, MapThenFoldSet, Summing
<1> HIDE DEF iter, count
<1> DEFINE bad == {s \in SUBSET S : iter[s] # count[s]}
<1>7. ASSUME bad # {} PROVE FALSE
  <2>1. bad \subseteq FiniteSubsetsOf(S)
    BY <1>1 DEF FiniteSubsetsOf
  <2>2. PICK s \in bad : \A y \in bad : ~ (<<y, s>> \in StrictSubsetOrdering(S))
    <3>1. IsWellFoundedOn(StrictSubsetOrdering(S), FiniteSubsetsOf(S))
      BY FS_StrictSubsetOrderingWellFounded
    <3> HIDE DEF bad
    <3> QED BY <1>7, <2>1, <3>1, WFMin
  <2>3. CASE s = {}
    BY <1>3, <1>5, <2>3 DEF Summing
  <2>4. CASE s # {}
    <3> DEFINE x == CHOOSE x \in s : TRUE
    <3>1. x \in s BY <2>4
    <3>2. <<s \ {x}, s>> \in StrictSubsetOrdering(S)
      BY <3>1 DEF StrictSubsetOrdering
    <3>3. iter[s \ {x}] = count[s \ {x}]
      BY <2>2, <3>2
    <3>4. iter[s] = amount[x] + iter[s \ {x}]
      BY <1>5, <2>4 DEF Summing
    <3>5. count[s] = amount[x] + count[s \ {x}]
      BY <1>2, <2>4
    <3> QED BY <3>3, <3>4, <3>5
  <2> QED BY <2>3, <2>4
<1>8. iter[S] = count[S]
  BY <1>7
<1> QED BY <1>6, <1>8 DEF count
-----------------------------------------------------------------------------
(* The ledger. *)

LEMMA ChargeIsWithin ==
    ASSUME NEW e \in Nat PROVE Charge(e) \in 1 .. TurnReservationTokens
<1> DEFINE least == Min({TurnReservationTokens, e})
<1>1. least \in Nat /\ least <= TurnReservationTokens
  BY ReservationAssumption DEF Min
<1> HIDE DEF least
<1>2. Max({1, least}) \in {1, least} /\ Max({1, least}) >= 1
  BY <1>1 DEF Max
<1> QED BY <1>1, <1>2, ReservationAssumption DEF Charge, least

\* No amount is larger than what is reserved for one.
LEMMA TotalIsBounded ==
    ASSUME NEW amount, NEW S, IsFiniteSet(S), NEW most \in Nat,
           \A k \in S : amount[k] \in 0 .. most
    PROVE  Total(amount, S) \in Nat /\ Total(amount, S) <= Cardinality(S) * most
<1>1. Tokens(amount, S) \subseteq S \X (1 .. most)
  BY DEF Tokens
<1>2. IsFiniteSet(1 .. most) /\ Cardinality(1 .. most) = most
  BY FS_Interval
<1>3. IsFiniteSet(S \X (1 .. most)) /\ Cardinality(S \X (1 .. most)) = Cardinality(S) * most
  BY <1>2, FS_Product
<1>4. Cardinality(Tokens(amount, S)) <= Cardinality(S \X (1 .. most))
  BY <1>1, <1>3, FS_Subset
<1>5. Total(amount, S) = Cardinality(Tokens(amount, S))
  BY TotalIsCount
<1>6. Cardinality(Tokens(amount, S)) \in Nat
  BY TokensAreFinite
<1> QED BY <1>3, <1>4, <1>5, <1>6

\* What some rows are charged is added to what others are.
LEMMA TotalOfMore ==
    ASSUME NEW new, NEW old, NEW paid, NEW R, NEW S, NEW T, IsFiniteSet(R), IsFiniteSet(S),
           IsFiniteSet(T),
           \A k \in R : old[k] \in Nat, \A k \in S : paid[k] \in Nat, \A k \in T : new[k] \in Nat,
           R \cap S = {}, T \subseteq R \cup S, R \subseteq T,
           \A k \in R : new[k] = old[k],
           \A k \in S : IF k \in T THEN new[k] = paid[k] ELSE paid[k] = 0
    PROVE  Total(new, T) = Total(old, R) + Total(paid, S)
<1> DEFINE before == Tokens(old, R)
           more == Tokens(paid, S)
<1>1. Tokens(new, T) = before \cup more
  BY DEF Tokens
<1>2. before \cap more = {}
  BY DEF Tokens
<1>3. /\ IsFiniteSet(before) /\ Cardinality(before) \in Nat
      /\ IsFiniteSet(more) /\ Cardinality(more) \in Nat
  BY TokensAreFinite
<1>4. /\ Total(new, T) = Cardinality(Tokens(new, T))
      /\ Total(old, R) = Cardinality(before)
      /\ Total(paid, S) = Cardinality(more)
  BY TotalIsCount
<1> HIDE DEF before, more
<1>5. Cardinality(before \cup more) = Cardinality(before) + Cardinality(more) - Cardinality(before \cap more)
  BY <1>3, FS_Union
<1>6. Cardinality(before \cap more) = 0
  BY <1>2, FS_EmptySet
<1> QED BY <1>1, <1>3, <1>4, <1>5, <1>6

\* The rows of the ledger are finitely many, and a row that paid stays paid.
LedgerTypes ==
  /\ QuotaTypeOK
  /\ sessionRef \in [Conversations -> 1 .. MaxSessions \cup {NoSession}]
  /\ sessions \in 0 .. MaxSessions
  /\ stops \in 0 .. MaxStops
  /\ IsFiniteSet({k \in Keys : reservation[k] # "none"})

\* Nothing is granted to an account that is not there.
Unopened == \A u \in Users : account[u] = "absent" => limit[u] = 0

LedgerInv == LedgerTypes /\ Unopened /\ LedgerBalanced /\ OnlyCompleteTurnsPay

LEMMA RowsAre ==
    ASSUME LedgerTypes, NEW u, NEW state \in {"reserved", "settled", "released"}
    PROVE  /\ IsFiniteSet(RowsOf(u, state))
           /\ Cardinality(RowsOf(u, state)) \in Nat
<1>1. RowsOf(u, state) \subseteq {k \in Keys : reservation[k] # "none"}
  BY DEF RowsOf
<1>2. IsFiniteSet(RowsOf(u, state))
  BY <1>1, FS_Subset DEF LedgerTypes
<1> QED BY <1>2, FS_CardinalityType

LEMMA UnchangedLedger ==
    ASSUME LedgerInv, UNCHANGED quotaVars,
           sessionRef' \in [Conversations -> 1 .. MaxSessions \cup {NoSession}],
           sessions' \in 0 .. MaxSessions, stops' \in 0 .. MaxStops,
           \A k \in Keys : turn[k] = "complete" => turn'[k] = "complete"
    PROVE  LedgerInv'
<1> USE DEF quotaVars
<1>1. LedgerTypes'
  BY DEF LedgerInv, LedgerTypes, QuotaTypeOK
<1>2. \A u, state : RowsOf(u, state)' = RowsOf(u, state)
  BY DEF RowsOf
<1>3. LedgerBalanced' /\ Unopened'
  BY <1>2 DEF LedgerInv, LedgerBalanced, Unopened
<1>4. OnlyCompleteTurnsPay'
  BY DEF LedgerInv, OnlyCompleteTurnsPay
<1> QED BY <1>1, <1>3, <1>4 DEF LedgerInv

LEMMA ManageKeeps == ASSUME LedgerInv, ManageUsers PROVE LedgerInv'
<1>1. /\ UNCHANGED <<used, reserved, reservation, reserver, charged, turn, sessionRef, sessions, stops>>
      /\ \E u \in Users : \/ \E q \in 1..MaxQuota : CreateUser(u, q) \/ IncreaseQuota(u, q)
                          \/ RevokeUser(u)
  BY DEF ManageUsers, CreateUser, IncreaseQuota, RevokeUser, turnVars, turnRows, sessionRows
<1>2. PICK u \in Users : \/ \E q \in 1..MaxQuota : CreateUser(u, q) \/ IncreaseQuota(u, q)
                         \/ RevokeUser(u)
  BY <1>1
<1>3. /\ account' \in [Users -> {"absent", "active", "revoked"}]
      /\ limit' \in [Users -> 0 .. MaxQuota]
      /\ \A v \in Users : limit'[v] >= limit[v]
      /\ Unopened'
  <2>1. CASE \E q \in 1..MaxQuota : CreateUser(u, q)
    BY <2>1, MaxQuotaAssumption DEF CreateUser, LedgerInv, LedgerTypes, Unopened, QuotaTypeOK
  <2>2. CASE \E q \in 1..MaxQuota : IncreaseQuota(u, q)
    BY <2>2, MaxQuotaAssumption DEF IncreaseQuota, WithinMaxQuota, LedgerInv, LedgerTypes, QuotaTypeOK, Unopened
  <2>3. CASE RevokeUser(u)
    BY <2>3 DEF RevokeUser, LedgerInv, LedgerTypes, QuotaTypeOK, Unopened
  <2> QED BY <1>2, <2>1, <2>2, <2>3
<1>4. LedgerTypes'
  BY <1>1, <1>3 DEF LedgerInv, LedgerTypes, QuotaTypeOK
<1>5. \A v, state : RowsOf(v, state)' = RowsOf(v, state)
  BY <1>1 DEF RowsOf
<1>6. LedgerBalanced'
  BY <1>1, <1>3, <1>5 DEF LedgerInv, LedgerTypes, LedgerBalanced, QuotaTypeOK
<1> QED BY <1>1, <1>3, <1>4, <1>6 DEF LedgerInv, OnlyCompleteTurnsPay

LEMMA SubmitKeeps ==
    ASSUME LedgerInv, NEW u \in Users, NEW k \in Keys, NEW c \in Submissions[k], SubmitTurn(u, k, c),
           turn \in [Keys -> TurnStates]
    PROVE  LedgerInv'
<1>1. /\ UNCHANGED <<sessionRef, sessions, stops>>
      /\ turn[k] = "absent"
      /\ turn' = [turn EXCEPT ![k] = "running"] \/ turn' = turn
  BY DEF SubmitTurn, Begin, RejectBegin, sessionRows
<1>2. \A j \in Keys : turn[j] = "complete" => turn'[j] = "complete"
  BY <1>1
<1>3. CASE reservation[k] # "none"
  <2>1. UNCHANGED quotaVars
    BY <1>3 DEF SubmitTurn, ReserveTurn
  <2>2. /\ sessionRef' \in [Conversations -> 1 .. MaxSessions \cup {NoSession}]
        /\ sessions' \in 0 .. MaxSessions /\ stops' \in 0 .. MaxStops
    BY <1>1 DEF LedgerInv, LedgerTypes
  <2> QED BY <1>2, <2>1, <2>2, UnchangedLedger
<1>4. CASE reservation[k] = "none"
  <2>1. /\ reservation' = [reservation EXCEPT ![k] = "reserved"]
        /\ reserver' = [reserver EXCEPT ![k] = u]
        /\ reserved' = [reserved EXCEPT ![u] = @ + TurnReservationTokens]
        /\ UNCHANGED <<account, limit, used, charged>>
        /\ CanAfford(u)
    BY <1>4 DEF SubmitTurn, ReserveTurn, MayReserve
  <2> USE DEF LedgerInv
  <2>2. LedgerTypes'
    <3>1. {j \in Keys : reservation'[j] # "none"} = {j \in Keys : reservation[j] # "none"} \cup {k}
      BY <2>1 DEF LedgerTypes, QuotaTypeOK
    <3>2. IsFiniteSet({j \in Keys : reservation'[j] # "none"})
      <4> DEFINE rows == {j \in Keys : reservation[j] # "none"}
      <4>1. IsFiniteSet(rows) BY DEF LedgerTypes
      <4> HIDE DEF rows
      <4>2. IsFiniteSet(rows \cup {k}) BY <4>1, FS_AddElement
      <4> QED BY <3>1, <4>2 DEF rows
    <3>3. QuotaTypeOK'
      BY <2>1, ReservationAssumption, NoUserAssumption DEF LedgerTypes, QuotaTypeOK
    <3> QED BY <1>1, <3>2, <3>3 DEF LedgerTypes
  <2>3. \A v \in Users : RowsOf(v, "settled")' = RowsOf(v, "settled")
    BY <1>4, <2>1 DEF RowsOf, LedgerTypes, QuotaTypeOK
  <2>4. \A v \in Users \ {u} : RowsOf(v, "reserved")' = RowsOf(v, "reserved")
    BY <1>4, <2>1 DEF RowsOf, LedgerTypes, QuotaTypeOK
  <2>5. RowsOf(u, "reserved")' = RowsOf(u, "reserved") \cup {k} /\ k \notin RowsOf(u, "reserved")
    BY <1>4, <2>1 DEF RowsOf, LedgerTypes, QuotaTypeOK
  <2>6. /\ Cardinality(RowsOf(u, "reserved")') = Cardinality(RowsOf(u, "reserved")) + 1
        /\ Cardinality(RowsOf(u, "reserved")) \in Nat
    BY <2>5, RowsAre, FS_AddElement
  <2>7. reserved'[u] = TurnReservationTokens * Cardinality(RowsOf(u, "reserved")')
    <3> DEFINE n == Cardinality(RowsOf(u, "reserved"))
    <3>1. reserved[u] = TurnReservationTokens * n /\ reserved[u] \in Nat
      BY DEF LedgerBalanced, LedgerTypes, QuotaTypeOK
    <3>2. reserved'[u] = reserved[u] + TurnReservationTokens
      BY <2>1 DEF LedgerTypes, QuotaTypeOK
    <3>3. n \in Nat /\ Cardinality(RowsOf(u, "reserved")') = n + 1
      BY <2>6
    <3> HIDE DEF n
    <3>4. TurnReservationTokens * (n + 1) = TurnReservationTokens * n + TurnReservationTokens
      BY <3>3, ReservationAssumption
    <3> QED BY <3>1, <3>2, <3>3, <3>4
  <2>8. used[u] + reserved'[u] <= limit[u]
    BY <2>1, ReservationAssumption DEF CanAfford, AvailableTokens, LedgerTypes, QuotaTypeOK
  <2>9. \A v \in Users : reserved'[v] = IF v = u THEN reserved'[u] ELSE reserved[v]
    BY <2>1 DEF LedgerTypes, QuotaTypeOK
  <2>10. LedgerBalanced'
    BY <2>1, <2>3, <2>4, <2>7, <2>8, <2>9 DEF LedgerBalanced
  <2>11. OnlyCompleteTurnsPay' /\ Unopened'
    BY <1>2, <2>1 DEF OnlyCompleteTurnsPay, Unopened, LedgerTypes, QuotaTypeOK
  <2> QED BY <2>2, <2>10, <2>11
<1> QED BY <1>3, <1>4

\* Finished rows: what they paid is used, and nothing of them stays reserved.
LEMMA FinishKeeps ==
    ASSUME LedgerInv, NEW S \in SUBSET Keys, NEW Complete,
           FinishReservations(S, Complete, Estimate),
           \A k \in Complete \cap S : turn[k] = "complete",
           \A k \in Keys : turn[k] = "complete" => turn'[k] = "complete",
           UNCHANGED <<sessionRef, sessions>>, stops' \in 0 .. MaxStops
    PROVE  LedgerInv'
<1> DEFINE open == {k \in S : Unfinished(k)}
           paid == [k \in open |-> IF k \in Complete THEN Charge(Estimate[k]) ELSE 0]
           of(u) == {k \in open : reserver[k] = u}
<1>1. /\ reservation' = [k \in Keys |->
            IF k \notin open THEN reservation[k] ELSE IF k \in Complete THEN "settled" ELSE "released"]
      /\ charged' = [k \in Keys |-> IF k \in open THEN paid[k] ELSE charged[k]]
      /\ used' = [u \in Users |-> used[u] + Total(paid, of(u))]
      /\ reserved' = [u \in Users |-> reserved[u] - TurnReservationTokens * Cardinality(of(u))]
      /\ UNCHANGED <<account, limit, reserver>>
  BY DEF FinishReservations
<1>2. open \subseteq Keys /\ \A k \in open : reservation[k] = "reserved"
  BY DEF Unfinished
<1>3. \A k \in open : paid[k] \in 0 .. TurnReservationTokens
  <2>1. \A k \in open : Estimate[k] \in Nat
    BY <1>2, EstimateAssumption
  <2>2. \A k \in open : Charge(Estimate[k]) \in 1 .. TurnReservationTokens
    BY <2>1, ChargeIsWithin
  <2> QED BY <2>2, ReservationAssumption
<1>4. \A k \in open : k \notin Complete => paid[k] = 0
  OBVIOUS
<1>5. \A k \in open : paid[k] \in Nat
  BY <1>3
<1> HIDE DEF open, paid
<1> USE DEF LedgerInv
<1>6. ASSUME NEW u \in Users
      PROVE  /\ Total(paid, of(u)) \in Nat
             /\ reserved'[u] \in Nat
             /\ used'[u] = used[u] + Total(paid, of(u))
             /\ reserved'[u] = TurnReservationTokens * Cardinality(RowsOf(u, "reserved")')
             /\ used'[u] = Total(charged', RowsOf(u, "settled")')
             /\ used'[u] + reserved'[u] <= limit[u]
  <2> DEFINE held == RowsOf(u, "reserved")
             spent == RowsOf(u, "settled")
             mine == of(u)
  <2>1. mine \subseteq held
    BY <1>2 DEF RowsOf
  <2>2. RowsOf(u, "reserved")' = held \ mine
    BY <1>1, <1>2 DEF RowsOf
  <2>3. RowsOf(u, "settled")' = spent \cup (mine \cap Complete)
    BY <1>1, <1>2 DEF RowsOf
  <2>4. spent \cap mine = {}
    BY <1>2 DEF RowsOf
  <2>5. /\ IsFiniteSet(held) /\ IsFiniteSet(spent) /\ Cardinality(held) \in Nat
    BY RowsAre
  <2>6. \A k \in mine : paid[k] \in 0 .. TurnReservationTokens
    BY <1>3
  <2>7. \A k \in spent : charged[k] \in Nat /\ charged'[k] = charged[k]
    BY <1>1, <1>2 DEF RowsOf, LedgerTypes, QuotaTypeOK
  <2>8. \A k \in mine : charged'[k] = paid[k] /\ paid[k] \in Nat /\ (k \notin Complete => paid[k] = 0)
    BY <1>1, <1>2, <1>4, <1>5
  <2>9. /\ used'[u] = used[u] + Total(paid, mine)
        /\ reserved'[u] = reserved[u] - TurnReservationTokens * Cardinality(mine)
    BY <1>1
  <2>10. /\ reserved[u] = TurnReservationTokens * Cardinality(held) /\ reserved[u] \in Nat
         /\ used[u] = Total(charged, spent) /\ used[u] \in Nat
         /\ used[u] + reserved[u] <= limit[u] /\ limit[u] \in Nat
    BY MaxQuotaAssumption DEF LedgerBalanced, LedgerTypes, QuotaTypeOK
  <2> HIDE DEF held, spent, mine
  <2>11. IsFiniteSet(mine) /\ Cardinality(mine) <= Cardinality(held) /\ Cardinality(mine) \in Nat
    BY <2>1, <2>5, FS_Subset, FS_CardinalityType
  <2>12. /\ IsFiniteSet(held \ mine)
         /\ Cardinality(held \ mine) = Cardinality(held) - Cardinality(held \cap mine)
    BY <2>5, FS_Difference
  <2>13. held \cap mine = mine
    BY <2>1
  <2>14. Total(paid, mine) \in Nat /\ Total(paid, mine) <= Cardinality(mine) * TurnReservationTokens
    BY <2>6, <2>11, ReservationAssumption, TotalIsBounded
  <2>15. Total(charged', spent \cup (mine \cap Complete)) = Total(charged, spent) + Total(paid, mine)
    <3> DEFINE T == spent \cup (mine \cap Complete)
    <3>1. IsFiniteSet(mine \cap Complete)
      BY <2>11, FS_Intersection
    <3>2. IsFiniteSet(T)
      BY <2>5, <3>1, FS_Union
    <3>3. \A k \in T : charged'[k] \in Nat
      BY <2>7, <2>8
    <3>4. \A k \in mine : IF k \in T THEN charged'[k] = paid[k] ELSE paid[k] = 0
      BY <2>8
    <3>5. T \subseteq spent \cup mine /\ spent \subseteq T
      OBVIOUS
    <3>6. /\ \A k \in spent : charged[k] \in Nat
          /\ \A k \in mine : paid[k] \in Nat
          /\ \A k \in spent : charged'[k] = charged[k]
      BY <2>7, <2>8
    <3> HIDE DEF T
    <3>7. Total(charged', T) = Total(charged, spent) + Total(paid, mine)
      BY <2>4, <2>5, <2>11, <3>2, <3>3, <3>4, <3>5, <3>6, TotalOfMore
    <3> QED BY <3>7 DEF T
  <2> DEFINE h == Cardinality(held)
             m == Cardinality(mine)
             p == Total(paid, mine)
  <2>16. h \in Nat /\ m \in Nat /\ m <= h /\ p \in Nat /\ p <= m * TurnReservationTokens
    BY <2>5, <2>11, <2>14
  <2>17. reserved[u] = TurnReservationTokens * h /\ reserved'[u] = reserved[u] - TurnReservationTokens * m
    BY <2>9, <2>10
  <2>18. Cardinality(RowsOf(u, "reserved")') = h - m
    BY <2>2, <2>12, <2>13
  <2>19. used'[u] = used[u] + p
    BY <2>9
  <2>20. used'[u] = Total(charged', RowsOf(u, "settled")')
    BY <2>3, <2>9, <2>10, <2>15
  <2> HIDE DEF h, m, p
  <2>21. TurnReservationTokens * (h - m) = TurnReservationTokens * h - TurnReservationTokens * m
    BY <2>16, ReservationAssumption
  <2>22. TurnReservationTokens * (h - m) \in Nat /\ TurnReservationTokens * m = m * TurnReservationTokens
         /\ TurnReservationTokens * m \in Nat /\ TurnReservationTokens * h \in Nat
    BY <2>16, ReservationAssumption
  <2>23. reserved'[u] \in Nat /\ reserved'[u] = TurnReservationTokens * (h - m)
    BY <2>17, <2>21, <2>22
  <2>24. used'[u] + reserved'[u] <= limit[u]
    BY <2>10, <2>16, <2>17, <2>19, <2>22
  <2> QED BY <2>16, <2>18, <2>19, <2>20, <2>23, <2>24 DEF mine, p
<1>7. LedgerTypes'
  <2>1. {k \in Keys : reservation'[k] # "none"} = {k \in Keys : reservation[k] # "none"}
    BY <1>1, <1>2
  <2>2. reservation' \in [Keys -> {"none", "reserved", "settled", "released"}]
    BY <1>1 DEF LedgerTypes, QuotaTypeOK
  <2>3. charged' \in [Keys -> Nat]
    BY <1>1, <1>5 DEF LedgerTypes, QuotaTypeOK
  <2>4. used' \in [Users -> Nat] /\ reserved' \in [Users -> Nat]
    <3>1. ASSUME NEW u \in Users PROVE used'[u] \in Nat /\ reserved'[u] \in Nat
      <4>1. Total(paid, of(u)) \in Nat /\ reserved'[u] \in Nat /\ used'[u] = used[u] + Total(paid, of(u))
        BY <1>6
      <4>2. used[u] \in Nat BY DEF LedgerTypes, QuotaTypeOK
      <4> QED BY <4>1, <4>2
    <3>2. /\ used' = [u \in Users |-> used'[u]]
          /\ reserved' = [u \in Users |-> reserved'[u]]
      BY <1>1
    <3> QED BY <3>1, <3>2
  <2>5. \A k \in Keys : reservation'[k] # "none" <=> reserver'[k] # NoUser
    BY <1>1, <1>2 DEF LedgerTypes, QuotaTypeOK
  <2> QED BY <1>1, <2>1, <2>2, <2>3, <2>4, <2>5 DEF LedgerTypes, QuotaTypeOK
<1>8. LedgerBalanced'
  BY <1>1, <1>6 DEF LedgerBalanced
<1>9. OnlyCompleteTurnsPay'
  <2>1. ASSUME NEW k \in Keys, reservation'[k] = "settled" PROVE turn[k] = "complete"
    BY <1>1, <2>1 DEF OnlyCompleteTurnsPay, open
  <2> QED BY <2>1 DEF OnlyCompleteTurnsPay
<1>10. Unopened'
  BY <1>1 DEF Unopened
<1> QED BY <1>7, <1>8, <1>9, <1>10

\* Sessions are made within their bound, and given up.
SessionsGo ==
  /\ sessionRef' \in [Conversations -> 1 .. MaxSessions \cup {NoSession}]
  /\ sessions' \in 0 .. MaxSessions

\* The steps that leave the ledger alone.
LEMMA OthersKeepLedger ==
    ASSUME LedgerInv, UNCHANGED quotaVars, UNCHANGED <<sessionRef, sessions>> \/ SessionsGo,
           stops' \in 0 .. MaxStops, \A k \in Keys : turn[k] = "complete" => turn'[k] = "complete"
    PROVE  LedgerInv'
BY UnchangedLedger DEF SessionsGo, LedgerInv, LedgerTypes

LEMMA SessionsFollow ==
    ASSUME LedgerInv, [Next]_vars, turnOf \in [Keys -> Conversations \cup {NoConversation}]
    PROVE  (UNCHANGED <<sessionRef, sessions>> \/ SessionsGo) /\ stops' \in 0 .. MaxStops
<1> USE BoundsAssumption DEF LedgerInv, LedgerTypes
<1>1. CASE UNCHANGED vars
  BY <1>1 DEF vars, turnVars, sessionRows
<1>2. CASE ManageUsers \/ RefreshProviders
  BY <1>2 DEF ManageUsers, RefreshProviders, turnVars, sessionRows
<1>3. ASSUME NEW k \in Keys, NEW u \in Users, NEW c \in Submissions[k], SubmitTurn(u, k, c)
      PROVE  UNCHANGED <<sessionRef, sessions, stops>>
  BY <1>3 DEF SubmitTurn, Begin, RejectBegin, sessionRows
<1>4. ASSUME NEW k \in Keys, Discovered(k) \/ Resumed(k) \/ ScopeBound(k) \/ Prompted(k)
      PROVE  UNCHANGED <<sessionRef, sessions, stops>>
  BY <1>4 DEF Discovered, Resumed, ScopeBound, Prompted, EndTurnIn, EndTurn, Await, sessionRows
<1>5. ASSUME NEW k \in Keys, SessionCreated(k) PROVE (UNCHANGED <<sessionRef, sessions>> \/ SessionsGo) /\ UNCHANGED stops
  <2>1. CASE EndTurnIn(k, "failed")
    BY <2>1 DEF EndTurnIn, EndTurn
  <2>2. CASE ~EndTurnIn(k, "failed")
    <3>1. /\ sessions < MaxSessions /\ sessions' = sessions + 1
          /\ sessionRef' = [sessionRef EXCEPT ![turnOf[k]] = sessions']
          /\ UNCHANGED stops
      BY <1>5, <2>2 DEF SessionCreated
    <3> DEFINE new == sessions'
    <3>2. new \in 1 .. MaxSessions /\ new \in 0 .. MaxSessions
      BY <3>1
    <3>3. sessionRef' = [sessionRef EXCEPT ![turnOf[k]] = new] /\ sessions' = new
      BY <3>1
    <3> HIDE DEF new
    <3>4. sessionRef' \in [Conversations -> 1 .. MaxSessions \cup {NoSession}]
      BY <3>2, <3>3
    <3> QED BY <3>1, <3>2, <3>3, <3>4 DEF SessionsGo
  <2> QED BY <2>1, <2>2
<1>6. ASSUME NEW k \in Keys, Aborted(k) PROVE SessionsGo /\ UNCHANGED stops
  <2>1. /\ sessionRef' = [sessionRef EXCEPT ![turnOf[k]] = NoSession]
        /\ UNCHANGED <<sessions, stops>>
    BY <1>6 DEF Aborted, EndTurn
  <2> QED BY <2>1 DEF SessionsGo
<1>7. ASSUME NEW k \in Keys, ChangeCall(k) \/ CancelCall(k) \/ CancelAnswered(k) \/ OperationSettles(k)
      PROVE  UNCHANGED <<sessionRef, sessions, stops>>
  BY <1>7 DEF ChangeCall, CancelCall, CancelAnswered, OperationSettles, sessionRows
<1>8. CASE Crash \/ BeginClose \/ CloseStore
  <2>1. UNCHANGED <<sessionRef, sessions>>
    BY <1>8 DEF Crash, BeginClose, CloseStore, sessionRows
  <2>2. stops' = stops \/ (stops < MaxStops /\ stops' = stops + 1)
    BY <1>8 DEF Crash, BeginClose, CloseStore
  <2> QED BY <2>1, <2>2
<1>9. CASE ReconcileTurns
  <2>1. /\ sessionRef' = [c \in Conversations |-> IF SessionInterrupted(c) THEN NoSession ELSE sessionRef[c]]
        /\ UNCHANGED <<sessions, stops>>
    BY <1>9 DEF ReconcileTurns
  <2> QED BY <2>1 DEF SessionsGo
<1>10. CASE ReconcileQuota
  <2>1. UNCHANGED <<sessionRef, sessions>>
    BY <1>10 DEF ReconcileQuota, sessionRows
  <2>2. stops' = stops \/ (stops < MaxStops /\ stops' = stops + 1)
    BY <1>10 DEF ReconcileQuota
  <2> QED BY <2>1, <2>2
<1> QED BY <1>1, <1>2, <1>3, <1>4, <1>5, <1>6, <1>7, <1>8, <1>9, <1>10 DEF Next

LEMMA LedgerPreserved == ASSUME IInv, LedgerInv, [Next]_vars PROVE LedgerInv'
<1>1. /\ UNCHANGED <<sessionRef, sessions>> \/ SessionsGo
      /\ stops' \in 0 .. MaxStops
  BY SessionsFollow DEF IInv, TurnTypes
<1>2. \A k \in Keys : turn[k] = "complete" => turn'[k] = "complete"
  BY EndedStays DEF Ended, vars, turnVars, turnRows
<1>3. CASE UNCHANGED quotaVars
  BY <1>1, <1>2, <1>3, OthersKeepLedger
<1>4. CASE ManageUsers
  BY <1>4, ManageKeeps
<1>5. ASSUME NEW u \in Users, NEW k \in Keys, NEW c \in Submissions[k], SubmitTurn(u, k, c)
      PROVE  LedgerInv'
  BY <1>5, SubmitKeeps DEF IInv, TurnTypes
<1>6. ASSUME NEW k \in Keys, OperationSettles(k) PROVE LedgerInv'
  <2>1. /\ FinishReservations({k}, {j \in {k} : IsCharged(j)}, Estimate)
        /\ UNCHANGED <<sessionRef, sessions>>
    BY <1>6 DEF OperationSettles, sessionRows
  <2>2. \A j \in {j \in {k} : IsCharged(j)} \cap {k} : turn[j] = "complete"
    BY DEF IsCharged
  <2> QED BY <1>1, <1>2, <2>1, <2>2, FinishKeeps
<1>7. ASSUME NEW S \in SUBSET Keys, Reconcile(S), UNCHANGED <<sessionRef, sessions>> PROVE LedgerInv'
  <2>1. FinishReservations(S, {k \in S : IsCharged(k)}, Estimate)
    BY <1>7 DEF Reconcile
  <2>2. \A j \in {k \in S : IsCharged(k)} \cap S : turn[j] = "complete"
    BY DEF IsCharged
  <2> QED BY <1>1, <1>2, <1>7, <2>1, <2>2, FinishKeeps
<1>8. CASE RefreshProviders
  BY <1>7, <1>8 DEF RefreshProviders, turnVars, sessionRows
<1>9. CASE ReconcileQuota
  BY <1>7, <1>9 DEF ReconcileQuota, sessionRows
<1>10. ASSUME NEW k \in Keys, Discovered(k) \/ Resumed(k) \/ SessionCreated(k) \/ ScopeBound(k)
                               \/ Prompted(k) \/ Aborted(k)
       PROVE  UNCHANGED quotaVars
  BY <1>10 DEF Discovered, Resumed, SessionCreated, ScopeBound, Prompted, Aborted, EndTurnIn, Await
<1>11. ASSUME NEW k \in Keys, ChangeCall(k) \/ CancelCall(k) \/ CancelAnswered(k)
       PROVE  UNCHANGED quotaVars
  BY <1>11 DEF ChangeCall, CancelCall, CancelAnswered
<1>12. CASE Crash \/ BeginClose \/ CloseStore \/ ReconcileTurns
  BY <1>3, <1>12 DEF Crash, BeginClose, CloseStore, ReconcileTurns
<1>13. CASE UNCHANGED vars
  BY <1>3, <1>13 DEF vars
<1> QED BY <1>3, <1>4, <1>5, <1>6, <1>8, <1>9, <1>10, <1>11, <1>12, <1>13 DEF Next

LEMMA LedgerInitially == Init => LedgerInv
<1> SUFFICES ASSUME Init PROVE LedgerInv
  OBVIOUS
<1>1. \A u, state : state # "none" => RowsOf(u, state) = {}
  BY DEF Init, QuotaInit, RowsOf
<1>2. IsFiniteSet({}) /\ Cardinality({}) = 0
  BY FS_EmptySet
<1>3. Total(charged, {}) = 0
  <2>1. Total(charged, {}) = Cardinality(Tokens(charged, {}))
    BY <1>2, TotalIsCount
  <2> QED BY <1>2, <2>1 DEF Tokens
<1>4. LedgerBalanced
  <2>1. TurnReservationTokens * 0 = 0
    BY ReservationAssumption
  <2>2. ASSUME NEW u \in Users
        PROVE  reserved[u] = 0 /\ used[u] = 0 /\ limit[u] = 0
    BY DEF Init, QuotaInit
  <2>3. ASSUME NEW u \in Users
        PROVE  RowsOf(u, "reserved") = {} /\ RowsOf(u, "settled") = {}
    BY <1>1
  <2> QED BY <1>2, <1>3, <2>1, <2>2, <2>3 DEF LedgerBalanced
<1>5. {k \in Keys : reservation[k] # "none"} = {}
  BY DEF Init, QuotaInit
<1>6. LedgerTypes
  <2>1. 0 \in 0 .. MaxSessions /\ 0 \in 0 .. MaxStops /\ 0 \in 0 .. MaxQuota
    BY BoundsAssumption, MaxQuotaAssumption
  <2>2. QuotaTypeOK
    BY <2>1 DEF Init, QuotaInit, QuotaTypeOK
  <2> QED BY <1>2, <1>5, <2>1, <2>2 DEF Init, LedgerTypes
<1> QED BY <1>4, <1>6 DEF LedgerInv, OnlyCompleteTurnsPay, Unopened, Init, QuotaInit

\* For any users, keys, quotas and estimates, and whoever finishes a reservation (the
\* callback of its submission, a refresh of the providers or a restart): the totals of an
\* account are the sums over its rows, nobody is overdrawn, and only complete turns pay
\* (test-user-access.ts, reserveTurn and #finishReservation).
THEOREM LedgerIsTrueTheorem == Spec => []LedgerIsTrue
<1>1. Init => LedgerInv BY LedgerInitially
<1>2. IInv /\ LedgerInv /\ [Next]_vars => LedgerInv' BY LedgerPreserved
<1>3. IInv /\ LedgerInv => LedgerIsTrue
  BY DEF IInv, TurnTypes, LedgerInv, LedgerTypes, LedgerIsTrue, TypeOK, SessionStates
<1> QED BY <1>1, <1>2, <1>3, AlwaysIInv, PTL DEF Spec
=============================================================================
