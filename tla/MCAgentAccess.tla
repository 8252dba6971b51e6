---------------------------- MODULE MCAgentAccess ----------------------------
(***************************************************************************)
(* What Agents of the historical profile get at: turns that share one tool *)
(* registry and may be retried (AgentTurns), and calls that look at a      *)
(* visual Run beside the browser's frames (VisualAccess).  The two keep    *)
(* different state, so a behaviour is of the one or of the other.          *)
(*                                                                         *)
(* Two conversations, three turns whose tool is a technical check, which   *)
(* goes on after its call; a visual Run, a frame with a request and a      *)
(* WebSocket, or a call.                                                   *)
(***************************************************************************)
EXTENDS AgentTurns, VisualAccess, TLC

CONSTANTS r1, f1, q1, s1, c1, t1

VARIABLE story  \* which instance this behaviour is of

TwoConversations == {1, 2}
AllThree == {<<1, 1>>, <<1, 2>>, <<2, 1>>}
OneRun == {r1}
OneFrame == {f1}
OneRequest == {q1}
OneSocket == {s1}
OneCall == {c1}
OneTurn == {t1}

MCInit ==
  /\ Init /\ VisualInit
  /\ story \in {"turns", "views"}
  /\ story = "turns" => look[c1].kind = "observe"

MCNext ==
  \/ story = "turns" /\ Next /\ UNCHANGED <<story, visualVars>>
  \/ story = "views" /\ VisualNext /\ UNCHANGED <<story, vars>>

MCSpec == MCInit /\ [][MCNext]_<<story, vars, visualVars>>

\* State constraint: the Agent's call or the browser's request and WebSocket.
OneUser ==
  \/ \A c \in Calls : facts[c] = {}
  \/ /\ \A q \in Requests : request[q].at = "idle"
     /\ \A s \in Sockets : socket[s].at = "idle"
=============================================================================
