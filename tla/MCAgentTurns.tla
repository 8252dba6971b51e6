----------------------------- MODULE MCAgentTurns -----------------------------
(***************************************************************************)
(* An Agent's turns (AgentTurns) and the OpenCode session they are asked   *)
(* in (OpenCodePrompts).  The two share nothing here, so a behaviour is of *)
(* the one or of the other.                                                *)
(*                                                                         *)
(* Turns: one conversation with one turn from its start to its end, and a  *)
(* second one, a retry of the first or a new one, as far as its start.     *)
(* Prompts: two, of one message and then up to two, whose calls need no    *)
(* approval ("polls"); or one with one call that does ("approvals").       *)
(***************************************************************************)
EXTENDS AgentTurns, OpenCodePrompts

VARIABLE story  \* which instance this behaviour is of

OneConversation == {1}
TwoTurns == {<<1, 1>>, <<1, 2>>}

MCInit == Init /\ PromptsInit /\ story \in {"turns", "polls", "approvals"}

MCNext ==
  \/ story = "turns" /\ Next /\ UNCHANGED <<story, promptVars>>
  \/ story # "turns" /\ PromptsNext /\ UNCHANGED <<story, vars>>

\* The fairness of AgentTurns' FairSpec; the prompts need none.
FairMC ==
  /\ MCInit /\ [][MCNext]_<<story, vars, promptVars>>
  /\ WF_vars(story = "turns" /\ Startup) /\ WF_vars(story = "turns" /\ \E t \in Turns : TurnSteps(t))
  /\ WF_vars(story = "turns" /\ \E t \in Turns : CallSteps(t))
  /\ WF_vars(story = "turns" /\ \E t \in Turns : StopReturns(t))

\* State constraints.
OneTurnThrough == story = "turns" => pc[<<1, 2>>] \in {"idle", "discovering"}

Upto(p, n) == \A s \in Steps : s > n => ~Present(log[p], s)
Asked(p) == \E s \in Steps : log[p][s].call = "asking"

\* What is cut: a failed session that was given back; polls that are given up.
SmallPrompts ==
  /\ ~(released /\ outcome[current] \notin {"none", "answered"} /\ reply.at = "none")
  /\ story = "polls" =>
       /\ ~Asked(1) /\ ~Asked(2) /\ Upto(1, 1) /\ outcome[current] # "stopped"
       /\ current = 2 => log[1][1].call = "none" /\ rules # 0
  /\ story = "approvals" =>
       Upto(1, 1) /\ current = 1 /\ log[1][1].call # "failed" /\ log[1][1].input # Foreign
=============================================================================
