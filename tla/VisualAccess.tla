---------------------------- MODULE VisualAccess ----------------------------
(***************************************************************************)
(* The browser's frames and the Agent's calls together, and the steps of   *)
(* the Runs they look at: product-run-dispatcher.ts, server.ts and         *)
(* milestone-a2-api.ts revoke both with every change of a Run that ends    *)
(* its visibility.                                                         *)
(***************************************************************************)
EXTENDS FrameCapabilities, VisualAgentAuthority

visualVars == <<targetVars, frameVars, agentVars>>

VisualInit == TargetInit /\ FrameInit /\ AgentInit

\* revokeVisualAccess: the frames and the grants of a Run.
RevokeVisualAccess(r) == RevokeRun(r) /\ RevokeVisualRun(r)

\* The command is committed, and the dispatcher told, in one step.
RequestCancellation(r) == CancelRow(r) /\ RevokeVisualAccess(r)

\* The dispatcher ends a Run, having revoked what looked at it.
RunEnds(r) == FinalizeRow(r) /\ RevokeVisualAccess(r)

TrashRun(r) == TrashRow(r) /\ RevokeVisualAccess(r)

\* withFence: nothing of the Project is in use at the deletion, which is synchronous.
PermanentDelete ==
  /\ ~FramesActive /\ grants = {}
  /\ DeleteRows /\ FactsDeleted
  /\ UNCHANGED frameVars

\* The browser enters the workbench again.
BootstrapApp == Bootstrap /\ RevokeMatching(Calls) /\ UNCHANGED <<scope, targetVars>>

Restart == RecoverRows /\ FramesForgotten /\ GapsReconciled /\ CallsForgotten

VisualNext ==
  \/ FrameStep /\ UNCHANGED <<targetVars, agentVars>>
  \/ AgentStep /\ UNCHANGED <<targetVars, frameVars>>
  \/ (Machine \/ \E r \in Runs : RecordHealth(r) \/ Lapse(r)) /\ UNCHANGED <<frameVars, agentVars>>
  \/ \E r \in Runs : RequestCancellation(r) \/ RunEnds(r) \/ TrashRun(r)
  \/ PermanentDelete \/ BootstrapApp \/ Restart

VisualSpec == VisualInit /\ [][VisualNext]_visualVars
-----------------------------------------------------------------------------
VisualTypes == TargetTypes /\ FrameTypes /\ AgentTypes

(***************************************************************************)
(* What reaches the browser or the Agent comes from the process of the Run *)
(* it was granted for, whoever took the port in between: a delivered       *)
(* response, an open WebSocket, a completed or acting call.                *)
(***************************************************************************)
SeenIsTheTarget ==
  /\ \A q \in Requests : request[q].at = "delivered" => request[q].by = RunOf(request[q].frame)
  /\ \A s \in Sockets : socket[s].at = "open" => socket[s].by = RunOf(socket[s].frame)
  /\ \A c \in Calls : look[c].at \in {"rendering", "acting", "delivered"} => look[c].by = look[c].run

(***************************************************************************)
(* No authority outlives its Run or its session: a routed frame is of this *)
(* app session and of a Run still going on, so is a live grant, whose turn *)
(* was not released; an open WebSocket has its route, unless a failed      *)
(* inspection took the route away.                                         *)
(***************************************************************************)
StillGoing == {"current", "lapsed"}

NothingOutlivesItsRun ==
  /\ VisualTypes
  /\ \A f \in routed : frame[f].gen = app /\ row[RunOf(f)] \in StillGoing
  /\ \A c \in grants : row[look[c].run] \in StillGoing /\ scope[look[c].turn] # "released"
  /\ \A s \in Sockets : Registered(s) => socket[s].frame \in routed \cup dropped

FactsTellTheCall ==
  \A c \in {d \in Calls : facts[d] # {}} :
    /\ look[c].at = "delivered" <=> "outcome" \in facts[c]
    /\ Cardinality(facts[c] \cap Ends) <= 1
    /\ look[c].at = "acting" => "consume" \in facts[c] /\ facts[c] \cap Ends \subseteq {"revoked"}
    /\ failures = 0 /\ c \notin grants => Ended(c)

NoPlainFailure ==
  \A c \in Calls : MayHaveActed(c) /\ "failed" \in facts'[c] => "failed" \in facts[c]

(***************************************************************************)
(* The record tells what a call did: a delivered one has its outcome and   *)
(* only such a one, what acts has its use on record, an ended grant has an *)
(* end on record unless the Store failed to take one, and a call that may  *)
(* have acted on the page is never recorded as a plain failure.            *)
(***************************************************************************)
AuditIsTrue == []FactsTellTheCall /\ [][NoPlainFailure]_visualVars

(***************************************************************************)
(* docs/adr/0003-websocket-forwarding-and-revocation.md: no live           *)
(* connection is left detached from its capability.                        *)
(***************************************************************************)
SocketsAreAttached == \A s \in Sockets : socket[s].at = "open" => socket[s].frame \in routed
=============================================================================
