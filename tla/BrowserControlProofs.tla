------------------------ MODULE BrowserControlProofs ------------------------
(***************************************************************************)
(* What BrowserControl promises, for any Turns, calls, requests,           *)
(* operations, budget and faults.                                          *)
(*                                                                         *)
(* Decisions: a grant can only lose approvals except by a decision, and    *)
(* only an execution spends one (KeepsDecisions): every action but Approve *)
(* and Start is of that kind.                                              *)
(*                                                                         *)
(* Control: IInv is kept by every step.  Callers (the Turns, their calls,  *)
(* the requests of the human and the leases that end by themselves) only   *)
(* put operations at the end of the tail and take their answers: each of   *)
(* their actions follows CallerStep, and CallerKeeps says that such a step *)
(* keeps IInv.  The Broker only changes the session and the head of the    *)
(* tail: each of its actions follows BrokerGoes, and BrokerKeepsAll says   *)
(* the same of those.                                                      *)
(***************************************************************************)
EXTENDS BrowserControl, SequenceTheorems, TLAPS


GrantFields == DOMAIN NoGrant

\* Nothing more is needed of the types: grants are records with the fields of
\* a grant, balances are integers.
GrantsAreRecords ==
    /\ DOMAIN grants = Turns
    /\ \A t \in Turns : DOMAIN grants[t] = GrantFields

BalancesAreIntegers == balance \in [Turns \X Operations -> Int]

DecisionsInv ==
    /\ GrantsAreRecords
    /\ BalancesAreIntegers
    /\ DecisionsCoverExecutions

\* What a grant becomes when nobody decides and nobody executes.
NoMoreApproved(new, old) ==
    /\ DOMAIN new = GrantFields
    /\ new.approved \subseteq old.approved

KeepsApprovals ==
    /\ DOMAIN grants' = Turns
    /\ \A t \in Turns : NoMoreApproved(grants'[t], grants[t])

KeepsDecisions == KeepsApprovals /\ UNCHANGED balance

LEMMA UnchangedGrants ==
    ASSUME GrantsAreRecords, UNCHANGED grants PROVE KeepsApprovals
BY DEF GrantsAreRecords, KeepsApprovals, NoMoreApproved

\* Losing approvals never uncovers an execution.
LEMMA FewerApprovals ==
    ASSUME DecisionsInv, KeepsDecisions PROVE DecisionsInv'
<1>1. GrantsAreRecords'
    BY DEF GrantsAreRecords, KeepsDecisions, KeepsApprovals, NoMoreApproved, GrantFields, NoGrant
<1>2. BalancesAreIntegers'
    BY DEF DecisionsInv, BalancesAreIntegers, KeepsDecisions
<1>3. DecisionsCoverExecutions'
  <2> SUFFICES ASSUME NEW t \in Turns, NEW op \in Operations
               PROVE  (balance[<<t, op>>] >= IF op \in grants[t].approved THEN 1 ELSE 0)'
      BY DEF DecisionsCoverExecutions
  <2>1. balance' = balance /\ balance[<<t, op>>] \in Int
      BY DEF DecisionsInv, BalancesAreIntegers, KeepsDecisions
  <2>2. op \in grants'[t].approved => op \in grants[t].approved
      BY DEF KeepsDecisions, KeepsApprovals, NoMoreApproved
  <2>3. balance[<<t, op>>] >= IF op \in grants[t].approved THEN 1 ELSE 0
      BY DEF DecisionsInv, DecisionsCoverExecutions
  <2> QED BY <2>1, <2>2, <2>3
<1> QED BY <1>1, <1>2, <1>3 DEF DecisionsInv

\* A withdrawn grant has no approvals.
LEMMA WithdrawnHasNone ==
    ASSUME NEW grant, DOMAIN grant = GrantFields
    PROVE  NoMoreApproved(Withdrawn(grant), grant) /\ Withdrawn(grant).approved = {}
BY DEF GrantFields, NoGrant, Withdrawn, NoMoreApproved

\* What a grant of Turn t becomes in a step that leaves it these approvals.
LeavesApprovals(t, approved) == t \in Turns => grants'[t].approved \subseteq approved

\* #revoke only takes approvals away.
LEMMA RevokesKeeps ==
    ASSUME GrantsAreRecords, NEW Revoked, NEW by, Revokes(Revoked, by)
    PROVE  KeepsApprovals /\ \A t \in Revoked : LeavesApprovals(t, {})
<1>1. grants' = [t \in Turns |-> IF t \in Revoked THEN Withdrawn(grants[t]) ELSE grants[t]]
    BY DEF Revokes
<1>2. \A t \in Turns : NoMoreApproved(grants'[t], grants[t])
    BY <1>1, WithdrawnHasNone DEF GrantsAreRecords, NoMoreApproved
<1>3. \A t \in Turns : t \in Revoked => grants'[t].approved = {}
    BY <1>1, WithdrawnHasNone DEF GrantsAreRecords
<1> QED BY <1>1, <1>2, <1>3 DEF KeepsApprovals, LeavesApprovals

LEMMA LeavesKeeps ==
    ASSUME GrantsAreRecords, NEW c, NEW at, NEW left, Leaves(c, at, left)
    PROVE  KeepsApprovals /\ LeavesApprovals(calls[c].turn, {})
BY RevokesKeeps DEF Leaves

\* The finally of a call puts back a grant with no more approvals.
LEMMA EndsKeeps ==
    ASSUME GrantsAreRecords, NEW c, NEW grant, Ends(c, grant),
           calls[c].turn \in Turns => NoMoreApproved(grant, grants[calls[c].turn])
    PROVE  KeepsApprovals /\ LeavesApprovals(calls[c].turn, grant.approved)
<1> DEFINE t == calls[c].turn
<1>1. PICK new : grants' = [grants EXCEPT ![t] = new] /\ new \in {grant, Withdrawn(grant)}
    BY DEF Ends
<1>2. t \in Turns =>
        NoMoreApproved(new, grants[t]) /\ new.approved \subseteq grant.approved
    BY <1>1, WithdrawnHasNone DEF NoMoreApproved
<1> QED BY <1>1, <1>2 DEF KeepsApprovals, GrantsAreRecords, NoMoreApproved, LeavesApprovals

LEMMA ProjectsKeeps ==
    ASSUME GrantsAreRecords, NEW c, NEW grant, Projects(c, grant),
           calls[c].turn \in Turns => NoMoreApproved(grant, grants[calls[c].turn])
    PROVE  KeepsApprovals
<1>1. CASE grant.budget = 0 /\ Ends(c, grant)
    BY <1>1, EndsKeeps
<1>2. CASE grants' = [grants EXCEPT ![calls[c].turn] = grant]
    BY <1>2 DEF KeepsApprovals, GrantsAreRecords, NoMoreApproved
<1> QED BY <1>1, <1>2 DEF Projects

-----------------------------------------------------------------------------
(* The steps of a call.                                                    *)

LEMMA UnchangedGrantIsNoMore ==
    ASSUME GrantsAreRecords, NEW t \in Turns
    PROVE  NoMoreApproved(grants[t], grants[t])
BY DEF GrantsAreRecords, NoMoreApproved

LEMMA OpenedKeeps ==
    ASSUME GrantsAreRecords, NEW c, Opened(c) PROVE KeepsDecisions
<1>1. UNCHANGED balance
    BY DEF Opened, Takes
<1>2. CASE UNCHANGED grants
    BY <1>1, <1>2, UnchangedGrants DEF KeepsDecisions
<1>3. CASE \E left : Leaves(c, "leaving", left)
    BY <1>1, <1>3, LeavesKeeps DEF KeepsDecisions
<1> QED BY <1>2, <1>3 DEF Opened

LEMMA ClaimTakenKeeps ==
    ASSUME GrantsAreRecords, NEW c, ClaimTaken(c) PROVE KeepsDecisions
<1> DEFINE t == calls[c].turn
           new == [grants[t] EXCEPT !.epoch = answers[c].value]
<1>1. UNCHANGED balance
    BY DEF ClaimTaken, Takes
<1>2. CASE Projects(c, new)
  <2>1. t \in Turns => NoMoreApproved(new, grants[t])
      BY DEF GrantsAreRecords, NoMoreApproved, GrantFields, NoGrant
  <2> QED BY <1>1, <1>2, <2>1, ProjectsKeeps DEF KeepsDecisions
<1>3. CASE \E left : Leaves(c, "leaving", left)
    BY <1>1, <1>3, LeavesKeeps DEF KeepsDecisions
<1> QED BY <1>2, <1>3 DEF ClaimTaken

LEMMA StatedKeeps ==
    ASSUME GrantsAreRecords, NEW c, Stated(c) PROVE KeepsDecisions
<1>1. UNCHANGED balance
    BY DEF Stated, Takes
<1>2. CASE UNCHANGED grants
    BY <1>1, <1>2, UnchangedGrants DEF KeepsDecisions
<1>3. CASE Ends(c, grants[calls[c].turn])
    BY <1>1, <1>3, EndsKeeps, UnchangedGrantIsNoMore DEF KeepsDecisions
<1> QED BY <1>2, <1>3 DEF Stated

LEMMA ActedKeeps ==
    ASSUME GrantsAreRecords, NEW c, Acted(c) PROVE KeepsDecisions
<1>1. UNCHANGED balance
    BY DEF Acted, Takes
<1>2. CASE Projects(c, grants[calls[c].turn])
    BY <1>1, <1>2, ProjectsKeeps, UnchangedGrantIsNoMore DEF KeepsDecisions
<1>3. CASE Leaves(c, "leaving", 0)
    BY <1>1, <1>3, LeavesKeeps DEF KeepsDecisions
<1>4. CASE Ends(c, grants[calls[c].turn])
    BY <1>1, <1>4, EndsKeeps, UnchangedGrantIsNoMore DEF KeepsDecisions
<1> QED BY <1>2, <1>3, <1>4 DEF Acted

LEMMA ProjectedKeeps ==
    ASSUME GrantsAreRecords, NEW c, Projected(c) PROVE KeepsDecisions
<1>1. UNCHANGED balance
    BY DEF Projected, Takes
<1>2. CASE UNCHANGED grants
    BY <1>1, <1>2, UnchangedGrants DEF KeepsDecisions
<1>3. CASE Leaves(c, "leaving", 0)
    BY <1>1, <1>3, LeavesKeeps DEF KeepsDecisions
<1>4. CASE Ends(c, grants[calls[c].turn])
    BY <1>1, <1>4, EndsKeeps, UnchangedGrantIsNoMore DEF KeepsDecisions
<1> QED BY <1>2, <1>3, <1>4 DEF Projected

LEMMA LeftKeeps ==
    ASSUME GrantsAreRecords, NEW c, Left(c) PROVE KeepsDecisions
<1>1. UNCHANGED balance
    BY DEF Left, Takes
<1>2. CASE \E left : Leaves(c, "leaving", left)
    BY <1>1, <1>2, LeavesKeeps DEF KeepsDecisions
<1>3. CASE Ends(c, grants[calls[c].turn])
    BY <1>1, <1>3, EndsKeeps, UnchangedGrantIsNoMore DEF KeepsDecisions
<1> QED BY <1>2, <1>3 DEF Left

LEMMA CallClosesKeeps ==
    ASSUME GrantsAreRecords, NEW c, CallCloses(c) PROVE KeepsDecisions
BY UnchangedGrants DEF CallCloses, Takes, KeepsDecisions

-----------------------------------------------------------------------------
(* Everybody else but Approve and Start.                                   *)

LEMMA TurnEventKeeps ==
    ASSUME GrantsAreRecords, NEW t \in Turns, NEW op, NEW c,
           Prepare(t) \/ EndTurn(t) \/ GrantDue(t) \/ GrantExpires(t)
             \/ Activated(t) \/ Reject(t, op) \/ Call(c, t, op)
    PROVE  KeepsDecisions
<1>1. CASE Prepare(t)
    BY <1>1 DEF Prepare, KeepsDecisions, KeepsApprovals, GrantsAreRecords, NoMoreApproved,
       GrantFields, NoGrant
<1>2. CASE EndTurn(t)
    BY <1>2, RevokesKeeps, UnchangedGrants DEF EndTurn, KeepsDecisions
<1>3. CASE GrantDue(t)
    BY <1>3 DEF GrantDue, KeepsDecisions, KeepsApprovals, GrantsAreRecords, NoMoreApproved,
       GrantFields, NoGrant
<1>4. CASE GrantExpires(t)
    BY <1>4, RevokesKeeps DEF GrantExpires, KeepsDecisions
<1>5. CASE Activated(t)
  <2>1. CASE Revokes({t}, Nobody)
      BY <1>5, <2>1, RevokesKeeps DEF Activated, KeepsDecisions
  <2>2. CASE grants' = [grants EXCEPT ![t].epoch = answers[t].value,
                                      ![t].pending = @ \ {approving[t]}]
      BY <1>5, <2>2 DEF Activated, KeepsDecisions, KeepsApprovals, GrantsAreRecords,
         NoMoreApproved, GrantFields, NoGrant
  <2> QED BY <1>5, <2>1, <2>2 DEF Activated
<1>6. CASE Reject(t, op)
    BY <1>6, RevokesKeeps DEF Reject, KeepsDecisions
<1>7. CASE Call(c, t, op)
    BY <1>7 DEF Call, KeepsDecisions, KeepsApprovals, GrantsAreRecords, NoMoreApproved,
       GrantFields, NoGrant
<1> QED BY <1>1, <1>2, <1>3, <1>4, <1>5, <1>6, <1>7

\* The workbench revokes grants; it never approves.
LEMMA RequestKeeps ==
    ASSUME GrantsAreRecords, NEW r, NEW kind, NEW generation,
           Request(r, kind, generation) \/ RequestClose(r, generation)
             \/ RequestCloseGoesOn(r, generation) \/ RequestTakeover(r, generation)
             \/ Answered(r)
    PROVE  KeepsDecisions
<1>1. CASE Request(r, kind, generation)
    BY <1>1, UnchangedGrants DEF Request, requestFrame, KeepsDecisions
<1>2. CASE RequestClose(r, generation)
    BY <1>2, RevokesKeeps, UnchangedGrants DEF RequestClose, requestFrame, KeepsDecisions
<1>3. CASE RequestCloseGoesOn(r, generation)
    BY <1>3, UnchangedGrants DEF RequestCloseGoesOn, requestFrame, KeepsDecisions
<1>4. CASE RequestTakeover(r, generation)
  <2>1. grants' = [t \in Turns |-> IF t \in {u \in Turns : IsLive(u)}
                                   THEN Withdrawn(grants[t]) ELSE grants[t]]
      BY <1>4 DEF RequestTakeover
  <2>2. \A t \in Turns : NoMoreApproved(grants'[t], grants[t])
      BY <2>1, WithdrawnHasNone DEF GrantsAreRecords, NoMoreApproved
  <2>3. UNCHANGED balance
      BY <1>4 DEF RequestTakeover, requestFrame
  <2> QED BY <2>1, <2>2, <2>3 DEF KeepsDecisions, KeepsApprovals
<1>5. CASE Answered(r)
    BY <1>5, UnchangedGrants DEF Answered, requestFrame, KeepsDecisions
<1> QED BY <1>1, <1>2, <1>3, <1>4, <1>5

\* The Broker and the outside know nothing of grants.
LEMMA BrokerKeeps ==
    ASSUME GrantsAreRecords, Begins \/ PlaywrightAnswers \/ Fault
    PROVE  KeepsDecisions
BY UnchangedGrants DEF Begins, PlaywrightAnswers, Fault, authorityVars, KeepsDecisions

-----------------------------------------------------------------------------
(* A decision and an execution.                                            *)

\* A decision covers the approval it adds.
LEMMA ApproveCovers ==
    ASSUME DecisionsInv, NEW t \in Turns, NEW op \in Operations, Approve(t, op)
    PROVE  DecisionsInv'
<1>1. /\ DOMAIN grants' = Turns
      /\ \A u \in Turns :
            /\ DOMAIN grants'[u] = GrantFields
            /\ grants'[u].approved \subseteq
                 grants[u].approved \union (IF u = t THEN {op} ELSE {})
  <2>1. CASE grants' = [grants EXCEPT ![t].state = "active", ![t].approved = @ \union {op}]
      BY <2>1 DEF DecisionsInv, GrantsAreRecords, GrantFields, NoGrant
  <2>2. CASE grants' = [grants EXCEPT ![t].state = "active",
                          ![t].approved = @ \union {op}, ![t].pending = @ \ {op}]
      BY <2>2 DEF DecisionsInv, GrantsAreRecords, GrantFields, NoGrant
  <2> QED BY <2>1, <2>2 DEF Approve
<1>2. balance' = [balance EXCEPT ![<<t, op>>] = @ + 1]
    BY DEF Approve
<1>3. GrantsAreRecords'
    BY <1>1 DEF GrantsAreRecords, GrantFields, NoGrant
<1>4. BalancesAreIntegers'
    BY <1>2 DEF DecisionsInv, BalancesAreIntegers
<1>5. DecisionsCoverExecutions'
  <2> SUFFICES ASSUME NEW u \in Turns, NEW other \in Operations
               PROVE  (balance[<<u, other>>] >= IF other \in grants[u].approved THEN 1 ELSE 0)'
      BY DEF DecisionsCoverExecutions
  <2>1. /\ balance[<<u, other>>] \in Int
        /\ balance[<<u, other>>] >= IF other \in grants[u].approved THEN 1 ELSE 0
      BY DEF DecisionsInv, BalancesAreIntegers, DecisionsCoverExecutions
  <2>2. CASE u = t /\ other = op
    <3>1. balance'[<<u, other>>] = balance[<<u, other>>] + 1
        BY <1>2, <2>2 DEF DecisionsInv, BalancesAreIntegers
    <3> QED BY <2>1, <3>1
  <2>3. CASE ~(u = t /\ other = op)
    <3>1. balance'[<<u, other>>] = balance[<<u, other>>]
        BY <1>2, <2>3 DEF DecisionsInv, BalancesAreIntegers
    <3>2. other \in grants'[u].approved => other \in grants[u].approved
        BY <1>1, <2>3
    <3> QED BY <2>1, <3>1, <3>2
  <2> QED BY <2>2, <2>3
<1> QED BY <1>3, <1>4, <1>5 DEF DecisionsInv

\* An execution consumes the approval it spends the decision of.
LEMMA StartCovers ==
    ASSUME DecisionsInv, NEW c, Start(c) PROVE DecisionsInv'
<1> DEFINE t == calls[c].turn
           op == calls[c].op
           usable == IsCurrent(t) /\ op \in grants[t].approved
<1>1. GrantsAreRecords
    BY DEF DecisionsInv
<1>2. CASE ~usable
  <2>1. UNCHANGED <<grants, balance>>
      BY <1>2 DEF Start
  <2> QED BY <1>1, <2>1, UnchangedGrants, FewerApprovals DEF KeepsDecisions
<1>3. CASE usable
  <2>1. balance' = [balance EXCEPT ![<<t, op>>] = @ - 1]
      BY <1>3 DEF Start
  <2>2. t \in Turns => NoMoreApproved(Consumed(t, op), grants[t])
      BY <1>1 DEF GrantsAreRecords, NoMoreApproved, Consumed, GrantFields, NoGrant
  <2>3. KeepsApprovals /\ LeavesApprovals(t, Consumed(t, op).approved)
    <3>1. CASE Leaves(c, "closing", 0)
        BY <1>1, <3>1, LeavesKeeps DEF LeavesApprovals
    <3>2. CASE Ends(c, Consumed(t, op))
        BY <1>1, <2>2, <3>2, EndsKeeps
    <3>3. CASE grants' = [grants EXCEPT ![t] = [Consumed(t, op) EXCEPT !.target = op.argument]]
        BY <1>1, <2>2, <3>3 DEF KeepsApprovals, GrantsAreRecords, NoMoreApproved,
           LeavesApprovals, GrantFields, NoGrant
    <3>4. CASE grants' = [grants EXCEPT ![t] = Consumed(t, op)]
        BY <1>1, <2>2, <3>4 DEF KeepsApprovals, GrantsAreRecords, NoMoreApproved,
           LeavesApprovals
    <3> QED BY <1>3, <3>1, <3>2, <3>3, <3>4 DEF Start
  <2>4. t \in Turns => op \notin grants'[t].approved
      BY <1>1, <2>3 DEF LeavesApprovals, Consumed, GrantsAreRecords, GrantFields, NoGrant
  <2>5. GrantsAreRecords'
      BY <2>3 DEF KeepsApprovals, NoMoreApproved, GrantsAreRecords, GrantFields, NoGrant
  <2>6. BalancesAreIntegers'
    <3>1. CASE t \in Turns /\ op \in Operations
      <4> HIDE DEF t, op
      <4> QED BY <2>1, <3>1 DEF DecisionsInv, BalancesAreIntegers
    <3>2. CASE ~(t \in Turns /\ op \in Operations)
      <4> HIDE DEF t, op
      <4>1. \A pair \in Turns \X Operations : balance'[pair] = balance[pair]
          BY <2>1, <3>2 DEF DecisionsInv, BalancesAreIntegers
      <4> QED BY <2>1, <4>1 DEF DecisionsInv, BalancesAreIntegers
    <3> QED BY <3>1, <3>2
  <2>7. DecisionsCoverExecutions'
    <3> SUFFICES ASSUME NEW u \in Turns, NEW other \in Operations
                 PROVE  (balance[<<u, other>>] >= IF other \in grants[u].approved THEN 1 ELSE 0)'
        BY DEF DecisionsCoverExecutions
    <3>1. /\ balance[<<u, other>>] \in Int
          /\ balance[<<u, other>>] >= IF other \in grants[u].approved THEN 1 ELSE 0
        BY DEF DecisionsInv, BalancesAreIntegers, DecisionsCoverExecutions
    <3>2. CASE u = t /\ other = op
      <4>1. balance'[<<u, other>>] = balance[<<u, other>>] - 1
          BY <2>1, <3>2 DEF DecisionsInv, BalancesAreIntegers
      <4> QED BY <1>3, <2>4, <3>1, <3>2, <4>1
    <3>3. CASE ~(u = t /\ other = op)
      <4>1. balance'[<<u, other>>] = balance[<<u, other>>]
          BY <2>1, <3>3 DEF DecisionsInv, BalancesAreIntegers
      <4>2. other \in grants'[u].approved => other \in grants[u].approved
          BY <2>3 DEF KeepsApprovals, NoMoreApproved
      <4> QED BY <3>1, <4>1, <4>2
    <3> QED BY <3>2, <3>3
  <2> QED BY <2>5, <2>6, <2>7 DEF DecisionsInv
<1> QED BY <1>2, <1>3

-----------------------------------------------------------------------------

\* What follows a settled promise.
LEMMA SettledCovers ==
    ASSUME DecisionsInv, Settled PROVE DecisionsInv'
<1>1. GrantsAreRecords
    BY DEF DecisionsInv
<1>2. CASE \E c \in Calls : Start(c)
    BY <1>2, StartCovers
<1>3. CASE Begins
    BY <1>1, <1>3, BrokerKeeps, FewerApprovals
<1>4. CASE \E t \in Turns : Activated(t)
    BY <1>1, <1>4, TurnEventKeeps, FewerApprovals
<1>5. CASE \E c \in Calls :
            \/ Opened(c) \/ ClaimTaken(c) \/ Stated(c) \/ Acted(c)
            \/ Projected(c) \/ Left(c) \/ CallCloses(c)
    BY <1>1, <1>5, OpenedKeeps, ClaimTakenKeeps, StatedKeeps, ActedKeeps,
       ProjectedKeeps, LeftKeeps, CallClosesKeeps, FewerApprovals
<1>6. CASE \E r \in Requests :
            Answered(r) \/ \E generation \in Expectations : RequestCloseGoesOn(r, generation)
    BY <1>1, <1>6, RequestKeeps, FewerApprovals
<1> QED BY <1>2, <1>3, <1>4, <1>5, <1>6 DEF Settled, Continue

\* Every step keeps each execution covered.
LEMMA NextCovers ==
    ASSUME DecisionsInv, [Next]_vars PROVE DecisionsInv'
<1>1. GrantsAreRecords
    BY DEF DecisionsInv
<1>2. CASE UNCHANGED vars
    BY <1>1, <1>2, UnchangedGrants, FewerApprovals DEF vars, authorityVars, KeepsDecisions
<1>3. CASE Settled
    BY <1>3, SettledCovers
<1>4. CASE PlaywrightAnswers \/ Fault
    BY <1>1, <1>4, BrokerKeeps, FewerApprovals
<1>5. CASE \E t \in Turns : TurnEvent(t) \/ GrantDue(t)
    BY <1>1, <1>5, TurnEventKeeps, ApproveCovers, FewerApprovals DEF TurnEvent
<1>6. CASE \E r \in Requests : RequestEvent(r)
    BY <1>1, <1>6, RequestKeeps, FewerApprovals DEF RequestEvent
<1> QED BY <1>2, <1>3, <1>4, <1>5, <1>6 DEF Next

\* Each execution of an Agent's browser operation spends an allow-once decision
\* of its own, whatever calls share a pending permission and whatever is
\* revoked, taken over or closed meanwhile (browser-agent-authority.ts,
\* activatePermission and execute).
THEOREM DecisionsCover == Spec => []DecisionsCoverExecutions
<1>1. Init => DecisionsInv
    BY DEF Init, DecisionsInv, GrantsAreRecords, GrantFields, BalancesAreIntegers,
       DecisionsCoverExecutions, NoGrant
<1>2. DecisionsInv /\ [Next]_vars => DecisionsInv'
    BY NextCovers
<1>3. DecisionsInv => DecisionsCoverExecutions
    BY DEF DecisionsInv
<1> QED BY <1>1, <1>2, <1>3, PTL DEF Spec

-----------------------------------------------------------------------------
(* What the control of a page rests on.                                    *)
\* The operations that only a Turn with a live grant asks for.
Leased == AgentKinds \union {"claim", "budget"}

\* What a call waits for.
Awaited(at) ==
    CASE at = "opening" -> {"open"}
      [] at = "claiming" -> {"claim"}
      [] at = "stating" -> {"state"}
      [] at = "acting" -> AgentKinds
      [] at = "projecting" -> {"budget"}
      [] at = "leaving" -> {"release"}
      [] at = "closing" -> {"release", "budget"}
      [] OTHER -> {}

Expected(who) ==
    IF who \in Calls THEN Awaited(calls[who].at)
    ELSE IF who \in Turns THEN IF approving[who] = NoOperation THEN {} ELSE {"claim"}
    ELSE IF who \in Requests
         THEN IF requests[who] = "waiting" THEN PublicKinds
              ELSE IF requests[who] = "revoking" THEN {"release"} ELSE {}
    ELSE {"release"}

TurnOf(who) == IF who \in Calls THEN calls[who].turn ELSE who

Places == 1 .. Len(tail)
Absent(who) == \A i \in Places : tail[i].by # who

\* An open has its alias, a takeover the target it was asked for.
Aimed(op) ==
    /\ op.kind = "open" => op.target \in Aliases
    /\ op.kind = "takeHuman" => op.target # NoPage

\* An asker has one operation in the tail, or its answer, and waits for it.
InFlight ==
    /\ \A i \in Places :
        /\ tail[i].kind \in Expected(tail[i].by)
        /\ Aimed(tail[i])
    /\ \A i, j \in Places : tail[i].by = tail[j].by /\ tail[i].by # Nobody => i = j
    /\ \A who \in Askers : answers[who] # NoAnswer => Expected(who) # {} /\ Absent(who)

\* One Turn runs at a time, a live grant is its grant, and a Turn that has not
\* begun has left nothing behind.
TurnsOK ==
    /\ \A t \in Turns : turns[t] = "none" =>
        /\ grants[t] = NoGrant /\ approving[t] = NoOperation
        /\ \A c \in Calls : calls[c].turn # t
    /\ \A t \in Turns : IsLive(t) => turns[t] = "open"
    /\ \A t, u \in Turns : turns[t] = "open" /\ turns[u] = "open" => t = u
    /\ \A c \in Calls : calls[c].at # "idle" =>
        calls[c].turn \in Turns /\ calls[c].op \in Operations

ClaimAnswered(who) == "claim" \in Expected(who) /\ answers[who].code = "ok"

\* What another Turn or a takeover asked for.
Foreign(op, t) ==
    op.kind = "takeHuman" \/ (op.kind \in Leased /\ TurnOf(op.by) # t)

AllOwn(t) == \A i \in Places : ~Foreign(tail[i], t)

\* What was asked for before a Turn began comes before what the Turn asks for.
OrderOK ==
    \A t \in Turns : IsLive(t) =>
        /\ grants[t].epoch # 0 => AllOwn(t)
        /\ \A who \in Askers : ClaimAnswered(who) /\ TurnOf(who) = t => AllOwn(t)
        /\ \A i, j \in Places :
            i < j /\ tail[i].kind \in Leased /\ TurnOf(tail[i].by) = t => ~Foreign(tail[j], t)

\* Claims are answered one after the other, and the last one has the session
\* until it is taken.
ClaimsOK ==
    /\ \A who \in Askers : ClaimAnswered(who) => answers[who].value \in 1 .. session.epoch
    /\ \A who, other \in Askers :
        ClaimAnswered(who) /\ ClaimAnswered(other) /\ answers[who].value = answers[other].value
            => who = other
    /\ session.mode = "agent" =>
        /\ session.epoch >= 1
        /\ \/ \E who \in Askers : ClaimAnswered(who) /\ answers[who].value = session.epoch
           \/ /\ \A who \in Askers : ~ClaimAnswered(who)
              /\ refused \/ \E t \in Turns : HoldsSession(t)

\* The grant of a live Turn that has, or is about to take, the session.
Controls(t) ==
    /\ IsLive(t)
    /\ \/ grants[t].epoch = session.epoch
       \/ \E who \in Askers :
            ClaimAnswered(who) /\ TurnOf(who) = t /\ answers[who].value = session.epoch

BudgetsOK ==
    /\ \A i \in Places : tail[i].kind \in {"claim", "budget"} =>
        grants[TurnOf(tail[i].by)].budget <= tail[i].budget
    /\ session.budget # NoBudget =>
        /\ session.mode = "agent"
        /\ \A t \in Turns : Controls(t) => grants[t].budget <= session.budget

\* What the operation at work found when it began is still so.
WorkOK ==
    step # "queued" =>
        /\ tail # <<>>
        /\ LET op == tail[1]
           IN  /\ step = "resolving" => op.kind = "open"
               /\ op.kind \in Rebuilding \union {"reload", "act", "close", "agentClose"}
               /\ op.by \in Requests /\ op.kind # "takeHuman" => session.mode # "agent"
               /\ op.kind = "open" => session.mode = "observer"
               /\ op.kind \in {"back", "agentBack"} => session.history # <<>>
               /\ op.kind = "takeHuman" => session.target # NoPage
               /\ op.kind \in {"back", "restart", "reconnect"} =>
                    op.generation = session.generation /\ session.page = NoPage

IInv == TypeOK /\ InFlight /\ TurnsOK /\ OrderOK /\ ClaimsOK /\ BudgetsOK /\ WorkOK

-----------------------------------------------------------------------------
(* The tail.                                                               *)

LEMMA TailIs ==
    ASSUME tail \in Seq(Entries)
    PROVE  /\ Len(tail) \in Nat
           /\ \A i \in Places : tail[i] \in Entries
           /\ tail # <<>> => 1 \in Places /\ Head(tail) = tail[1]
           /\ tail = <<>> => Places = {}
<1>1. Len(tail) \in Nat /\ \A i \in Places : tail[i] \in Entries
  BY LenProperties, ElementOfSeq DEF Places
<1>2. ASSUME tail # <<>> PROVE 1 \in Places /\ Head(tail) = tail[1]
  <2>1. Len(tail) \in Nat \ {0} BY <1>2, EmptySeq
  <2>2. Head(tail) = tail[1] BY <1>2
  <2> QED BY <2>1, <2>2 DEF Places
<1>3. ASSUME tail = <<>> PROVE Places = {}
  <2>1. Len(tail) = 0 BY <1>3, EmptySeq
  <2> QED BY <2>1 DEF Places
<1> QED BY <1>1, <1>2, <1>3

LEMMA TailTaken ==
    ASSUME tail \in Seq(Entries), tail # <<>>, tail' = Tail(tail)
    PROVE  /\ tail' \in Seq(Entries)
           /\ \A i \in Places' : tail'[i] = tail[i + 1] /\ i + 1 \in Places /\ i \in Places /\ i \in Nat
<1>1. /\ Tail(tail) \in Seq(Entries) /\ Len(Tail(tail)) = Len(tail) - 1
      /\ \A i \in 1 .. Len(Tail(tail)) : Tail(tail)[i] = tail[i + 1]
  BY HeadTailProperties
<1>2. Len(tail) \in Nat BY LenProperties
<1> QED BY <1>1, <1>2 DEF Places

LEMMA TailJoined ==
    ASSUME tail \in Seq(Entries), NEW op \in Entries, tail' = Append(tail, op)
    PROVE  /\ tail' \in Seq(Entries) /\ tail' # <<>>
           /\ Places' = Places \union {Len(tail) + 1}
           /\ \A i \in Places : tail'[i] = tail[i] /\ i # Len(tail) + 1 /\ i < Len(tail) + 1
           /\ tail'[Len(tail) + 1] = op
           /\ tail # <<>> => 1 \in Places
<1>1. /\ tail' \in Seq(Entries) /\ tail' # <<>> /\ Len(tail') = Len(tail) + 1
      /\ \A i \in 1 .. Len(tail) : tail'[i] = tail[i]
      /\ tail'[Len(tail) + 1] = op
  BY AppendProperties
<1>2. Len(tail) \in Nat BY LenProperties
<1>3. tail # <<>> => 1 \in Places BY TailIs
<1> QED BY <1>1, <1>2, <1>3 DEF Places
-----------------------------------------------------------------------------
(* Grants.                                                                 *)

LEMMA Constants ==
    /\ Budget \in Nat /\ Budget > 0 /\ MaxFaults \in Nat
    /\ RequestKinds \subseteq PublicKinds
    /\ \A op \in Operations : op.tool = "open" => op.argument \in Aliases
    /\ NoOperation \notin Operations
    /\ Askers = Calls \union Requests \union Turns
    /\ Calls \intersect Requests = {} /\ Turns \intersect Calls = {}
    /\ Turns \intersect Requests = {} /\ Nobody \notin Askers
BY ControlAssumption DEF NoOperation

LiveState(state) == state \in {"dormant", "active"}

\* A grant that has not gained anything.
LessOf(new, old) ==
    /\ new \in GrantRecords
    /\ new.budget <= old.budget /\ new.epoch = old.epoch
    /\ LiveState(new.state) => LiveState(old.state)

LEMMA LessIsLess ==
    ASSUME NEW g \in GrantRecords
    PROVE  /\ LessOf(g, g)
           /\ g.budget \in 0 .. Budget /\ g.epoch \in Nat
           /\ g.approved \subseteq Operations /\ g.pending \subseteq Operations
           /\ \A h, k \in GrantRecords : LessOf(h, g) /\ LessOf(k, h) => LessOf(k, g)
<1>1. \A h \in GrantRecords : h.budget \in Int
  BY Constants DEF GrantRecords
<1> QED BY <1>1, Constants DEF LessOf, GrantRecords

LEMMA WithdrawnIsLess ==
    ASSUME NEW g \in GrantRecords
    PROVE  LessOf(Withdrawn(g), g) /\ Withdrawn(g).state = "revoked"
<1>1. Withdrawn(g) \in GrantRecords
  BY DEF Withdrawn, GrantRecords
<1>2. /\ Withdrawn(g).state = "revoked" /\ Withdrawn(g).budget = g.budget
      /\ Withdrawn(g).epoch = g.epoch
  BY DEF Withdrawn, GrantRecords
<1>3. g.budget \in Int BY Constants DEF GrantRecords
<1> QED BY <1>1, <1>2, <1>3 DEF LessOf, LiveState

\* The edits of one grant.
LEMMA WaitingEdit ==
    ASSUME NEW g \in GrantRecords, NEW P \in SUBSET Operations
    PROVE  LET asked == [g EXCEPT !.pending = P]
               due == [g EXCEPT !.due = TRUE]
           IN  LessOf(asked, g) /\ asked.state = g.state /\ LessOf(due, g) /\ due.state = g.state
<1>1. LET new == [g EXCEPT !.pending = P]
      IN  new \in GrantRecords /\ new.state = g.state /\ new.budget = g.budget /\ new.epoch = g.epoch
  BY DEF GrantRecords
<1>2. LET new == [g EXCEPT !.due = TRUE]
      IN  new \in GrantRecords /\ new.state = g.state /\ new.budget = g.budget /\ new.epoch = g.epoch
  BY DEF GrantRecords
<1>3. g.budget \in Int BY LessIsLess
<1> QED BY <1>1, <1>2, <1>3 DEF LessOf

LEMMA ConsumedIsLess ==
    ASSUME NEW t \in Turns, grants[t] \in GrantRecords, grants[t].budget > 0, NEW op,
           NEW target \in Aliases \union {NoPage}
    PROVE  LET new == Consumed(t, op)
               aimed == [Consumed(t, op) EXCEPT !.target = target]
           IN  /\ LessOf(new, grants[t]) /\ new.state = grants[t].state
               /\ LessOf(aimed, grants[t]) /\ aimed.state = grants[t].state
<1> DEFINE g == grants[t]
           A == g.approved \ {op}
           b == g.budget - 1
           new == [g EXCEPT !.approved = A, !.budget = b]
           aimed == [new EXCEPT !.target = target]
<1>1. g \in GrantRecords /\ A \in SUBSET Operations /\ b \in 0 .. Budget /\ b <= g.budget
  BY LessIsLess, Constants
<1>2. Consumed(t, op) = new
  BY DEF Consumed
<1> HIDE DEF g, A, b
<1>3. new \in GrantRecords /\ new.state = g.state /\ new.budget = b /\ new.epoch = g.epoch
  BY <1>1 DEF GrantRecords
<1> HIDE DEF new
<1>4. /\ aimed \in GrantRecords /\ aimed.state = new.state /\ aimed.budget = new.budget
      /\ aimed.epoch = new.epoch
  BY <1>3 DEF GrantRecords
<1> QED BY <1>1, <1>2, <1>3, <1>4 DEF LessOf, g

\* A grant that takes a claim.
LEMMA EpochTaken ==
    ASSUME NEW g \in GrantRecords, NEW epoch \in Nat, NEW P \in SUBSET Operations
    PROVE  LET new == [g EXCEPT !.epoch = epoch]
               pended == [g EXCEPT !.epoch = epoch, !.pending = P]
           IN  /\ new \in GrantRecords /\ new.state = g.state /\ new.budget = g.budget
               /\ new.epoch = epoch
               /\ pended \in GrantRecords /\ pended.state = g.state
               /\ pended.budget = g.budget /\ pended.epoch = epoch
BY DEF GrantRecords

\* A grant that is activated.
LEMMA ActivatedIsLess ==
    ASSUME NEW g \in GrantRecords, LiveState(g.state),
           NEW A \in SUBSET Operations, NEW P \in SUBSET Operations
    PROVE  LET new == [g EXCEPT !.state = "active", !.approved = A]
               done == [g EXCEPT !.state = "active", !.approved = A, !.pending = P]
           IN  LessOf(new, g) /\ new.state = "active" /\ LessOf(done, g) /\ done.state = "active"
<1>1. g.budget \in Int BY Constants DEF GrantRecords
<1>2. LET new == [g EXCEPT !.state = "active", !.approved = A]
      IN  new \in GrantRecords /\ new.state = "active" /\ new.budget = g.budget /\ new.epoch = g.epoch
  BY DEF GrantRecords
<1>3. LET new == [g EXCEPT !.state = "active", !.approved = A, !.pending = P]
      IN  new \in GrantRecords /\ new.state = "active" /\ new.budget = g.budget /\ new.epoch = g.epoch
  BY DEF GrantRecords
<1> QED BY <1>1, <1>2, <1>3 DEF LessOf, LiveState
-----------------------------------------------------------------------------
(* What a step of a caller does to the askers, the tail and the grants.    *)

\* The calls outside C wait for what they waited for.
CallsGo(C) ==
    /\ calls' \in [Calls -> CallRecords]
    /\ \A d \in Calls :
        /\ calls'[d].turn = calls[d].turn /\ calls'[d].op = calls[d].op
        /\ d \notin C => /\ Awaited(calls'[d].at) = Awaited(calls[d].at)
                         /\ calls[d].at = "idle" => calls'[d].at = "idle"

LEMMA RejectedGoes ==
    ASSUME calls \in [Calls -> CallRecords], NEW R
    PROVE  /\ Rejected(R) \in [Calls -> CallRecords]
           /\ \A d \in Calls :
                /\ Rejected(R)[d].turn = calls[d].turn /\ Rejected(R)[d].op = calls[d].op
                /\ Awaited(Rejected(R)[d].at) = Awaited(calls[d].at)
                /\ calls[d].at = "idle" => Rejected(R)[d].at = "idle"
<1> SUFFICES ASSUME NEW d \in Calls
             PROVE  /\ Rejected(R)[d] \in CallRecords
                    /\ Rejected(R)[d].turn = calls[d].turn /\ Rejected(R)[d].op = calls[d].op
                    /\ Awaited(Rejected(R)[d].at) = Awaited(calls[d].at)
                    /\ calls[d].at = "idle" => Rejected(R)[d].at = "idle"
  BY DEF Rejected
<1> DEFINE k == calls[d]
           done == [k EXCEPT !.at = "done"]
<1>1. k \in CallRecords OBVIOUS
<1>2. Rejected(R)[d] \in {k, done} /\ (Rejected(R)[d] # k => k.at = "suspended")
  BY DEF Rejected
<1>3. done \in CallRecords /\ done.turn = k.turn /\ done.op = k.op /\ done.at = "done"
  <2> HIDE DEF k
  <2> QED BY <1>1 DEF CallRecords
<1>4. Awaited("done") = {} /\ Awaited("suspended") = {}
  BY DEF Awaited
<1> HIDE DEF k, done
<1>5. CASE Rejected(R)[d] = k
  BY <1>1, <1>5 DEF k
<1>6. CASE Rejected(R)[d] = done /\ k.at = "suspended"
  BY <1>3, <1>4, <1>6 DEF k
<1> QED BY <1>2, <1>5, <1>6

LEMMA RejectedKeepsCalls ==
    ASSUME calls \in [Calls -> CallRecords], NEW R, calls' = Rejected(R)
    PROVE  CallsGo({})
BY RejectedGoes DEF CallsGo

LEMMA WokenKeepsCalls ==
    ASSUME calls \in [Calls -> CallRecords], NEW t, NEW op, calls' = Woken(t, op)
    PROVE  CallsGo({})
<1> SUFFICES ASSUME NEW d \in Calls
             PROVE  /\ Woken(t, op)[d] \in CallRecords
                    /\ Woken(t, op)[d].turn = calls[d].turn /\ Woken(t, op)[d].op = calls[d].op
                    /\ Awaited(Woken(t, op)[d].at) = Awaited(calls[d].at)
                    /\ calls[d].at = "idle" => Woken(t, op)[d].at = "idle"
  BY DEF Woken, CallsGo
<1> DEFINE k == calls[d]
           woken == [k EXCEPT !.at = "admitted"]
<1>1. k \in CallRecords OBVIOUS
<1>2. Woken(t, op)[d] \in {k, woken} /\ (Woken(t, op)[d] # k => k.at = "suspended")
  BY DEF Woken
<1>3. /\ woken \in CallRecords /\ woken.turn = k.turn /\ woken.op = k.op
      /\ woken.at = "admitted"
  <2> HIDE DEF k
  <2> QED BY <1>1 DEF CallRecords
<1>4. Awaited("admitted") = {} /\ Awaited("suspended") = {}
  BY DEF Awaited
<1> HIDE DEF k, woken
<1>5. CASE Woken(t, op)[d] = k
  BY <1>1, <1>5 DEF k
<1>6. CASE Woken(t, op)[d] = woken /\ k.at = "suspended"
  BY <1>3, <1>4, <1>6 DEF k
<1> QED BY <1>2, <1>5, <1>6

CallStates == {"idle", "suspended", "admitted", "opening", "claiming", "stating",
               "acting", "projecting", "leaving", "closing", "done"}

LEMMA MovedGoes ==
    ASSUME calls \in [Calls -> CallRecords], NEW c \in Calls, NEW at \in CallStates,
           Moves(c, at)
    PROVE  CallsGo({c}) /\ calls'[c].at = at
<1> DEFINE k == calls[c]
           moved == [k EXCEPT !.at = at]
<1>1. k \in CallRecords OBVIOUS
<1>2. calls' = [calls EXCEPT ![c] = moved]
  BY DEF Moves
<1>3. moved \in CallRecords /\ moved.turn = k.turn /\ moved.op = k.op /\ moved.at = at
  <2> HIDE DEF k
  <2> QED BY <1>1 DEF CallRecords, CallStates
<1> HIDE DEF moved
<1> QED BY <1>2, <1>3 DEF CallsGo

LEMMA LeftGoes ==
    ASSUME calls \in [Calls -> CallRecords], NEW c \in Calls, NEW at \in CallStates,
           NEW R, NEW left \in 0 .. 1,
           \/ calls' = [Rejected(R) EXCEPT ![c].at = at, ![c].left = left]
           \/ calls' = [Rejected(R) EXCEPT ![c].at = at]
    PROVE  CallsGo({c}) /\ calls'[c].at = at
<1> DEFINE all == Rejected(R)
           k == all[c]
           moved == [k EXCEPT !.at = at]
           gone == [k EXCEPT !.at = at, !.left = left]
<1>1. /\ all \in [Calls -> CallRecords]
      /\ \A d \in Calls :
                /\ all[d].turn = calls[d].turn /\ all[d].op = calls[d].op
                /\ Awaited(all[d].at) = Awaited(calls[d].at)
                /\ calls[d].at = "idle" => all[d].at = "idle"
  BY RejectedGoes
<1> HIDE DEF all
<1>2. k \in CallRecords BY <1>1
<1>3. calls' = [all EXCEPT ![c] = moved] \/ calls' = [all EXCEPT ![c] = gone]
  BY DEF all
<1>4. /\ moved \in CallRecords /\ moved.turn = k.turn /\ moved.op = k.op /\ moved.at = at
      /\ gone \in CallRecords /\ gone.turn = k.turn /\ gone.op = k.op /\ gone.at = at
  <2> HIDE DEF k
  <2> QED BY <1>2 DEF CallRecords, CallStates
<1> HIDE DEF moved, gone
<1> QED BY <1>1, <1>3, <1>4 DEF CallsGo

\* "who" has taken its answer, and only it waits for something else.
AskersGo(who) ==
    /\ \A other \in Askers \ {who} :
        /\ Expected(other)' = Expected(other) /\ TurnOf(other)' = TurnOf(other)
        /\ answers'[other] = answers[other]
    /\ who \in Askers =>
        /\ answers'[who] = NoAnswer
        /\ TurnOf(who)' = TurnOf(who) \/ Expected(who)' = {}

LEMMA AskersFollow ==
    ASSUME NEW who \in Askers \union {Nobody}, CallsGo({who}),
           answers \in [Askers -> [code : {"none", "ok", "failed", "lost"}, value : Nat]],
           \A t \in Turns \ {who} : approving'[t] = approving[t],
           \A r \in Requests \ {who} : requests'[r] = requests[r],
           \/ answers' = [answers EXCEPT ![who] = NoAnswer]
           \/ answers' = answers /\ (who \in Askers => answers[who] = NoAnswer)
    PROVE  AskersGo(who)
<1>1. ASSUME NEW other \in Askers \ {who}
      PROVE  /\ Expected(other)' = Expected(other) /\ TurnOf(other)' = TurnOf(other)
             /\ answers'[other] = answers[other]
  <2>1. answers'[other] = answers[other] BY <1>1
  <2>2. Expected(other)' = Expected(other)
    <3>1. CASE other \in Calls
      BY <1>1, <3>1 DEF Expected, CallsGo
    <3>2. CASE other \in Turns /\ other \notin Calls
      BY <1>1, <3>2 DEF Expected
    <3>3. CASE other \in Requests /\ other \notin Calls /\ other \notin Turns
      BY <1>1, <3>3 DEF Expected
    <3> QED BY <1>1, <3>1, <3>2, <3>3, Constants
  <2>3. TurnOf(other)' = TurnOf(other) BY <1>1 DEF TurnOf, CallsGo
  <2> QED BY <2>1, <2>2, <2>3
<1>2. ASSUME who \in Askers
      PROVE  answers'[who] = NoAnswer /\ TurnOf(who)' = TurnOf(who)
  BY <1>2 DEF TurnOf, CallsGo
<1> QED BY <1>1, <1>2 DEF AskersGo

\* An operation that "who" may ask for.
Joining(who, op) ==
    /\ op.by \in {who, Nobody}
    /\ op.kind \in Expected(op.by)'
    /\ Aimed(op)
    /\ op.kind \in Leased => TurnOf(op.by) \in Turns /\ IsLive(TurnOf(op.by))
    /\ op.kind \in {"claim", "budget"} => grants'[TurnOf(op.by)].budget <= op.budget
    /\ op.kind = "takeHuman" => \A t \in Turns : ~IsLive(t)'

TailGoes(who) ==
    \/ tail' = tail
    \/ \E op \in Entries : tail' = Append(tail, op) /\ Joining(who, op)

\* A grant loses, or is the grant of a Turn that begins, or takes the claim
\* "who" asked for.
GrantsGo(who) ==
    /\ grants' \in [Turns -> GrantRecords]
    /\ \A t \in Turns :
        \/ LessOf(grants'[t], grants[t])
        \/ turns[t] = "none" /\ grants'[t].state = "dormant" /\ grants'[t].epoch = 0
        \/ /\ ClaimAnswered(who) /\ TurnOf(who) = t
           /\ grants'[t].epoch = answers[who].value /\ grants'[t].budget = grants[t].budget
           /\ IsLive(t)

\* Agent control stays with an active grant, a takeover was refused, or it is
\* withdrawn.
SessionGoes(who) ==
    \/ /\ session' = session /\ refused' = refused
       /\ \A t \in Turns : grants[t].state = "active" => grants'[t].state = "active"
       /\ ClaimAnswered(who) =>
            /\ Earliest(who) /\ TurnOf(who) \in Turns
            /\ grants'[TurnOf(who)].state = "active"
            /\ grants'[TurnOf(who)].epoch = answers[who].value
    \/ session' = session /\ ~ClaimAnswered(who) /\ (session.mode = "agent" => refused')
    \/ session' = Released(session)
    \/ session' = Preempted(session) /\ \E r \in Requests : requests'[r] # requests[r]

CallerStep(who) ==
    /\ step' = step
    /\ AskersGo(who) /\ TailGoes(who) /\ GrantsGo(who) /\ SessionGoes(who)

LEMMA SessionsAre ==
    ASSUME NEW s \in Sessions
    PROVE  /\ Released(s) \in Sessions
           /\ Released(s).mode = (IF s.mode = "agent" THEN "observer" ELSE s.mode)
           /\ Released(s).epoch >= s.epoch
           /\ Released(s).budget = (IF s.mode = "agent" THEN NoBudget ELSE s.budget)
           /\ Released(s).history = s.history /\ Released(s).target = s.target
           /\ Released(s).page = s.page /\ Released(s).generation = s.generation
           /\ Preempted(s) \in Sessions
           /\ Preempted(s).mode = "observer" /\ Preempted(s).epoch >= s.epoch
           /\ Preempted(s).budget = NoBudget /\ Preempted(s).history = s.history
           /\ Preempted(s).target = s.target /\ Preempted(s).page = NoPage
           /\ Preempted(s).generation = s.generation
<1> DEFINE next == s.epoch + 1
           free == [s EXCEPT !.mode = "observer", !.epoch = next, !.budget = NoBudget]
           broken == [s EXCEPT !.mode = "observer", !.epoch = next, !.budget = NoBudget,
                               !.recovery = "unavailable", !.page = NoPage]
<1>1. next \in Nat /\ next >= s.epoch /\ s.epoch \in Nat
  BY DEF Sessions
<1>2. Released(s) = (IF s.mode = "agent" THEN free ELSE s) /\ Preempted(s) = broken
  BY DEF Released, Preempted
<1> HIDE DEF next
<1>3. /\ free \in Sessions /\ free.mode = "observer" /\ free.epoch = next
      /\ free.budget = NoBudget /\ free.history = s.history /\ free.target = s.target
      /\ free.page = s.page /\ free.generation = s.generation
  BY <1>1 DEF Sessions
<1>4. /\ broken \in Sessions /\ broken.mode = "observer" /\ broken.epoch = next
      /\ broken.budget = NoBudget /\ broken.history = s.history /\ broken.target = s.target
      /\ broken.page = NoPage /\ broken.generation = s.generation
  BY <1>1 DEF Sessions
<1> HIDE DEF free, broken
<1> QED BY <1>1, <1>2, <1>3, <1>4

LEMMA ClaimingIs ==
    \A who \in Askers : "claim" \in Expected(who) <=> who \in Claiming
BY Constants DEF Expected, Awaited, AgentKinds, PublicKinds, Claiming

-----------------------------------------------------------------------------
(* A step of a caller keeps the invariant.                                 *)

LEMMA CallerKeepsInFlight ==
    ASSUME IInv, NEW who \in Askers \union {Nobody}, CallerStep(who),
           who \in Askers => Absent(who)
    PROVE  InFlight'
<1>1. tail \in Seq(Entries) /\ \A i \in Places : tail[i].by \in Askers \union {Nobody}
  BY TailIs DEF IInv, TypeOK, BrokerType, Entries
<1>2. \A by \in Askers \union {Nobody} : by # who \/ by = Nobody => Expected(by)' = Expected(by)
  <2>1. Expected(Nobody)' = Expected(Nobody)
    BY Constants DEF Expected
  <2> QED BY <2>1 DEF CallerStep, AskersGo
<1>3. \A i \in Places, by \in Askers \union {Nobody} :
        by = tail[i].by => tail[i].kind \in Expected(by)'
  <2> SUFFICES ASSUME NEW i \in Places, NEW by \in Askers \union {Nobody}, by = tail[i].by
               PROVE  tail[i].kind \in Expected(by)'
    OBVIOUS
  <2>1. by # who \/ by = Nobody
    BY Constants DEF Absent
  <2>2. tail[i].kind \in Expected(by)
    BY DEF IInv, InFlight
  <2> QED BY <1>2, <2>1, <2>2
<1>4. \A other \in Askers : answers'[other] # NoAnswer =>
        other # who /\ Expected(other)' # {} /\ Absent(other)
  BY DEF CallerStep, AskersGo, IInv, InFlight
<1>5. CASE tail' = tail
  <2>1. Places' = Places BY <1>5 DEF Places
  <2>2. /\ \A i \in Places' :
            /\ tail'[i].kind \in Expected(tail[i].by)'
            /\ Aimed(tail'[i])
        /\ \A i, j \in Places : tail[i].by = tail[j].by /\ tail[i].by # Nobody => i = j
    BY <1>1, <1>3, <1>5, <2>1 DEF IInv, InFlight
  <2>3. \A other \in Askers : Absent(other)' <=> Absent(other)
    BY <1>5, <2>1 DEF Absent
  <2> QED BY <1>4, <1>5, <2>1, <2>2, <2>3 DEF InFlight
<1>6. ASSUME NEW op \in Entries, tail' = Append(tail, op), Joining(who, op)
      PROVE  InFlight'
  <2> DEFINE last == Len(tail) + 1
  <2>1. /\ Places' = Places \union {last} /\ tail'[last] = op
        /\ \A i \in Places : tail'[i] = tail[i] /\ i # last
    BY <1>1, <1>6, TailJoined
  <2>2. op.by = Nobody \/ op.by = who
    BY <1>6 DEF Joining
  <2>3. \A i \in Places : tail[i].by = op.by => op.by = Nobody
    BY <2>2 DEF Absent
  <2>4. \A other \in Askers : answers'[other] # NoAnswer => Absent(other)'
    BY <1>4, <2>1, <2>2, Constants DEF Absent
  <2>5. \A i, j \in Places' :
            (tail[i].by)' = (tail[j].by)' /\ (tail[i].by)' # Nobody => i = j
    BY <2>1, <2>3 DEF IInv, InFlight
  <2>6. \A i \in Places' :
            /\ tail'[i].kind \in Expected(tail[i].by)'
            /\ Aimed(tail'[i])
    <3>1. ASSUME NEW i \in Places
          PROVE  /\ tail'[i].kind \in Expected(tail[i].by)'
                 /\ Aimed(tail'[i])
      BY <1>1, <1>3, <2>1 DEF IInv, InFlight
    <3>2. ASSUME NEW i, i = last
          PROVE  /\ tail'[i].kind \in Expected(tail[i].by)'
                 /\ Aimed(tail'[i])
      BY <1>6, <2>1, <3>2 DEF Joining
    <3> HIDE DEF last
    <3> QED BY <2>1, <3>1, <3>2
  <2> QED BY <1>4, <2>4, <2>5, <2>6 DEF InFlight
<1> QED BY <1>5, <1>6 DEF CallerStep, TailGoes

\* A Turn that has not begun has asked for nothing.
LEMMA NothingOfNew ==
    ASSUME IInv, NEW t \in Turns, turns[t] = "none", NEW who \in Askers, TurnOf(who) = t
    PROVE  Expected(who) = {} /\ ~ClaimAnswered(who)
BY Constants DEF IInv, TurnsOK, TurnOf, Expected, ClaimAnswered

LEMMA CallerKeepsOrder ==
    ASSUME IInv, NEW who \in Askers \union {Nobody}, CallerStep(who),
           who \in Askers => Absent(who)
    PROVE  OrderOK'
<1>1. tail \in Seq(Entries) /\ \A i \in Places : tail[i].by \in Askers \union {Nobody}
  BY TailIs DEF IInv, TypeOK, BrokerType, Entries
<1>2. \A i \in Places : tail[i].kind \in Leased => tail[i].by \in Askers
  <2>1. Expected(Nobody) = {"release"} BY Constants DEF Expected
  <2> QED BY <1>1, <2>1 DEF IInv, InFlight, Leased, AgentKinds
<1>3. \A w \in Askers : w # who => TurnOf(w)' = TurnOf(w)
  BY DEF CallerStep, AskersGo
<1>4. \A t \in Turns, i \in Places : \A op \in {tail[i]} : Foreign(op, t)' <=> Foreign(op, t)
  BY <1>2, <1>3, Constants DEF Foreign, Absent
<1>5. \A w \in Askers : ClaimAnswered(w)' => ClaimAnswered(w) /\ TurnOf(w)' = TurnOf(w)
  BY DEF CallerStep, AskersGo, ClaimAnswered, NoAnswer
<1>6. ASSUME NEW op \in Entries, Joining(who, op), NEW t \in Turns, IsLive(t), IsLive(t)'
      PROVE  ~Foreign(op, t)'
  <2>1. op.kind # "takeHuman" BY <1>6 DEF Joining
  <2>2. ASSUME op.kind \in Leased PROVE TurnOf(op.by)' = t
    <3>1. TurnOf(op.by) \in Turns /\ IsLive(TurnOf(op.by)) BY <1>6, <2>2 DEF Joining
    <3>2. TurnOf(op.by) = t BY <1>6, <3>1 DEF IInv, TurnsOK
    <3>3. op.by \in Askers
      BY <3>1, Constants DEF Joining, TurnOf
    <3>4. Expected(op.by)' # {} BY <1>6 DEF Joining
    <3> QED BY <1>3, <3>2, <3>3, <3>4 DEF CallerStep, AskersGo
  <2> QED BY <2>1, <2>2 DEF Foreign
<1>7. ASSUME NEW t \in Turns, IsLive(t)', IsLive(t)
      PROVE  /\ AllOwn(t) => AllOwn(t)'
             /\ \A i, j \in Places' :
                  i < j /\ tail'[i].kind \in Leased /\ TurnOf(tail[i].by)' = t
                    => ~Foreign(tail[j], t)'
  <2>1. CASE tail' = tail
    <3>1. Places' = Places BY <2>1 DEF Places
    <3>2. AllOwn(t) => AllOwn(t)'
      BY <1>4, <2>1, <3>1 DEF AllOwn
    <3>3. ASSUME NEW i \in Places, NEW j \in Places, i < j, tail[i].kind \in Leased,
                 TurnOf(tail[i].by)' = t
          PROVE  ~Foreign(tail[j], t)'
      <4>1. TurnOf(tail[i].by) = t
        BY <1>2, <1>3, <2>1, <3>3, Constants DEF Absent
      <4>2. ~Foreign(tail[j], t) BY <1>7, <3>3, <4>1 DEF IInv, OrderOK
      <4> QED BY <1>4, <2>1, <4>2
    <3> QED BY <2>1, <3>1, <3>2, <3>3
  <2>2. ASSUME NEW op \in Entries, tail' = Append(tail, op), Joining(who, op)
        PROVE  /\ AllOwn(t) => AllOwn(t)'
               /\ \A i, j \in Places' :
                    i < j /\ tail'[i].kind \in Leased /\ TurnOf(tail[i].by)' = t
                      => ~Foreign(tail[j], t)'
    <3> DEFINE last == Len(tail) + 1
    <3>1. /\ Places' = Places \union {last} /\ tail'[last] = op
          /\ \A i \in Places : tail'[i] = tail[i] /\ i < last
          /\ last \in Int /\ \A i \in Places : i \in Int
      BY <1>1, <2>2, TailJoined, TailIs DEF Places
    <3> HIDE DEF last
    <3>2. ~Foreign(op, t)' BY <1>6, <1>7, <2>2
    <3>3. \A j \in Places' : j \notin Places => ~Foreign(tail[j], t)'
      BY <3>1, <3>2
    <3>4. \A j \in Places : Foreign(tail[j], t)' => Foreign(tail[j], t)
      BY <1>4, <3>1
    <3>5. AllOwn(t) => AllOwn(t)'
      BY <3>3, <3>4 DEF AllOwn
    <3>6. ASSUME NEW i \in Places', NEW j \in Places', i < j, tail'[i].kind \in Leased,
                 TurnOf(tail[i].by)' = t
          PROVE  ~Foreign(tail[j], t)'
      <4>1. CASE j \notin Places BY <3>3, <4>1
      <4>2. CASE j \in Places
        <5>1. i \in Places BY <3>1, <3>6, <4>2
        <5>2. tail'[i] = tail[i] BY <3>1, <5>1
        <5>3. TurnOf(tail[i].by) = t
          BY <1>2, <1>3, <3>6, <5>1, <5>2, Constants DEF Absent
        <5>4. ~Foreign(tail[j], t) BY <1>7, <3>6, <4>2, <5>1, <5>2, <5>3 DEF IInv, OrderOK
        <5> QED BY <3>4, <4>2, <5>4
      <4> QED BY <4>1, <4>2
    <3> QED BY <3>5, <3>6
  <2> QED BY <2>1, <2>2 DEF CallerStep, TailGoes
<1>8. ASSUME NEW t \in Turns, IsLive(t)'
      PROVE  /\ grants'[t].epoch # 0 => AllOwn(t)'
             /\ \A w \in Askers : ClaimAnswered(w)' /\ TurnOf(w)' = t => AllOwn(t)'
             /\ \A i, j \in Places' :
                  i < j /\ tail'[i].kind \in Leased /\ TurnOf(tail[i].by)' = t
                    => ~Foreign(tail[j], t)'
  <2>1. CASE IsLive(t) /\ grants'[t].epoch = grants[t].epoch
    BY <1>5, <1>7, <1>8, <2>1 DEF IInv, OrderOK
  <2>2. CASE /\ ClaimAnswered(who) /\ TurnOf(who) = t /\ IsLive(t)
    <3>1. who \in Askers
      BY <2>2, Constants DEF ClaimAnswered, Expected
    <3>2. AllOwn(t) BY <2>2, <3>1 DEF IInv, OrderOK
    <3> QED BY <1>7, <1>8, <2>2, <3>2
  <2>3. CASE turns[t] = "none" /\ grants'[t].epoch = 0
    <3>1. \A w \in Askers : TurnOf(w) = t => Expected(w) = {} /\ ~ClaimAnswered(w)
      BY <2>3, NothingOfNew
    <3>2. ~IsLive(t) BY <2>3 DEF IInv, TurnsOK
    <3>3. ASSUME NEW i \in Places', tail'[i].kind \in Leased, TurnOf(tail[i].by)' = t
          PROVE  FALSE
      <4>1. ASSUME i \in Places, tail'[i] = tail[i] PROVE FALSE
        <5>1. TurnOf(tail[i].by) = t /\ tail[i].by \in Askers
          BY <1>2, <1>3, <3>3, <4>1, Constants DEF Absent
        <5> QED BY <3>1, <4>1, <5>1 DEF IInv, InFlight
      <4>2. CASE tail' = tail
        BY <3>3, <4>1, <4>2 DEF Places
      <4>3. ASSUME NEW op \in Entries, tail' = Append(tail, op), Joining(who, op) PROVE FALSE
        <5>1. i \in Places \/ tail'[i] = op
          BY <1>1, <3>3, <4>3, TailJoined
        <5>2. i \in Places => tail'[i] = tail[i]
          BY <1>1, <4>3, TailJoined
        <5>3. CASE tail'[i] = op
          <6>1. TurnOf(op.by)' = t /\ op.kind \in Leased BY <3>3, <5>3
          <6>2. TurnOf(op.by) \in Turns /\ IsLive(TurnOf(op.by)) /\ Expected(op.by)' # {}
            BY <4>3, <6>1 DEF Joining
          <6>3. op.by \in Askers BY <6>2, Constants DEF TurnOf, Joining
          <6>4. TurnOf(op.by) = t
            BY <1>3, <6>1, <6>2, <6>3 DEF CallerStep, AskersGo
          <6> QED BY <3>2, <6>2, <6>4
        <5> QED BY <4>1, <5>1, <5>2, <5>3
      <4> QED BY <4>2, <4>3 DEF CallerStep, TailGoes
    <3> QED BY <1>5, <2>3, <3>1, <3>3
  <2> QED BY <1>8, <2>1, <2>2, <2>3 DEF CallerStep, GrantsGo, LessOf, LiveState, IsLive
<1> QED BY <1>8 DEF OrderOK

LEMMA CallerKeepsClaims ==
    ASSUME IInv, TypeOK', NEW who \in Askers \union {Nobody}, CallerStep(who)
    PROVE  ClaimsOK'
<1>1. session \in Sessions /\ session.epoch \in Nat /\ session' \in Sessions
  BY DEF IInv, TypeOK, BrokerType, Sessions
<1>2. /\ session' = session \/ session'.mode # "agent"
      /\ session'.epoch >= session.epoch /\ session'.epoch \in Nat
  BY <1>1, SessionsAre DEF CallerStep, SessionGoes, Sessions
<1>3. \A w \in Askers : ClaimAnswered(w)' => w # who /\ ClaimAnswered(w) /\ answers'[w] = answers[w]
  BY DEF CallerStep, AskersGo, ClaimAnswered, NoAnswer
<1>4. \A w \in Askers : w # who /\ ClaimAnswered(w) => ClaimAnswered(w)' /\ answers'[w] = answers[w]
  BY DEF CallerStep, AskersGo, ClaimAnswered
<1>5. \A w \in Askers : ClaimAnswered(w)' => answers'[w].value \in 1 .. session'.epoch
  BY <1>1, <1>2, <1>3 DEF IInv, ClaimsOK
<1>6. \A w, other \in Askers :
        ClaimAnswered(w)' /\ ClaimAnswered(other)' /\ answers'[w].value = answers'[other].value
            => w = other
  BY <1>3 DEF IInv, ClaimsOK
<1>7. ASSUME session'.mode = "agent"
      PROVE  /\ session'.epoch >= 1
             /\ \/ \E w \in Askers : ClaimAnswered(w)' /\ answers'[w].value = session'.epoch
                \/ /\ \A w \in Askers : ~ClaimAnswered(w)'
                   /\ refused' \/ \E t \in Turns : HoldsSession(t)'
  <2>1. session' = session /\ session.mode = "agent" /\ session.epoch >= 1
    BY <1>2, <1>7 DEF IInv, ClaimsOK
  <2>2. \/ /\ refused' = refused
           /\ \A t \in Turns : grants[t].state = "active" => grants'[t].state = "active"
           /\ ClaimAnswered(who) =>
                /\ Earliest(who) /\ TurnOf(who) \in Turns
                /\ grants'[TurnOf(who)].state = "active"
                /\ grants'[TurnOf(who)].epoch = answers[who].value
        \/ ~ClaimAnswered(who) /\ refused'
    BY <1>1, <2>1, <1>7, SessionsAre DEF CallerStep, SessionGoes
  <2>3. CASE \E w \in Askers : w # who /\ ClaimAnswered(w) /\ answers[w].value = session.epoch
    BY <1>4, <2>1, <2>3
  <2>4. CASE /\ \A w \in Askers : ~ClaimAnswered(w)
             /\ refused \/ \E t \in Turns : HoldsSession(t)
    <3>1. \A w \in Askers : ~ClaimAnswered(w)' BY <1>3, <2>4
    <3>2. ~ClaimAnswered(who)
      BY <2>4, Constants DEF ClaimAnswered, Expected
    <3>3. ASSUME NEW t \in Turns, HoldsSession(t), ~refused' PROVE HoldsSession(t)'
      <4>1. grants'[t].state = "active" BY <2>2, <3>3 DEF HoldsSession
      <4>2. turns[t] # "none"
        BY <3>3 DEF IInv, TurnsOK, HoldsSession, NoGrant
      <4>3. grants'[t].epoch = grants[t].epoch
        BY <3>2, <4>2 DEF CallerStep, GrantsGo, LessOf
      <4> QED BY <2>1, <3>3, <4>1, <4>3 DEF HoldsSession, HoldsControl
    <3>4. refused' \/ \E t \in Turns : HoldsSession(t)'
      BY <2>2, <2>4, <3>3
    <3> QED BY <2>1, <3>1, <3>4
  <2>5. CASE who \in Askers /\ ClaimAnswered(who) /\ answers[who].value = session.epoch
    <3>1. PICK t \in Turns :
            /\ t = TurnOf(who) /\ Earliest(who)
            /\ grants'[t].state = "active" /\ grants'[t].epoch = session.epoch
      BY <2>2, <2>5
    <3>2. HoldsSession(t)'
      BY <2>1, <3>1 DEF HoldsSession, HoldsControl
    <3>3. ASSUME NEW w \in Askers, ClaimAnswered(w)' PROVE FALSE
      <4>1. w # who /\ ClaimAnswered(w) BY <1>3, <3>3
      <4>2. w \in Claiming BY <4>1, ClaimingIs DEF ClaimAnswered
      <4>3. answers[who].value <= answers[w].value
        BY <3>1, <4>1, <4>2 DEF Earliest, ClaimAnswered
      <4>4. answers[w].value \in 1 .. session.epoch BY <4>1 DEF IInv, ClaimsOK
      <4>5. answers[w].value = answers[who].value BY <1>1, <2>5, <4>3, <4>4
      <4> QED BY <2>5, <4>1, <4>5 DEF IInv, ClaimsOK
    <3> QED BY <2>1, <3>1, <3>2, <3>3
  <2> QED BY <2>1, <2>3, <2>4, <2>5 DEF IInv, ClaimsOK
<1> QED BY <1>5, <1>6, <1>7 DEF ClaimsOK

LEMMA CallerKeepsBudgets ==
    ASSUME IInv, TypeOK', NEW who \in Askers \union {Nobody}, CallerStep(who),
           who \in Askers => Absent(who)
    PROVE  BudgetsOK'
<1>1. /\ session \in Sessions /\ session.epoch \in Nat
      /\ tail \in Seq(Entries) /\ \A i \in Places : tail[i] \in Entries
      /\ \A t \in Turns : grants[t].budget \in Int /\ grants'[t].budget \in Int
  BY TailIs, LessIsLess, Constants DEF IInv, TypeOK, BrokerType, Sessions
<1>2. \A w \in Askers : w # who => TurnOf(w)' = TurnOf(w)
  BY DEF CallerStep, AskersGo
<1>3. \A w \in Askers : ClaimAnswered(w)' =>
        ClaimAnswered(w) /\ TurnOf(w)' = TurnOf(w) /\ answers'[w] = answers[w]
  BY DEF CallerStep, AskersGo, ClaimAnswered, NoAnswer
<1>4. ASSUME NEW i \in Places, tail[i].kind \in {"claim", "budget"},
             NEW by, by = tail[i].by
      PROVE  grants'[TurnOf(by)'].budget <= tail[i].budget
  <2>1. by \in Askers
    <3>1. Expected(Nobody) = {"release"} BY Constants DEF Expected
    <3> QED BY <1>1, <1>4, <3>1 DEF IInv, InFlight, Entries
  <2>2. TurnOf(by)' = TurnOf(by) BY <1>2, <1>4, <2>1 DEF Absent
  <2>3. TurnOf(by) \in Turns /\ turns[TurnOf(by)] # "none"
    <3>1. tail[i].kind \in Expected(by) BY <1>4 DEF IInv, InFlight
    <3>2. TurnOf(by) \in Turns
      BY <1>4, <2>1, <3>1, Constants DEF Expected, TurnOf, Awaited, PublicKinds, IInv, TurnsOK
    <3> QED BY <2>1, <3>1, <3>2, NothingOfNew
  <2>4. grants'[TurnOf(by)].budget <= grants[TurnOf(by)].budget
    BY <1>1, <2>3 DEF CallerStep, GrantsGo, LessOf
  <2>5. grants[TurnOf(by)].budget <= tail[i].budget
    BY <1>4 DEF IInv, BudgetsOK
  <2>6. tail[i].budget \in Int
    BY <1>1 DEF Entries, NoBudget
  <2> QED BY <1>1, <2>2, <2>3, <2>4, <2>5, <2>6
<1>5. ASSUME NEW i \in Places', tail'[i].kind \in {"claim", "budget"}
      PROVE  grants'[TurnOf(tail[i].by)'].budget <= tail'[i].budget
  <2>1. CASE i \in Places /\ tail'[i] = tail[i]
    BY <1>4, <1>5, <2>1
  <2>2. CASE tail' = tail
    BY <2>1, <2>2 DEF Places
  <2>3. ASSUME NEW op \in Entries, tail' = Append(tail, op), Joining(who, op)
        PROVE  grants'[TurnOf(tail[i].by)'].budget <= tail'[i].budget
    <3>1. (i \in Places /\ tail'[i] = tail[i]) \/ tail'[i] = op
      BY <1>1, <2>3, TailJoined
    <3>2. CASE tail'[i] = op
      <4>1. /\ TurnOf(op.by) \in Turns
            /\ grants'[TurnOf(op.by)].budget <= op.budget /\ Expected(op.by)' # {}
        BY <1>5, <2>3, <3>2 DEF Joining, Leased
      <4>2. op.by \in Askers BY <4>1, Constants, <2>3 DEF TurnOf, Joining
      <4>3. TurnOf(op.by)' = TurnOf(op.by)
        BY <1>2, <4>1, <4>2 DEF CallerStep, AskersGo
      <4> QED BY <3>2, <4>1, <4>3
    <3> QED BY <2>1, <3>1, <3>2
  <2> QED BY <2>2, <2>3 DEF CallerStep, TailGoes
<1>6. ASSUME session'.budget # NoBudget PROVE session' = session /\ session.mode = "agent"
  BY <1>1, <1>6, SessionsAre DEF CallerStep, SessionGoes, IInv, BudgetsOK
<1>7. ASSUME session'.budget # NoBudget, NEW t \in Turns, Controls(t)'
      PROVE  grants'[t].budget <= session'.budget
  <2>1. session' = session /\ session.budget \in Int
    BY <1>1, <1>6, <1>7 DEF Sessions, NoBudget
  <2>2. \/ grants'[t].epoch = session.epoch
        \/ \E w \in Askers : ClaimAnswered(w) /\ TurnOf(w) = t /\ answers[w].value = session.epoch
    BY <1>3, <1>7, <2>1 DEF Controls
  <2>3. CASE LessOf(grants'[t], grants[t])
    <3>1. Controls(t) BY <1>7, <2>2, <2>3 DEF Controls, LessOf, LiveState, IsLive
    <3>2. grants[t].budget <= session.budget BY <1>7, <2>1, <3>1 DEF IInv, BudgetsOK
    <3> QED BY <1>1, <2>1, <2>3, <3>2 DEF LessOf
  <2>4. CASE turns[t] = "none" /\ grants'[t].epoch = 0
    <3>1. \A w \in Askers : TurnOf(w) = t => ~ClaimAnswered(w)
      BY <2>4, NothingOfNew
    <3>2. session.epoch = 0 BY <2>2, <2>4, <3>1
    <3> QED BY <1>6, <1>7, <3>2 DEF IInv, ClaimsOK
  <2>5. CASE /\ ClaimAnswered(who) /\ TurnOf(who) = t /\ IsLive(t)
             /\ grants'[t].epoch = answers[who].value /\ grants'[t].budget = grants[t].budget
    <3>1. who \in Askers BY <2>5, Constants DEF ClaimAnswered, Expected
    <3>2. Controls(t) BY <2>2, <2>5, <3>1 DEF Controls
    <3>3. grants[t].budget <= session.budget BY <1>7, <2>1, <3>2 DEF IInv, BudgetsOK
    <3> QED BY <2>1, <2>5, <3>3
  <2> QED BY <2>3, <2>4, <2>5 DEF CallerStep, GrantsGo
<1> QED BY <1>5, <1>6, <1>7 DEF BudgetsOK

LEMMA CallerKeepsWork ==
    ASSUME IInv, TypeOK', NEW who \in Askers \union {Nobody}, CallerStep(who)
    PROVE  WorkOK'
<1>1. session \in Sessions /\ tail \in Seq(Entries) /\ step' = step
  BY DEF IInv, TypeOK, BrokerType, CallerStep
<1>2. CASE step = "queued"
  BY <1>1, <1>2 DEF WorkOK
<1>3. CASE step # "queued"
  <2>1. tail # <<>> BY <1>3 DEF IInv, WorkOK
  <2>2. tail' # <<>> /\ tail'[1] = tail[1]
    <3>1. CASE tail' = tail BY <2>1, <3>1
    <3>2. ASSUME NEW op \in Entries, tail' = Append(tail, op) PROVE tail' # <<>> /\ tail'[1] = tail[1]
      BY <1>1, <2>1, <3>2, TailJoined
    <3> QED BY <3>1, <3>2 DEF CallerStep, TailGoes
  <2>3. /\ session'.mode = "agent" => session.mode = "agent"
        /\ session.mode = "observer" => session'.mode = "observer"
        /\ session'.history = session.history /\ session'.target = session.target
        /\ session'.generation = session.generation
        /\ session.page = NoPage => session'.page = NoPage
    BY <1>1, SessionsAre DEF CallerStep, SessionGoes
  <2> QED BY <1>1, <1>3, <2>1, <2>2, <2>3 DEF IInv, WorkOK
<1> QED BY <1>2, <1>3

LEMMA CallerKeeps ==
    ASSUME IInv, TypeOK', TurnsOK', NEW who \in Askers \union {Nobody}, CallerStep(who),
           who \in Askers => Absent(who)
    PROVE  IInv'
BY CallerKeepsInFlight, CallerKeepsOrder, CallerKeepsClaims, CallerKeepsBudgets,
   CallerKeepsWork DEF IInv

-----------------------------------------------------------------------------
(* The steps of a call are steps of a caller.                              *)

LEMMA OperationIs ==
    ASSUME NEW kind \in Kinds, NEW by \in Askers \union {Nobody}
    PROVE  /\ Operation(kind, by) \in Entries
           /\ Operation(kind, by).kind = kind /\ Operation(kind, by).by = by
BY DEF Operation, Entries

LEMMA KindsAre ==
    /\ {"claim", "release", "state", "budget", "open"} \subseteq Kinds
    /\ AgentKinds \subseteq Kinds /\ PublicKinds \subseteq Kinds
    /\ AgentKinds = {"act", "agentBack", "agentClose"}
    /\ {"release", "state", "open"} \intersect Leased = {}
    /\ PublicKinds \intersect Leased = {}
BY DEF Kinds, AgentKinds, PublicKinds, Leased

\* What a call joins to the tail.
Joins(c, kind, op) ==
    op \in Entries /\ tail' = Append(tail, op) /\ op.kind = kind /\ op.by = c

LEMMA AsksPlain ==
    ASSUME NEW c \in Askers, NEW kind \in Kinds, NEW by \in Askers \union {Nobody},
           Asks(c, Operation(kind, by))
    PROVE  \E op : Joins(c, kind, op)
<1> DEFINE plain == Operation(kind, by)
           op == [plain EXCEPT !.by = c]
<1>1. plain \in Entries /\ plain.kind = kind
  BY OperationIs
<1> HIDE DEF plain
<1>2. op \in Entries /\ op.kind = kind /\ op.by = c
  BY <1>1 DEF Entries
<1>3. tail' = Append(tail, op)
  BY DEF Asks, Join, plain
<1> QED BY <1>2, <1>3 DEF Joins

LEMMA AsksOpen ==
    ASSUME NEW c \in Askers, NEW alias \in Aliases,
           Asks(c, [Operation("open", c) EXCEPT !.target = alias])
    PROVE  \E op : Joins(c, "open", op) /\ op.target = alias
<1> DEFINE plain == Operation("open", c)
           aimed == [plain EXCEPT !.target = alias]
           op == [aimed EXCEPT !.by = c]
<1>1. plain \in Entries /\ plain.kind = "open"
  BY OperationIs, KindsAre
<1> HIDE DEF plain
<1>2. aimed \in Entries /\ aimed.kind = "open" /\ aimed.target = alias
  BY <1>1 DEF Entries
<1>3. tail' = Append(tail, op)
  BY DEF Asks, Join, plain
<1> HIDE DEF aimed
<1>4. op \in Entries /\ op.kind = "open" /\ op.by = c /\ op.target = alias
  BY <1>2 DEF Entries
<1> QED BY <1>3, <1>4 DEF Joins

LEMMA AsksClaim ==
    ASSUME NEW c \in Askers, NEW budget \in Nat,
           \/ Asks(c, [Operation("claim", c) EXCEPT !.budget = budget])
           \/ tail' = Join(tail, [Operation("claim", c) EXCEPT !.budget = budget])
    PROVE  \E op : Joins(c, "claim", op) /\ op.budget = budget
<1> DEFINE plain == Operation("claim", c)
           priced == [plain EXCEPT !.budget = budget]
           op == [priced EXCEPT !.by = c]
<1>1. plain \in Entries /\ plain.kind = "claim" /\ plain.by = c
  BY OperationIs, KindsAre
<1> HIDE DEF plain
<1>2. priced \in Entries /\ priced.kind = "claim" /\ priced.budget = budget /\ priced.by = c
  BY <1>1 DEF Entries
<1>3. tail' = Append(tail, op) \/ tail' = Append(tail, priced)
  BY DEF Asks, Join, plain
<1> HIDE DEF priced
<1>4. op \in Entries /\ op.kind = "claim" /\ op.by = c /\ op.budget = budget
  BY <1>2 DEF Entries
<1> QED BY <1>2, <1>3, <1>4 DEF Joins

LEMMA AsksProjection ==
    ASSUME NEW c \in Askers, NEW grant \in GrantRecords, Asks(c, Projection(grant))
    PROVE  \E op : Joins(c, "budget", op) /\ op.budget = grant.budget
<1> DEFINE e == grant.epoch
           b == grant.budget
           plain == Operation("budget", Nobody)
           priced == [plain EXCEPT !.epoch = e, !.budget = b]
           op == [priced EXCEPT !.by = c]
<1>1. plain \in Entries /\ plain.kind = "budget" /\ plain.by = Nobody
  BY OperationIs, KindsAre
<1>2. e \in Nat /\ b \in Nat
  BY LessIsLess, Constants
<1> HIDE DEF plain, e, b
<1>3. priced \in Entries /\ priced.kind = "budget" /\ priced.budget = b
  BY <1>1, <1>2 DEF Entries
<1>4. tail' = Append(tail, op)
  BY DEF Asks, Join, Projection, plain, e, b
<1> HIDE DEF priced
<1>5. op \in Entries /\ op.kind = "budget" /\ op.by = c /\ op.budget = b
  BY <1>3 DEF Entries
<1> QED BY <1>4, <1>5 DEF Joins, b

LEMMA CallIs ==
    ASSUME IInv, NEW c \in Calls, calls[c].at # "idle"
    PROVE  /\ calls[c].turn \in Turns /\ turns[calls[c].turn] # "none"
           /\ calls[c].op \in Operations
           /\ c \in Askers /\ TurnOf(c) = calls[c].turn
           /\ answers[c] # NoAnswer \/ Expected(c) = {} => Absent(c)
<1>1. c \in Askers /\ TurnOf(c) = calls[c].turn BY Constants DEF TurnOf
<1>2. answers[c] # NoAnswer \/ Expected(c) = {} => Absent(c)
  BY <1>1 DEF IInv, InFlight, Absent
<1> QED BY <1>1, <1>2 DEF IInv, TurnsOK

LEMMA TailTyped ==
    ASSUME IInv, NEW who, TailGoes(who) PROVE tail' \in Seq(Entries)
BY TailJoined DEF TailGoes, IInv, TypeOK, BrokerType

\* A step of call c of Turn t that leaves "new" of its grant.
LEMMA CallFollows ==
    ASSUME IInv, NEW c \in Calls, calls[c].at # "idle", Absent(c),
           NEW t, t = calls[c].turn, NEW new \in GrantRecords,
           grants' = [grants EXCEPT ![t] = new],
           \/ LessOf(new, grants[t])
           \/ /\ ClaimAnswered(c) /\ IsLive(t)
              /\ new.epoch = answers[c].value /\ new.budget = grants[t].budget,
           CallsGo({c}), TailGoes(c),
           \/ /\ session' = session
              /\ grants[t].state = "active" => new.state = "active"
              /\ ClaimAnswered(c) =>
                    Earliest(c) /\ new.state = "active" /\ new.epoch = answers[c].value
           \/ session' = Released(session),
           \/ answers' = [answers EXCEPT ![c] = NoAnswer]
           \/ answers' = answers /\ answers[c] = NoAnswer,
           UNCHANGED callFrame, balance' \in [Turns \X Operations -> Int]
    PROVE  IInv' /\ CallerStep(c)
<1>1. /\ t \in Turns /\ turns[t] # "none" /\ c \in Askers /\ TurnOf(c) = t
  BY CallIs
<1>2. UNCHANGED <<step, turns, requests, approving, refused, faults>>
  BY DEF callFrame
<1>3. /\ grants \in [Turns -> GrantRecords] /\ calls \in [Calls -> CallRecords]
      /\ answers \in [Askers -> [code : {"none", "ok", "failed", "lost"}, value : Nat]]
      /\ session \in Sessions
  BY DEF IInv, TypeOK, BrokerType
<1>4. /\ grants' \in [Turns -> GrantRecords] /\ grants'[t] = new
      /\ \A u \in Turns : u # t => grants'[u] = grants[u]
  BY <1>1, <1>3
<1>5. \A u \in Turns : u # t => LessOf(grants'[u], grants[u])
  BY <1>3, <1>4, LessIsLess
<1>6. AskersGo(c)
  BY <1>1, <1>2, <1>3, AskersFollow
<1>7. GrantsGo(c)
  BY <1>1, <1>4, <1>5 DEF GrantsGo
<1>8. SessionGoes(c)
  BY <1>1, <1>2, <1>4 DEF SessionGoes
<1>9. CallerStep(c)
  BY <1>2, <1>6, <1>7, <1>8 DEF CallerStep
<1>10. TypeOK'
  <2>1. session' \in Sessions BY <1>3, SessionsAre
  <2>2. tail' \in Seq(Entries) BY TailTyped
  <2>3. answers' \in [Askers -> [code : {"none", "ok", "failed", "lost"}, value : Nat]]
    BY <1>1, <1>3 DEF NoAnswer
  <2>4. BrokerType' BY <1>2, <2>1, <2>2, <2>3 DEF BrokerType, IInv, TypeOK
  <2> QED BY <1>2, <1>4, <2>4 DEF TypeOK, CallsGo, IInv
<1>11. TurnsOK'
  <2>1. \A u \in Turns : IsLive(u)' => IsLive(u)
    BY <1>4, <1>5 DEF LessOf, LiveState, IsLive
  <2>2. \A d \in Calls : calls'[d].turn = calls[d].turn /\ calls'[d].op = calls[d].op
            /\ (calls'[d].at # "idle" => calls[d].at # "idle")
    BY DEF CallsGo
  <2> QED BY <1>1, <1>2, <1>4, <2>1, <2>2 DEF IInv, TurnsOK
<1> QED BY <1>1, <1>9, <1>10, <1>11, CallerKeeps

-----------------------------------------------------------------------------

\* #revoke withdraws the grants of some Turns and the Agent's control.
LEMMA RevokesGoes ==
    ASSUME IInv, NEW R, NEW by \in Askers \union {Nobody}, Revokes(R, by)
    PROVE  /\ grants' \in [Turns -> GrantRecords]
           /\ \A t \in Turns :
                /\ LessOf(grants'[t], grants[t])
                /\ t \in R => grants'[t] = Withdrawn(grants[t]) /\ ~IsLive(t)'
                /\ t \notin R => grants'[t] = grants[t]
           /\ session' = Released(session)
           /\ \E op : Joins(by, "release", op)
<1>1. grants' = [t \in Turns |-> IF t \in R THEN Withdrawn(grants[t]) ELSE grants[t]]
  BY DEF Revokes
<1>2. \A t \in Turns : grants[t] \in GrantRecords
  BY DEF IInv, TypeOK
<1>3. \A t \in Turns : LessOf(Withdrawn(grants[t]), grants[t]) /\ Withdrawn(grants[t]).state = "revoked"
                       /\ LessOf(grants[t], grants[t])
  BY <1>2, WithdrawnIsLess, LessIsLess
<1>4. \E op : Joins(by, "release", op)
  <2>1. Operation("release", by) \in Entries /\ Operation("release", by).kind = "release"
        /\ Operation("release", by).by = by
    BY OperationIs, KindsAre
  <2> QED BY <2>1 DEF Revokes, Join, Joins
<1> QED BY <1>1, <1>2, <1>3, <1>4 DEF Revokes, LessOf, LiveState, IsLive

LEMMA JoinedRelease ==
    ASSUME NEW who, NEW by \in {who, Nobody}, \E op : Joins(by, "release", op),
           "release" \in Expected(by)'
    PROVE  TailGoes(who)
BY KindsAre DEF Joins, TailGoes, Joining, Aimed

LEMMA LeavesFollows ==
    ASSUME IInv, NEW c \in Calls, calls[c].at # "idle", Absent(c),
           NEW at \in {"leaving", "closing"}, NEW left \in 0 .. 1, Leaves(c, at, left),
           \/ answers' = [answers EXCEPT ![c] = NoAnswer]
           \/ answers' = answers /\ answers[c] = NoAnswer,
           UNCHANGED callFrame, balance' \in [Turns \X Operations -> Int]
    PROVE  IInv' /\ CallerStep(c)
<1> DEFINE t == calls[c].turn
           new == Withdrawn(grants[t])
<1>1. t \in Turns /\ c \in Askers BY CallIs
<1>2. /\ grants' \in [Turns -> GrantRecords]
      /\ \A u \in Turns :
            /\ u \in {t} => grants'[u] = Withdrawn(grants[u])
            /\ u \notin {t} => grants'[u] = grants[u]
      /\ session' = Released(session) /\ \E op : Joins(c, "release", op)
  BY <1>1, RevokesGoes DEF Leaves
<1>3. grants[t] \in GrantRecords /\ grants \in [Turns -> GrantRecords]
  BY <1>1 DEF IInv, TypeOK
<1>4. new \in GrantRecords /\ LessOf(new, grants[t])
  BY <1>3, WithdrawnIsLess DEF LessOf
<1>5. grants' = [grants EXCEPT ![t] = new]
  BY <1>1, <1>2, <1>3
<1>6. CallsGo({c}) /\ calls'[c].at = at
  BY LeftGoes DEF Leaves, CallStates, IInv, TypeOK
<1>7. TailGoes(c)
  <2>1. "release" \in Expected(c)' BY <1>6 DEF Expected, Awaited
  <2> QED BY <1>2, <2>1, JoinedRelease
<1> HIDE DEF new
<1> QED BY <1>1, <1>2, <1>4, <1>5, <1>6, <1>7, CallFollows

\* What the finally of a call does to the grant it leaves.
LEMMA EndsGoes ==
    ASSUME IInv, NEW c \in Calls, calls[c].at # "idle", NEW grant \in GrantRecords,
           NEW t, t = calls[c].turn, grant.state = "active" => IsLive(t), Ends(c, grant)
    PROVE  /\ CallsGo({c}) /\ TailGoes(c)
           /\ \/ grants' = [grants EXCEPT ![t] = grant] /\ session' = session
              \/ grants' = [grants EXCEPT ![t] = Withdrawn(grant)] /\ session' = Released(session)
<1>1. t \in Turns /\ c \in Askers /\ TurnOf(c) = t /\ calls \in [Calls -> CallRecords]
      /\ grants \in [Turns -> GrantRecords]
  BY CallIs DEF IInv, TypeOK
<1>2. CASE /\ grants' = [grants EXCEPT ![t] = Withdrawn(grant)]
           /\ session' = Released(session)
           /\ Asks(c, Operation("release", c))
           /\ calls' = [Rejected({t}) EXCEPT ![c].at = "closing"]
  <2>1. \E op : Joins(c, "release", op) BY <1>1, <1>2, AsksPlain, KindsAre
  <2>2. CallsGo({c}) /\ calls'[c].at = "closing"
    <3>1. "closing" \in CallStates /\ 0 \in 0 .. 1 BY DEF CallStates
    <3> QED BY <1>1, <1>2, <3>1, LeftGoes
  <2>3. "release" \in Expected(c)' BY <2>2 DEF Expected, Awaited
  <2> QED BY <1>2, <2>1, <2>2, <2>3, JoinedRelease
<1>3. CASE /\ grants' = [grants EXCEPT ![t] = grant] /\ session' = session
           /\ grant.state = "active" /\ Asks(c, Projection(grant)) /\ Moves(c, "closing")
  <2>1. PICK op : Joins(c, "budget", op) /\ op.budget = grant.budget
    BY <1>1, <1>3, AsksProjection
  <2>2. CallsGo({c}) /\ calls'[c].at = "closing"
    BY <1>1, <1>3, MovedGoes DEF CallStates
  <2>3. "budget" \in Expected(c)' BY <2>2 DEF Expected, Awaited
  <2>4. grants'[t] = grant /\ grant.budget \in Int
    BY <1>1, <1>3, LessIsLess
  <2>5. Joining(c, op)
    BY <1>1, <1>3, <2>1, <2>3, <2>4 DEF Joins, Joining, Aimed
  <2> QED BY <1>3, <2>1, <2>2, <2>5 DEF TailGoes, Joins
<1>4. CASE /\ grants' = [grants EXCEPT ![t] = grant] /\ session' = session
           /\ Moves(c, "done") /\ UNCHANGED tail
  BY <1>1, <1>4, MovedGoes DEF CallStates, TailGoes
<1> QED BY <1>2, <1>3, <1>4 DEF Ends

\* A call that projects the budget it has left, or ends if there is none.
LEMMA ProjectsGoes ==
    ASSUME IInv, NEW c \in Calls, calls[c].at # "idle", NEW grant \in GrantRecords,
           NEW t, t = calls[c].turn, IsLive(t), Projects(c, grant)
    PROVE  /\ CallsGo({c}) /\ TailGoes(c)
           /\ \/ grants' = [grants EXCEPT ![t] = grant] /\ session' = session
              \/ grants' = [grants EXCEPT ![t] = Withdrawn(grant)] /\ session' = Released(session)
<1>1. t \in Turns /\ c \in Askers /\ TurnOf(c) = t /\ calls \in [Calls -> CallRecords]
      /\ grants \in [Turns -> GrantRecords]
  BY CallIs DEF IInv, TypeOK
<1>2. CASE Ends(c, grant)
  BY <1>2, EndsGoes
<1>3. CASE /\ grants' = [grants EXCEPT ![t] = grant] /\ session' = session
           /\ Asks(c, Projection(grant)) /\ Moves(c, "projecting")
  <2>1. PICK op : Joins(c, "budget", op) /\ op.budget = grant.budget
    BY <1>1, <1>3, AsksProjection
  <2>2. CallsGo({c}) /\ calls'[c].at = "projecting"
    BY <1>1, <1>3, MovedGoes DEF CallStates
  <2>3. "budget" \in Expected(c)' BY <2>2 DEF Expected, Awaited
  <2>4. grants'[t] = grant /\ grant.budget \in Int
    BY <1>1, <1>3, LessIsLess
  <2>5. Joining(c, op)
    BY <1>1, <1>3, <2>1, <2>3, <2>4 DEF Joins, Joining, Aimed
  <2> QED BY <1>3, <2>1, <2>2, <2>5 DEF TailGoes, Joins
<1> QED BY <1>2, <1>3 DEF Projects

\* A call that ends, or projects, with a grant that has gained nothing.
LEMMA EndsFollows ==
    ASSUME IInv, NEW c \in Calls, calls[c].at # "idle", Absent(c), ~ClaimAnswered(c),
           NEW t, t = calls[c].turn, NEW grant, LessOf(grant, grants[t]),
           grant.state = grants[t].state,
           Ends(c, grant) \/ (Projects(c, grant) /\ IsLive(t)),
           \/ answers' = [answers EXCEPT ![c] = NoAnswer]
           \/ answers' = answers /\ answers[c] = NoAnswer,
           UNCHANGED callFrame, balance' \in [Turns \X Operations -> Int]
    PROVE  IInv' /\ CallerStep(c)
<1>1. t \in Turns /\ grants \in [Turns -> GrantRecords] /\ grant \in GrantRecords
  BY CallIs DEF IInv, TypeOK, LessOf
<1>2. grant.state = "active" => IsLive(t) BY DEF LessOf, LiveState, IsLive
<1>3. /\ CallsGo({c}) /\ TailGoes(c)
      /\ \/ grants' = [grants EXCEPT ![t] = grant] /\ session' = session
         \/ grants' = [grants EXCEPT ![t] = Withdrawn(grant)] /\ session' = Released(session)
  BY <1>1, <1>2, EndsGoes, ProjectsGoes
<1>4. CASE grants' = [grants EXCEPT ![t] = grant] /\ session' = session
  BY <1>1, <1>3, <1>4, CallFollows
<1>5. CASE grants' = [grants EXCEPT ![t] = Withdrawn(grant)] /\ session' = Released(session)
  <2>1. PICK new : new = Withdrawn(grant) OBVIOUS
  <2>2. LessOf(new, grants[t]) /\ new \in GrantRecords
    BY <1>1, <2>1, WithdrawnIsLess, LessIsLess DEF LessOf
  <2> QED BY <1>1, <1>3, <1>5, <2>1, <2>2, CallFollows
<1> QED BY <1>3, <1>4, <1>5

\* A call that moves on and leaves its grant as it is.
LEMMA MovesFollows ==
    ASSUME IInv, NEW c \in Calls, calls[c].at # "idle", Absent(c), ~ClaimAnswered(c),
           CallsGo({c}), TailGoes(c), UNCHANGED <<grants, session>>,
           \/ answers' = [answers EXCEPT ![c] = NoAnswer]
           \/ answers' = answers /\ answers[c] = NoAnswer,
           UNCHANGED callFrame, balance' \in [Turns \X Operations -> Int]
    PROVE  IInv' /\ CallerStep(c)
<1>1. PICK t : t = calls[c].turn OBVIOUS
<1>2. PICK new : new = grants[t] OBVIOUS
<1>3. t \in Turns /\ grants \in [Turns -> GrantRecords]
  BY <1>1, CallIs DEF IInv, TypeOK
<1>4. new \in GrantRecords /\ LessOf(new, grants[t]) /\ grants' = [grants EXCEPT ![t] = new]
  BY <1>2, <1>3, LessIsLess
<1> QED BY <1>1, <1>2, <1>4, CallFollows

LEMMA TakesIs ==
    ASSUME IInv, NEW c \in Calls, NEW at \in CallStates \ {"idle"}, Takes(c, at)
    PROVE  /\ calls[c].at = at /\ calls[c].at # "idle" /\ Absent(c) /\ c \in Askers
           /\ answers' = [answers EXCEPT ![c] = NoAnswer]
           /\ UNCHANGED callFrame /\ balance' \in [Turns \X Operations -> Int]
           /\ ClaimAnswered(c) => at = "claiming"
           /\ calls[c].turn \in Turns /\ TurnOf(c) = calls[c].turn
           /\ grants[calls[c].turn] \in GrantRecords
<1>1. calls[c].at = at /\ at # "idle" BY DEF Takes
<1>2. Absent(c) BY <1>1, CallIs DEF Takes
<1>3. ClaimAnswered(c) => at = "claiming"
  BY <1>1 DEF ClaimAnswered, Expected, Awaited, AgentKinds
<1>4. balance' \in [Turns \X Operations -> Int] BY DEF Takes, IInv, TypeOK
<1> QED BY <1>1, <1>2, <1>3, <1>4, CallIs DEF Takes, IInv, TypeOK

LEMMA OpenedFollows ==
    ASSUME IInv, NEW c \in Calls, Opened(c) PROVE IInv' /\ CallerStep(c)
<1>1. /\ calls[c].at = "opening" /\ Absent(c) /\ c \in Askers /\ ~ClaimAnswered(c)
      /\ answers' = [answers EXCEPT ![c] = NoAnswer]
      /\ UNCHANGED callFrame /\ balance' \in [Turns \X Operations -> Int]
      /\ calls[c].turn \in Turns /\ TurnOf(c) = calls[c].turn
      /\ grants[calls[c].turn] \in GrantRecords
  <2>1. Takes(c, "opening") BY DEF Opened
  <2>2. "opening" \in CallStates \ {"idle"} BY DEF CallStates
  <2> QED BY <2>1, <2>2, TakesIs
<1> DEFINE t == calls[c].turn
<1>2. CASE /\ IsCurrent(t) /\ Moves(c, "claiming") /\ UNCHANGED <<grants, session>>
           /\ Asks(c, [Operation("claim", c) EXCEPT !.budget = grants[t].budget])
  <2>1. PICK b \in Nat : b = grants[t].budget
    BY <1>1, LessIsLess, Constants
  <2>2. Asks(c, [Operation("claim", c) EXCEPT !.budget = b]) BY <1>2, <2>1
  <2>3. PICK op : Joins(c, "claim", op) /\ op.budget = b
    BY <1>1, <2>2, AsksClaim
  <2>4. CallsGo({c}) /\ calls'[c].at = "claiming"
    BY <1>2, MovedGoes DEF CallStates, IInv, TypeOK
  <2>5. "claim" \in Expected(c)' BY <2>4 DEF Expected, Awaited
  <2>6. Joining(c, op)
    BY <1>1, <1>2, <2>1, <2>3, <2>5 DEF Joins, Joining, Aimed, IsCurrent, IsLive
  <2>7. TailGoes(c) BY <2>3, <2>6 DEF TailGoes, Joins
  <2> QED BY <1>1, <1>2, <2>4, <2>7, MovesFollows
<1>3. CASE \E left \in 0 .. 1 : Leaves(c, "leaving", left)
  BY <1>1, <1>3, LeavesFollows
<1>4. 0 \in 0 .. 1 /\ 1 \in 0 .. 1 OBVIOUS
<1> QED BY <1>2, <1>3, <1>4 DEF Opened

LEMMA ClaimTakenFollows ==
    ASSUME IInv, NEW c \in Calls, ClaimTaken(c) PROVE IInv' /\ CallerStep(c)
<1>1. /\ calls[c].at = "claiming" /\ Absent(c) /\ c \in Askers
      /\ answers' = [answers EXCEPT ![c] = NoAnswer]
      /\ UNCHANGED callFrame /\ balance' \in [Turns \X Operations -> Int]
      /\ calls[c].turn \in Turns /\ TurnOf(c) = calls[c].turn
      /\ grants[calls[c].turn] \in GrantRecords /\ Earliest(c)
  <2>1. Takes(c, "claiming") /\ Earliest(c) BY DEF ClaimTaken
  <2>2. "claiming" \in CallStates \ {"idle"} BY DEF CallStates
  <2> QED BY <2>1, <2>2, TakesIs
<1>2. PICK t : t = calls[c].turn OBVIOUS
<1>3. CASE /\ answers[c].code = "ok" /\ IsCurrent(t)
           /\ Projects(c, [grants[t] EXCEPT !.epoch = answers[c].value])
  <2>1. PICK v \in Nat : v = answers[c].value
    BY <1>1 DEF IInv, TypeOK, BrokerType
  <2>2. PICK g \in GrantRecords : g = grants[t] BY <1>1, <1>2
  <2>3. PICK grant : grant = [g EXCEPT !.epoch = v] OBVIOUS
  <2>4. /\ grant \in GrantRecords /\ grant.state = g.state /\ grant.budget = g.budget
        /\ grant.epoch = v
    BY <2>3 DEF GrantRecords
  <2>5. IsLive(t) /\ grants[t].state = "active" BY <1>3 DEF IsCurrent, IsLive
  <2>6. /\ CallsGo({c}) /\ TailGoes(c)
        /\ \/ grants' = [grants EXCEPT ![t] = grant] /\ session' = session
           \/ grants' = [grants EXCEPT ![t] = Withdrawn(grant)] /\ session' = Released(session)
    <3>1. Projects(c, grant) BY <1>3, <2>1, <2>2, <2>3
    <3>2. calls[c].at # "idle" BY <1>1
    <3> QED BY <1>2, <2>4, <2>5, <3>1, <3>2, ProjectsGoes
  <2>7. ClaimAnswered(c)
    BY <1>1, <1>3 DEF ClaimAnswered, Expected, Awaited
  <2>8. CASE grants' = [grants EXCEPT ![t] = grant] /\ session' = session
    BY <1>1, <1>2, <2>1, <2>2, <2>4, <2>5, <2>6, <2>7, <2>8, CallFollows
  <2>9. CASE grants' = [grants EXCEPT ![t] = Withdrawn(grant)] /\ session' = Released(session)
    <3>1. PICK new : new = Withdrawn(grant) OBVIOUS
    <3>2. /\ new \in GrantRecords /\ new.budget = grants[t].budget /\ new.epoch = v
      <4>1. new.budget = grant.budget /\ new.epoch = grant.epoch
        BY <2>4, <3>1 DEF Withdrawn, GrantRecords
      <4> QED BY <2>2, <2>4, <3>1, <4>1, WithdrawnIsLess DEF LessOf
    <3> QED BY <1>1, <1>2, <2>1, <2>5, <2>6, <2>7, <2>9, <3>1, <3>2, CallFollows
  <2> QED BY <2>6, <2>8, <2>9
<1>4. CASE \E left \in 0 .. 1 : Leaves(c, "leaving", left)
  BY <1>1, <1>4, LeavesFollows
<1>5. 0 \in 0 .. 1 /\ 1 \in 0 .. 1 OBVIOUS
<1> QED BY <1>2, <1>3, <1>4, <1>5 DEF ClaimTaken

LEMMA StatedFollows ==
    ASSUME IInv, NEW c \in Calls, Stated(c) PROVE IInv' /\ CallerStep(c)
<1>1. /\ calls[c].at = "stating" /\ Absent(c) /\ c \in Askers /\ ~ClaimAnswered(c)
      /\ answers' = [answers EXCEPT ![c] = NoAnswer]
      /\ UNCHANGED callFrame /\ balance' \in [Turns \X Operations -> Int]
      /\ calls[c].turn \in Turns /\ TurnOf(c) = calls[c].turn
      /\ grants[calls[c].turn] \in GrantRecords
  <2>1. Takes(c, "stating") BY DEF Stated
  <2>2. "stating" \in CallStates \ {"idle"} BY DEF CallStates
  <2> QED BY <2>1, <2>2, TakesIs
<1> DEFINE t == calls[c].turn
<1>0. PICK kind : kind = AgentKind(calls[c].op) OBVIOUS
<1>2. CASE /\ IsCurrent(t) /\ Moves(c, "acting") /\ UNCHANGED <<grants, session>>
           /\ Asks(c, [Operation(kind, c) EXCEPT !.generation = answers[c].value,
                                                 !.epoch = grants[t].epoch])
  <2>1. PICK e \in Nat : e = grants[t].epoch
    BY <1>1, LessIsLess
  <2>2. PICK g \in Nat : g = answers[c].value
    BY <1>1 DEF IInv, TypeOK, BrokerType
  <2>3. kind \in AgentKinds /\ kind \in Kinds
    BY <1>0, KindsAre DEF AgentKind
  <2> DEFINE plain == Operation(kind, c)
             known == [plain EXCEPT !.generation = g, !.epoch = e]
             asked == [known EXCEPT !.by = c]
  <2>4. plain \in Entries /\ plain.kind = kind /\ g \in Int
    BY <1>1, <2>3, OperationIs
  <2>5. PICK op : Joins(c, kind, op) /\ op.epoch = e
    <3>1. tail' = Append(tail, asked)
      BY <1>0, <1>2, <2>1, <2>2 DEF Asks, Join
    <3> HIDE DEF plain
    <3>2. known \in Entries BY <2>4 DEF Entries
    <3>3. known.kind = kind /\ known.epoch = e BY <2>4 DEF Entries
    <3> HIDE DEF known
    <3>4. asked \in Entries /\ asked.kind = kind /\ asked.epoch = e /\ asked.by = c
      BY <1>1, <3>2, <3>3 DEF Entries
    <3> QED BY <3>1, <3>4 DEF Joins
  <2>6. CallsGo({c}) /\ calls'[c].at = "acting"
    BY <1>2, MovedGoes DEF CallStates, IInv, TypeOK
  <2>7. Expected(c)' = AgentKinds BY <2>6 DEF Expected, Awaited
  <2>8. Joining(c, op)
    BY <1>1, <1>2, <2>3, <2>5, <2>7, KindsAre DEF Joins, Joining, Aimed, IsCurrent, IsLive
  <2>9. TailGoes(c) BY <2>5, <2>8 DEF TailGoes, Joins
  <2> QED BY <1>1, <1>2, <2>6, <2>9, MovesFollows
<1>3. CASE Ends(c, grants[t])
  <2>1. LessOf(grants[calls[c].turn], grants[calls[c].turn]) BY <1>1, LessIsLess
  <2> QED BY <1>1, <1>3, <2>1, EndsFollows
<1> QED BY <1>0, <1>2, <1>3 DEF Stated

LEMMA ActedFollows ==
    ASSUME IInv, NEW c \in Calls, Acted(c) PROVE IInv' /\ CallerStep(c)
<1>1. /\ calls[c].at = "acting" /\ Absent(c) /\ c \in Askers /\ ~ClaimAnswered(c)
      /\ answers' = [answers EXCEPT ![c] = NoAnswer]
      /\ UNCHANGED callFrame /\ balance' \in [Turns \X Operations -> Int]
      /\ grants[calls[c].turn] \in GrantRecords
  <2>1. Takes(c, "acting") BY DEF Acted
  <2>2. "acting" \in CallStates \ {"idle"} BY DEF CallStates
  <2> QED BY <2>1, <2>2, TakesIs
<1>2. CASE IsCurrent(calls[c].turn) /\ Projects(c, grants[calls[c].turn])
  <2>1. LessOf(grants[calls[c].turn], grants[calls[c].turn]) BY <1>1, LessIsLess
  <2>2. IsLive(calls[c].turn) BY <1>2 DEF IsCurrent, IsLive
  <2> QED BY <1>1, <1>2, <2>1, <2>2, EndsFollows
<1>3. CASE Leaves(c, "leaving", 0)
  <2>1. 0 \in 0 .. 1 OBVIOUS
  <2> QED BY <1>1, <1>3, <2>1, LeavesFollows
<1>4. CASE Ends(c, grants[calls[c].turn])
  <2>1. LessOf(grants[calls[c].turn], grants[calls[c].turn]) BY <1>1, LessIsLess
  <2> QED BY <1>1, <1>4, <2>1, EndsFollows
<1> QED BY <1>2, <1>3, <1>4 DEF Acted

LEMMA ProjectedFollows ==
    ASSUME IInv, NEW c \in Calls, Projected(c) PROVE IInv' /\ CallerStep(c)
<1>1. /\ calls[c].at = "projecting" /\ Absent(c) /\ c \in Askers /\ ~ClaimAnswered(c)
      /\ answers' = [answers EXCEPT ![c] = NoAnswer]
      /\ UNCHANGED callFrame /\ balance' \in [Turns \X Operations -> Int]
      /\ grants[calls[c].turn] \in GrantRecords
  <2>1. Takes(c, "projecting") BY DEF Projected
  <2>2. "projecting" \in CallStates \ {"idle"} BY DEF CallStates
  <2> QED BY <2>1, <2>2, TakesIs
<1>2. CASE Moves(c, "done") /\ UNCHANGED <<grants, session, tail>>
  <2>1. CallsGo({c}) BY <1>2, MovedGoes DEF CallStates, IInv, TypeOK
  <2> QED BY <1>1, <1>2, <2>1, MovesFollows DEF TailGoes
<1>3. CASE Leaves(c, "leaving", 0)
  <2>1. 0 \in 0 .. 1 OBVIOUS
  <2> QED BY <1>1, <1>3, <2>1, LeavesFollows
<1>4. CASE Ends(c, grants[calls[c].turn])
  <2>1. LessOf(grants[calls[c].turn], grants[calls[c].turn]) BY <1>1, LessIsLess
  <2> QED BY <1>1, <1>4, <2>1, EndsFollows
<1> QED BY <1>2, <1>3, <1>4 DEF Projected

LEMMA LeftFollows ==
    ASSUME IInv, NEW c \in Calls, Left(c) PROVE IInv' /\ CallerStep(c)
<1>1. /\ calls[c].at = "leaving" /\ Absent(c) /\ c \in Askers /\ ~ClaimAnswered(c)
      /\ answers' = [answers EXCEPT ![c] = NoAnswer]
      /\ UNCHANGED callFrame /\ balance' \in [Turns \X Operations -> Int]
      /\ grants[calls[c].turn] \in GrantRecords
  <2>1. Takes(c, "leaving") BY DEF Left
  <2>2. "leaving" \in CallStates \ {"idle"} BY DEF CallStates
  <2> QED BY <2>1, <2>2, TakesIs
<1>2. CASE calls[c].left > 0 /\ Leaves(c, "leaving", calls[c].left - 1)
  <2>1. calls[c].left - 1 \in 0 .. 1
    BY <1>2 DEF IInv, TypeOK, CallRecords
  <2> QED BY <1>1, <1>2, <2>1, LeavesFollows
<1>3. CASE Ends(c, grants[calls[c].turn])
  <2>1. LessOf(grants[calls[c].turn], grants[calls[c].turn]) BY <1>1, LessIsLess
  <2> QED BY <1>1, <1>3, <2>1, EndsFollows
<1> QED BY <1>2, <1>3 DEF Left

LEMMA CallClosesFollows ==
    ASSUME IInv, NEW c \in Calls, CallCloses(c) PROVE IInv' /\ CallerStep(c)
<1>1. /\ calls[c].at = "closing" /\ Absent(c) /\ c \in Askers /\ ~ClaimAnswered(c)
      /\ answers' = [answers EXCEPT ![c] = NoAnswer]
      /\ UNCHANGED callFrame /\ balance' \in [Turns \X Operations -> Int]
  <2>1. Takes(c, "closing") BY DEF CallCloses
  <2>2. "closing" \in CallStates \ {"idle"} BY DEF CallStates
  <2> QED BY <2>1, <2>2, TakesIs
<1>2. CallsGo({c}) BY MovedGoes DEF CallCloses, CallStates, IInv, TypeOK
<1> QED BY <1>1, <1>2, MovesFollows DEF CallCloses, TailGoes

LEMMA StartFollows ==
    ASSUME IInv, NEW c \in Calls, Start(c) PROVE IInv' /\ CallerStep(c)
<1>1. calls[c].at = "admitted" /\ UNCHANGED <<answers, callFrame>> BY DEF Start
<1>2. Expected(c) = {} /\ ~ClaimAnswered(c)
  BY <1>1 DEF ClaimAnswered, Expected, Awaited
<1>3. /\ Absent(c) /\ c \in Askers /\ answers[c] = NoAnswer
      /\ calls[c].turn \in Turns /\ TurnOf(c) = calls[c].turn /\ calls[c].op \in Operations
      /\ grants[calls[c].turn] \in GrantRecords
  <2>1. c \in Askers BY Constants
  <2>2. answers[c] = NoAnswer BY <1>2, <2>1 DEF IInv, InFlight
  <2> QED BY <1>1, <1>2, <2>1, <2>2, CallIs DEF IInv, TypeOK
<1>4. PICK t, op : t = calls[c].turn /\ op = calls[c].op OBVIOUS
<1>5. balance' \in [Turns \X Operations -> Int]
  <2>1. PICK d \in Int : d = balance[<<t, op>>] - 1
    BY <1>3, <1>4 DEF IInv, TypeOK
  <2>2. balance' = balance \/ balance' = [balance EXCEPT ![<<t, op>>] = d]
    BY <1>4, <2>1 DEF Start
  <2> QED BY <2>1, <2>2 DEF IInv, TypeOK
<1>6. CASE Moves(c, "done") /\ UNCHANGED <<grants, session, tail>>
  <2>1. CallsGo({c}) BY <1>6, MovedGoes DEF CallStates, IInv, TypeOK
  <2> QED BY <1>1, <1>2, <1>3, <1>5, <1>6, <2>1, MovesFollows DEF TailGoes
<1>7. CASE Leaves(c, "closing", 0)
  <2>1. 0 \in 0 .. 1 OBVIOUS
  <2> QED BY <1>1, <1>3, <1>5, <1>7, <2>1, LeavesFollows
<1>8. ASSUME ~Spent(t), NEW target \in Aliases \union {NoPage}
      PROVE  LET new == Consumed(t, op)
                 aimed == [Consumed(t, op) EXCEPT !.target = target]
             IN  /\ LessOf(new, grants[t]) /\ new.state = grants[t].state
                 /\ LessOf(aimed, grants[t]) /\ aimed.state = grants[t].state
  <2>1. grants[t].budget > 0 BY <1>3, <1>4, <1>8, LessIsLess, Constants DEF Spent
  <2> QED BY <1>3, <1>4, <1>8, <2>1, ConsumedIsLess
<1>9. CASE ~Spent(t) /\ Ends(c, Consumed(t, op))
  <2>1. NoPage \in Aliases \union {NoPage} OBVIOUS
  <2>2. PICK new : new = Consumed(t, op) OBVIOUS
  <2>3. LessOf(new, grants[t]) /\ new.state = grants[t].state BY <1>8, <1>9, <2>1, <2>2
  <2> QED BY <1>1, <1>2, <1>3, <1>4, <1>5, <1>9, <2>2, <2>3, EndsFollows
<1>10. CASE /\ ~Spent(t) /\ op.tool = "open" /\ Moves(c, "opening") /\ UNCHANGED session
            /\ grants' = [grants EXCEPT ![t] = [Consumed(t, op) EXCEPT !.target = op.argument]]
            /\ Asks(c, [Operation("open", c) EXCEPT !.target = op.argument])
  <2>1. PICK alias \in Aliases : alias = op.argument BY <1>3, <1>4, <1>10, Constants
  <2>2. PICK new : new = [Consumed(t, op) EXCEPT !.target = alias] OBVIOUS
  <2>3. LessOf(new, grants[t]) /\ new.state = grants[t].state BY <1>8, <1>10, <2>1, <2>2
  <2>4. grants' = [grants EXCEPT ![t] = new] BY <1>10, <2>1, <2>2
  <2>5. Asks(c, [Operation("open", c) EXCEPT !.target = alias]) BY <1>10, <2>1
  <2>6. PICK o : Joins(c, "open", o) /\ o.target = alias BY <1>3, <2>5, AsksOpen
  <2>7. CallsGo({c}) /\ calls'[c].at = "opening"
    BY <1>10, MovedGoes DEF CallStates, IInv, TypeOK
  <2>8. "open" \in Expected(c)' BY <2>7 DEF Expected, Awaited
  <2>9. TailGoes(c) BY <2>1, <2>6, <2>8, KindsAre DEF TailGoes, Joining, Joins, Aimed
  <2>10. new \in GrantRecords /\ calls[c].at # "idle" BY <1>1, <2>3 DEF LessOf
  <2>11. answers' = answers /\ UNCHANGED callFrame BY <1>1
  <2>12. session' = session BY <1>10
  <2> QED BY <1>2, <1>3, <1>4, <1>5, <2>3, <2>4, <2>7, <2>9, <2>10, <2>11, <2>12, CallFollows
<1>11. CASE /\ ~Spent(t) /\ grants' = [grants EXCEPT ![t] = Consumed(t, op)]
            /\ Asks(c, Operation("state", c)) /\ Moves(c, "stating") /\ UNCHANGED session
  <2>1. NoPage \in Aliases \union {NoPage} OBVIOUS
  <2>2. PICK new : new = Consumed(t, op) OBVIOUS
  <2>3. LessOf(new, grants[t]) /\ new.state = grants[t].state BY <1>8, <1>11, <2>1, <2>2
  <2>4. PICK o : Joins(c, "state", o) BY <1>3, <1>11, AsksPlain, KindsAre
  <2>5. CallsGo({c}) /\ calls'[c].at = "stating"
    BY <1>11, MovedGoes DEF CallStates, IInv, TypeOK
  <2>6. "state" \in Expected(c)' BY <2>5 DEF Expected, Awaited
  <2>7. TailGoes(c) BY <2>4, <2>6, KindsAre DEF TailGoes, Joining, Joins, Aimed
  <2> QED BY <1>1, <1>2, <1>3, <1>4, <1>5, <1>11, <2>2, <2>3, <2>5, <2>7, CallFollows DEF LessOf
<1> QED BY <1>4, <1>6, <1>7, <1>9, <1>10, <1>11 DEF Start

\* The step of somebody else than a call.
LEMMA OtherFollows ==
    ASSUME IInv, NEW who \in Askers \union {Nobody}, who \in Askers => Absent(who),
           step' = step, AskersGo(who), TailGoes(who), GrantsGo(who), SessionGoes(who),
           calls' \in [Calls -> CallRecords], turns' \in [Turns -> {"none", "open", "ended"}],
           requests' \in [Requests -> {"idle", "revoking", "waiting", "done"}],
           approving' \in [Turns -> Operations \union {NoOperation}],
           answers' = answers \/ (who \in Askers /\ answers' = [answers EXCEPT ![who] = NoAnswer]),
           refused' \in BOOLEAN, balance' \in [Turns \X Operations -> Int],
           UNCHANGED faults, TurnsOK'
    PROVE  IInv' /\ CallerStep(who)
<1>1. CallerStep(who) BY DEF CallerStep
<1>2. session' \in Sessions
  BY SessionsAre DEF SessionGoes, IInv, TypeOK, BrokerType
<1>3. tail' \in Seq(Entries) BY TailTyped
<1>4. answers' \in [Askers -> [code : {"none", "ok", "failed", "lost"}, value : Nat]]
  <2>1. NoAnswer \in [code : {"none", "ok", "failed", "lost"}, value : Nat] BY DEF NoAnswer
  <2>2. answers \in [Askers -> [code : {"none", "ok", "failed", "lost"}, value : Nat]]
    BY DEF IInv, TypeOK, BrokerType
  <2> QED BY <2>1, <2>2
<1>5. TypeOK'
  BY <1>2, <1>3, <1>4 DEF IInv, TypeOK, BrokerType, GrantsGo
<1> QED BY <1>1, <1>5, CallerKeeps

-----------------------------------------------------------------------------
(* The steps of a Turn are steps of a caller.                              *)

\* No grant comes to life, and a Turn that has not begun stays untouched.
LEMMA TurnsKept ==
    ASSUME IInv, CallsGo({}),
           \A t \in Turns : \/ turns'[t] = turns[t] /\ (IsLive(t)' => IsLive(t))
                            \/ turns[t] = "open" /\ turns'[t] = "ended" /\ ~IsLive(t)',
           \A t \in Turns : turns[t] = "none" =>
                grants'[t] = grants[t] /\ approving'[t] = approving[t]
    PROVE  TurnsOK'
<1>1. \A c \in Calls : /\ calls'[c].turn = calls[c].turn /\ calls'[c].op = calls[c].op
                       /\ calls'[c].at # "idle" => calls[c].at # "idle"
  BY DEF CallsGo
<1>2. \A t \in Turns : turns'[t] = "none" => turns[t] = "none" /\ grants'[t] = grants[t] /\ approving'[t] = approving[t]
  OBVIOUS
<1>3. \A t \in Turns : turns'[t] = "open" => turns[t] = "open"
  OBVIOUS
<1>4. \A t \in Turns : IsLive(t)' => turns'[t] = "open"
  BY DEF IInv, TurnsOK
<1> QED BY <1>1, <1>2, <1>3, <1>4 DEF IInv, TurnsOK

LEMMA TurnIs ==
    ASSUME IInv, NEW t \in Turns
    PROVE  /\ grants \in [Turns -> GrantRecords] /\ grants[t] \in GrantRecords
           /\ calls \in [Calls -> CallRecords]
           /\ answers \in [Askers -> [code : {"none", "ok", "failed", "lost"}, value : Nat]]
           /\ t \in Askers /\ TurnOf(t) = t
           /\ Expected(t) = IF approving[t] = NoOperation THEN {} ELSE {"claim"}
           /\ approving[t] = NoOperation => Absent(t) /\ answers[t] = NoAnswer /\ ~ClaimAnswered(t)
           /\ answers[t] # NoAnswer => Absent(t)
<1>1. t \in Askers /\ t \notin Calls BY Constants
<1>2. TurnOf(t) = t /\ Expected(t) = IF approving[t] = NoOperation THEN {} ELSE {"claim"}
  BY <1>1 DEF TurnOf, Expected
<1>3. Expected(t) = {} => Absent(t) /\ answers[t] = NoAnswer /\ ~ClaimAnswered(t)
  BY <1>1 DEF IInv, InFlight, Absent, ClaimAnswered
<1>4. answers[t] # NoAnswer => Absent(t)
  BY <1>1 DEF IInv, InFlight
<1> QED BY <1>1, <1>2, <1>3, <1>4 DEF IInv, TypeOK, BrokerType

LEMMA NobodyIs == Nobody \notin Askers /\ Expected(Nobody) = {"release"} /\ ~ClaimAnswered(Nobody)
BY Constants DEF Expected, ClaimAnswered

\* A revocation by "by" in the step of "who".
LEMMA RevokedGoes ==
    ASSUME IInv, NEW R, NEW who \in Askers \union {Nobody}, NEW by \in {who, Nobody},
           Revokes(R, by), calls' = Rejected(R), "release" \in Expected(by)'
    PROVE  /\ CallsGo({}) /\ TailGoes(who) /\ GrantsGo(who) /\ SessionGoes(who)
           /\ calls' \in [Calls -> CallRecords]
           /\ \A t \in Turns : /\ IsLive(t)' => IsLive(t)
                               /\ t \in R => ~IsLive(t)'
                               /\ t \notin R => grants'[t] = grants[t]
<1>1. calls \in [Calls -> CallRecords] BY DEF IInv, TypeOK
<1>2. CallsGo({}) BY <1>1, RejectedKeepsCalls
<1>3. /\ grants' \in [Turns -> GrantRecords]
      /\ \A t \in Turns :
            /\ LessOf(grants'[t], grants[t])
            /\ t \in R => grants'[t] = Withdrawn(grants[t]) /\ ~IsLive(t)'
            /\ t \notin R => grants'[t] = grants[t]
      /\ session' = Released(session)
      /\ \E op : Joins(by, "release", op)
  BY RevokesGoes
<1>4. TailGoes(who) BY <1>3, JoinedRelease
<1> QED BY <1>2, <1>3, <1>4 DEF GrantsGo, SessionGoes, LessOf, LiveState, IsLive, CallsGo

LEMMA PrepareFollows ==
    ASSUME IInv, NEW t \in Turns, Prepare(t) PROVE IInv' /\ CallerStep(Nobody)
<1>1. /\ turns[t] = "none" /\ \A other \in Turns : turns[other] # "open" /\ ~IsLive(other)
      /\ turns' = [turns EXCEPT ![t] = "open"]
      /\ UNCHANGED <<session, tail, step, answers, calls, requests, approving, refused, balance, faults>>
  BY DEF Prepare, brokerVars
<1>2. PICK g \in GrantRecords : g = grants[t] BY TurnIs
<1>3. PICK new : new = [g EXCEPT !.state = "dormant", !.budget = Budget] OBVIOUS
<1>4. grants' = [grants EXCEPT ![t] = new] BY <1>2, <1>3, TurnIs DEF Prepare
<1>5. /\ new \in GrantRecords /\ new.state = "dormant" /\ new.epoch = g.epoch
  <2>1. Budget \in 0 .. Budget BY Constants
  <2> QED BY <1>3, <2>1 DEF GrantRecords
<1>6. g.epoch = 0 BY <1>1, <1>2 DEF IInv, TurnsOK, NoGrant
<1>7. /\ grants' \in [Turns -> GrantRecords] /\ grants'[t] = new
      /\ \A u \in Turns : u # t => grants'[u] = grants[u]
  BY <1>4, <1>5, TurnIs
<1>8. GrantsGo(Nobody)
  <2>1. \A u \in Turns : u # t => LessOf(grants'[u], grants[u])
    BY <1>7, TurnIs, LessIsLess
  <2> QED BY <1>1, <1>5, <1>6, <1>7, <2>1 DEF GrantsGo
<1>9. SessionGoes(Nobody)
  <2>1. \A u \in Turns : grants[u].state # "active" BY <1>1 DEF IsLive
  <2> QED BY <1>1, <2>1, NobodyIs DEF SessionGoes
<1>10. CallsGo({}) BY <1>1 DEF CallsGo, IInv, TypeOK
<1>11. AskersGo(Nobody)
  BY <1>1, <1>10, Constants DEF AskersGo, Expected, TurnOf
<1>12. turns' \in [Turns -> {"none", "open", "ended"}]
  BY <1>1 DEF IInv, TypeOK
<1>13. TurnsOK'
  <2>1. \A u \in Turns : turns'[u] = IF u = t THEN "open" ELSE turns[u]
    BY <1>1 DEF IInv, TypeOK
  <2>2. \A u \in Turns : IsLive(u)' => u = t BY <1>1, <1>7 DEF IsLive
  <2> QED BY <1>1, <1>7, <2>1, <2>2 DEF IInv, TurnsOK
<1> QED BY <1>1, <1>8, <1>9, <1>10, <1>11, <1>12, <1>13, NobodyIs, OtherFollows
        DEF TailGoes, IInv, TypeOK

\* A step that moves no asker.
LEMMA NobodyGoes ==
    ASSUME CallsGo({}), UNCHANGED <<answers, requests, approving>>
    PROVE  AskersGo(Nobody)
BY Constants DEF AskersGo, Expected, TurnOf, CallsGo

LEMMA RevocationFollows ==
    ASSUME IInv, NEW t \in Turns, Revokes({t}, Nobody), calls' = Rejected({t}),
           IsLive(t),
           turns' = turns \/ turns' = [turns EXCEPT ![t] = "ended"],
           UNCHANGED <<step, answers, requests, approving, refused, balance, faults>>
    PROVE  IInv' /\ CallerStep(Nobody)
<1>1. Expected(Nobody)' = {"release"} BY Constants DEF Expected
<1>2. /\ CallsGo({}) /\ TailGoes(Nobody) /\ GrantsGo(Nobody) /\ SessionGoes(Nobody)
      /\ calls' \in [Calls -> CallRecords]
      /\ \A u \in Turns : /\ IsLive(u)' => IsLive(u)
                          /\ u \in {t} => ~IsLive(u)'
                          /\ u \notin {t} => grants'[u] = grants[u]
  BY <1>1, RevokedGoes
<1>3. AskersGo(Nobody) BY <1>2, NobodyGoes
<1>4. turns[t] = "open" BY DEF IInv, TurnsOK
<1>5. turns' \in [Turns -> {"none", "open", "ended"}] BY DEF IInv, TypeOK
<1>6. TurnsOK'
  <2>1. \A u \in Turns : \/ turns'[u] = turns[u]
                         \/ u = t /\ turns'[u] = "ended"
    BY DEF IInv, TypeOK
  <2>2. \A u \in Turns : turns[u] = "none" => grants'[u] = grants[u]
    BY <1>2, <1>4
  <2> QED BY <1>2, <1>4, <2>1, <2>2, TurnsKept
<1> QED BY <1>2, <1>3, <1>5, <1>6, NobodyIs, OtherFollows DEF IInv, TypeOK

LEMMA EndTurnFollows ==
    ASSUME IInv, NEW t \in Turns, EndTurn(t) PROVE IInv' /\ CallerStep(Nobody)
<1>1. /\ turns[t] = "open" /\ turns' = [turns EXCEPT ![t] = "ended"]
      /\ UNCHANGED <<step, answers, requests, approving, refused, balance, faults>>
  BY DEF EndTurn
<1>2. CASE IsLive(t)
  BY <1>1, <1>2, RevocationFollows DEF EndTurn
<1>3. CASE ~IsLive(t)
  <2>1. UNCHANGED <<grants, session, tail, calls>> BY <1>3 DEF EndTurn
  <2>2. CallsGo({}) BY <2>1 DEF CallsGo, IInv, TypeOK
  <2>3. AskersGo(Nobody) BY <1>1, <2>2, NobodyGoes
  <2>4. GrantsGo(Nobody) BY <2>1, TurnIs, LessIsLess DEF GrantsGo, IInv, TypeOK
  <2>5. SessionGoes(Nobody) BY <1>1, <2>1, NobodyIs DEF SessionGoes
  <2>6. turns' \in [Turns -> {"none", "open", "ended"}] BY <1>1 DEF IInv, TypeOK
  <2>7. TurnsOK'
    <3>1. \A u \in Turns : turns'[u] = IF u = t THEN "ended" ELSE turns[u]
      BY <1>1 DEF IInv, TypeOK
    <3> QED BY <1>1, <1>3, <2>1, <2>2, <3>1, TurnsKept DEF IsLive
  <2> QED BY <1>1, <2>1, <2>3, <2>4, <2>5, <2>6, <2>7, NobodyIs, OtherFollows
          DEF TailGoes, IInv, TypeOK
<1> QED BY <1>2, <1>3

LEMMA GrantDueFollows ==
    ASSUME IInv, NEW t \in Turns, GrantDue(t) PROVE IInv' /\ CallerStep(Nobody)
<1>1. /\ IsLive(t)
      /\ UNCHANGED <<session, tail, step, answers, turns, calls, requests, approving, refused,
                     balance, faults>>
  BY DEF GrantDue, brokerVars
<1>2. PICK g \in GrantRecords : g = grants[t] BY TurnIs
<1>3. PICK new : new = [g EXCEPT !.due = TRUE] OBVIOUS
<1>4. LessOf(new, g) /\ new.state = g.state /\ new \in GrantRecords
  <2>1. {} \in SUBSET Operations OBVIOUS
  <2> QED BY <1>3, <2>1, WaitingEdit DEF LessOf
<1>5. grants' = [grants EXCEPT ![t] = new] BY <1>2, <1>3, TurnIs DEF GrantDue
<1>6. /\ grants' \in [Turns -> GrantRecords] /\ grants'[t] = new
      /\ \A u \in Turns : u # t => grants'[u] = grants[u]
  BY <1>4, <1>5, TurnIs
<1>7. \A u \in Turns : LessOf(grants'[u], grants[u]) /\ grants'[u].state = grants[u].state
  BY <1>2, <1>4, <1>6, TurnIs, LessIsLess
<1>8. GrantsGo(Nobody) BY <1>6, <1>7 DEF GrantsGo
<1>9. SessionGoes(Nobody) BY <1>1, <1>7, NobodyIs DEF SessionGoes
<1>10. CallsGo({}) BY <1>1 DEF CallsGo, IInv, TypeOK
<1>11. AskersGo(Nobody) BY <1>1, <1>10, NobodyGoes
<1>12. TurnsOK'
  <2>1. turns[t] = "open" BY <1>1 DEF IInv, TurnsOK
  <2> QED BY <1>1, <1>6, <1>7, <1>10, <2>1, TurnsKept DEF IsLive
<1> QED BY <1>1, <1>8, <1>9, <1>10, <1>11, <1>12, NobodyIs, OtherFollows
        DEF TailGoes, IInv, TypeOK

\* A step of Turn t itself, with an open Turn.
LEMMA TurnFollows ==
    ASSUME IInv, NEW t \in Turns, Absent(t), IsLive(t), NEW new \in GrantRecords,
           grants' = [grants EXCEPT ![t] = new],
           \/ LessOf(new, grants[t])
           \/ /\ ClaimAnswered(t)
              /\ new.epoch = answers[t].value /\ new.budget = grants[t].budget,
           CallsGo({}), TailGoes(t), SessionGoes(t),
           approving' \in [Turns -> Operations \union {NoOperation}],
           \A u \in Turns \ {t} : approving'[u] = approving[u],
           \/ answers' = [answers EXCEPT ![t] = NoAnswer]
           \/ answers' = answers /\ answers[t] = NoAnswer,
           balance' \in [Turns \X Operations -> Int],
           UNCHANGED <<step, turns, requests, refused, faults>>
    PROVE  IInv' /\ CallerStep(t)
<1>1. t \in Askers /\ TurnOf(t) = t BY TurnIs
<1>2. /\ grants' \in [Turns -> GrantRecords] /\ grants'[t] = new
      /\ \A u \in Turns : u # t => grants'[u] = grants[u]
  BY TurnIs
<1>3. \A u \in Turns : u # t => LessOf(grants'[u], grants[u])
  BY <1>2, TurnIs, LessIsLess
<1>4. GrantsGo(t) BY <1>1, <1>2, <1>3 DEF GrantsGo
<1>5. AskersGo(t)
  <2>1. CallsGo({t}) BY Constants DEF CallsGo
  <2>2. answers \in [Askers -> [code : {"none", "ok", "failed", "lost"}, value : Nat]]
    BY TurnIs
  <2> QED BY <1>1, <2>1, <2>2, AskersFollow
<1>6. TurnsOK'
  <2>1. turns[t] = "open" BY DEF IInv, TurnsOK
  <2>2. \A u \in Turns : IsLive(u)' => IsLive(u) BY <1>2 DEF IsLive
  <2>3. \A u \in Turns : turns[u] = "none" => grants'[u] = grants[u] /\ approving'[u] = approving[u]
    BY <1>2, <2>1
  <2> QED BY <2>2, <2>3, TurnsKept
<1> QED BY <1>1, <1>4, <1>5, <1>6, OtherFollows DEF CallsGo, IInv, TypeOK

LEMMA ApproveFollows ==
    ASSUME IInv, NEW t \in Turns, NEW op \in Operations, Approve(t, op)
    PROVE  IInv' /\ CallerStep(t)
<1>1. /\ approving[t] = NoOperation /\ IsLive(t)
      /\ UNCHANGED <<session, step, answers, turns, requests, refused, faults>>
  BY DEF Approve, MayDecide
<1>2. /\ Absent(t) /\ answers[t] = NoAnswer /\ ~ClaimAnswered(t) /\ t \in Askers /\ TurnOf(t) = t
      /\ calls \in [Calls -> CallRecords]
  BY <1>1, TurnIs
<1>3. balance' \in [Turns \X Operations -> Int]
  <2>1. PICK d \in Int : d = balance[<<t, op>>] + 1 BY DEF IInv, TypeOK
  <2>2. balance' = [balance EXCEPT ![<<t, op>>] = d] BY <2>1 DEF Approve
  <2> QED BY <2>1, <2>2 DEF IInv, TypeOK
<1>4. PICK g \in GrantRecords : g = grants[t] BY TurnIs
<1>5. PICK A, P : A = g.approved \union {op} /\ P = g.pending \ {op} OBVIOUS
<1>6. A \in SUBSET Operations /\ P \in SUBSET Operations /\ g.budget \in Nat
  BY <1>5, LessIsLess, Constants
<1>7. PICK new, done : /\ new = [g EXCEPT !.state = "active", !.approved = A]
                       /\ done = [g EXCEPT !.state = "active", !.approved = A, !.pending = P]
  OBVIOUS
<1>8. LessOf(new, g) /\ new.state = "active" /\ LessOf(done, g) /\ done.state = "active"
  <2>1. LiveState(g.state) BY <1>1, <1>4 DEF IsLive, LiveState
  <2> QED BY <1>6, <1>7, <2>1, ActivatedIsLess
<1>9. new \in GrantRecords /\ done \in GrantRecords BY <1>8 DEF LessOf
<1>10. ASSUME NEW h \in {new, done}, grants' = [grants EXCEPT ![t] = h] PROVE SessionGoes(t)
  <2>1. \A u \in Turns : grants[u].state = "active" => grants'[u].state = "active"
    BY <1>8, <1>10, TurnIs
  <2> QED BY <1>1, <1>2, <2>1 DEF SessionGoes
<1>11. CASE /\ grants' = [grants EXCEPT ![t] = new] /\ calls' = calls
            /\ tail' = Join(tail, [Operation("claim", t) EXCEPT !.budget = g.budget])
            /\ approving' = [approving EXCEPT ![t] = op]
  <2>1. PICK o : Joins(t, "claim", o) /\ o.budget = g.budget
    BY <1>2, <1>6, <1>11, AsksClaim
  <2>2. approving' \in [Turns -> Operations \union {NoOperation}] /\ approving'[t] = op
    BY <1>11 DEF IInv, TypeOK
  <2>3. "claim" \in Expected(t)' BY <2>2, Constants DEF Expected
  <2>4. grants'[t].budget <= o.budget
    <3>1. grants'[t] = new BY <1>11, TurnIs
    <3> QED BY <1>6, <1>8, <2>1, <3>1 DEF LessOf
  <2>5. TailGoes(t)
    BY <1>1, <1>2, <2>1, <2>3, <2>4 DEF TailGoes, Joining, Joins, Aimed
  <2>6. CallsGo({}) BY <1>2, <1>11 DEF CallsGo
  <2>7. SessionGoes(t) BY <1>10, <1>11
  <2>8. \A u \in Turns \ {t} : approving'[u] = approving[u]
    BY <1>11 DEF IInv, TypeOK
  <2> QED BY <1>1, <1>2, <1>3, <1>4, <1>8, <1>9, <1>11, <2>2, <2>5, <2>6, <2>7, <2>8, TurnFollows
<1>12. CASE /\ grants' = [grants EXCEPT ![t] = done] /\ calls' = Woken(t, op)
            /\ UNCHANGED <<tail, approving>>
  <2>1. CallsGo({}) BY <1>2, <1>12, WokenKeepsCalls
  <2>2. SessionGoes(t) BY <1>10, <1>12
  <2>3. approving' \in [Turns -> Operations \union {NoOperation}] /\ TailGoes(t)
    BY <1>12 DEF IInv, TypeOK, TailGoes
  <2>4. \A u \in Turns \ {t} : approving'[u] = approving[u] BY <1>12
  <2> QED BY <1>1, <1>2, <1>3, <1>4, <1>8, <1>9, <1>12, <2>1, <2>2, <2>3, <2>4, TurnFollows
<1>13. \/ /\ grants' = [grants EXCEPT ![t] = new] /\ calls' = calls
          /\ tail' = Join(tail, [Operation("claim", t) EXCEPT !.budget = g.budget])
          /\ approving' = [approving EXCEPT ![t] = op]
       \/ /\ grants' = [grants EXCEPT ![t] = done] /\ calls' = Woken(t, op)
          /\ UNCHANGED <<tail, approving>>
  BY <1>4, <1>5, <1>7, TurnIs DEF Approve
<1> QED BY <1>11, <1>12, <1>13

LEMMA ActivatedFollows ==
    ASSUME IInv, NEW t \in Turns, Activated(t) PROVE IInv' /\ (CallerStep(t) \/ CallerStep(Nobody))
<1>1. /\ approving[t] # NoOperation /\ answers[t] # NoAnswer /\ Earliest(t)
      /\ answers' = [answers EXCEPT ![t] = NoAnswer]
      /\ approving' = [approving EXCEPT ![t] = NoOperation]
      /\ UNCHANGED <<step, turns, requests, refused, balance, faults>>
  BY DEF Activated
<1>2. /\ Absent(t) /\ t \in Askers /\ TurnOf(t) = t /\ Expected(t) = {"claim"}
      /\ calls \in [Calls -> CallRecords]
      /\ answers \in [Askers -> [code : {"none", "ok", "failed", "lost"}, value : Nat]]
  BY <1>1, TurnIs
<1>3. /\ approving' \in [Turns -> Operations \union {NoOperation}]
      /\ \A u \in Turns \ {t} : approving'[u] = approving[u]
      /\ balance' \in [Turns \X Operations -> Int]
  BY <1>1 DEF IInv, TypeOK
<1>4. PICK g \in GrantRecords : g = grants[t] BY TurnIs
<1>5. PICK v \in Nat : v = answers[t].value BY <1>2
<1>6. PICK P : P = g.pending \ {approving[t]} OBVIOUS
<1>7. P \in SUBSET Operations BY <1>6, LessIsLess
<1>8. PICK new : new = [g EXCEPT !.epoch = v, !.pending = P] OBVIOUS
<1>9. CASE /\ answers[t].code = "ok" /\ IsCurrent(t) /\ UNCHANGED <<session, tail>>
           /\ grants' = [grants EXCEPT ![t] = new] /\ calls' = Woken(t, approving[t])
  <2>1. new \in GrantRecords /\ new.state = g.state /\ new.budget = g.budget /\ new.epoch = v
    BY <1>7, <1>8 DEF GrantRecords
  <2>2. ClaimAnswered(t) BY <1>2, <1>9 DEF ClaimAnswered
  <2>3. IsLive(t) /\ g.state = "active" BY <1>4, <1>9 DEF IsCurrent, IsLive
  <2>4. CallsGo({}) BY <1>2, <1>9, WokenKeepsCalls
  <2>5. SessionGoes(t)
    <3>1. grants'[t] = new /\ \A u \in Turns : u # t => grants'[u] = grants[u]
      BY <1>9, TurnIs
    <3> QED BY <1>1, <1>2, <1>5, <1>9, <2>1, <2>3, <3>1 DEF SessionGoes
  <2>6. TailGoes(t) BY <1>9 DEF TailGoes
  <2> QED BY <1>1, <1>2, <1>3, <1>4, <1>5, <1>9, <2>1, <2>2, <2>3, <2>4, <2>5, <2>6, TurnFollows
<1>10. CASE Revokes({t}, Nobody) /\ calls' = Rejected({t})
  <2>1. Expected(Nobody)' = {"release"} BY Constants DEF Expected
  <2>2. /\ CallsGo({}) /\ TailGoes(t) /\ GrantsGo(t) /\ SessionGoes(t)
        /\ calls' \in [Calls -> CallRecords]
        /\ \A u \in Turns : /\ IsLive(u)' => IsLive(u)
                            /\ u \in {t} => ~IsLive(u)'
                            /\ u \notin {t} => grants'[u] = grants[u]
    BY <1>2, <1>10, <2>1, RevokedGoes
  <2>3. AskersGo(t)
    <3>1. CallsGo({t}) BY <2>2, Constants DEF CallsGo
    <3> QED BY <1>1, <1>2, <1>3, <3>1, AskersFollow
  <2>4. turns[t] # "none" BY <1>1 DEF IInv, TurnsOK
  <2>5. TurnsOK' BY <1>1, <1>3, <2>2, <2>4, TurnsKept
  <2> QED BY <1>1, <1>2, <1>3, <2>2, <2>3, <2>5, OtherFollows DEF IInv, TypeOK
<1>11. \/ /\ answers[t].code = "ok" /\ IsCurrent(t) /\ UNCHANGED <<session, tail>>
          /\ grants' = [grants EXCEPT ![t] = new] /\ calls' = Woken(t, approving[t])
       \/ Revokes({t}, Nobody) /\ calls' = Rejected({t})
  BY <1>4, <1>5, <1>6, <1>8, TurnIs DEF Activated
<1> QED BY <1>9, <1>10, <1>11

LEMMA CallMadeFollows ==
    ASSUME IInv, NEW t \in Turns, NEW op \in Operations, NEW c \in Calls, Call(c, t, op)
    PROVE  IInv' /\ CallerStep(c)
<1>1. /\ calls[c].at = "idle" /\ IsLive(t)
      /\ UNCHANGED <<session, tail, step, answers, turns, requests, approving, refused,
                     balance, faults>>
  BY DEF Call, brokerVars
<1>2. c \in Askers /\ Expected(c) = {}
  BY <1>1, Constants DEF Expected, Awaited
<1>3. Absent(c) /\ answers[c] = NoAnswer /\ ~ClaimAnswered(c)
  BY <1>2 DEF IInv, InFlight, Absent, ClaimAnswered
<1>4. PICK at \in {"admitted", "done", "suspended"} :
        /\ calls' = [calls EXCEPT ![c] = [at |-> at, turn |-> t, op |-> op, left |-> 0]]
        /\ \/ grants' = grants
           \/ grants' = [grants EXCEPT ![t].pending = @ \union {op}]
  BY DEF Call
<1>5. /\ calls' \in [Calls -> CallRecords] /\ calls'[c].at = at
      /\ calls'[c].turn = t /\ calls'[c].op = op
      /\ \A d \in Calls : d # c => calls'[d] = calls[d]
  <2>1. [at |-> at, turn |-> t, op |-> op, left |-> 0] \in CallRecords
    BY DEF CallRecords
  <2> QED BY <1>4, <2>1 DEF IInv, TypeOK
<1>6. AskersGo(c)
  <2>1. Expected(c)' = {} BY <1>5 DEF Expected, Awaited
  <2>2. \A other \in Askers \ {c} :
            Expected(other)' = Expected(other) /\ TurnOf(other)' = TurnOf(other)
    BY <1>1, <1>5 DEF Expected, TurnOf
  <2> QED BY <1>1, <1>3, <2>1, <2>2 DEF AskersGo
<1>7. /\ grants' \in [Turns -> GrantRecords]
      /\ \A u \in Turns : LessOf(grants'[u], grants[u]) /\ grants'[u].state = grants[u].state
      /\ \A u \in Turns : u # t => grants'[u] = grants[u]
  <2>1. CASE grants' = grants
    BY <2>1, TurnIs, LessIsLess
  <2>2. CASE grants' = [grants EXCEPT ![t].pending = @ \union {op}]
    <3>1. PICK g \in GrantRecords : g = grants[t] BY TurnIs
    <3>2. PICK P \in SUBSET Operations : P = g.pending \union {op} BY LessIsLess
    <3>3. PICK new : new = [g EXCEPT !.pending = P] OBVIOUS
    <3>4. LessOf(new, g) /\ new.state = g.state /\ new \in GrantRecords
      BY <3>3, WaitingEdit DEF LessOf
    <3>5. grants' = [grants EXCEPT ![t] = new] BY <2>2, <3>1, <3>2, <3>3, TurnIs
    <3> QED BY <3>1, <3>4, <3>5, TurnIs, LessIsLess
  <2> QED BY <1>4, <2>1, <2>2
<1>8. GrantsGo(c) /\ SessionGoes(c) /\ TailGoes(c)
  BY <1>1, <1>3, <1>7 DEF GrantsGo, SessionGoes, TailGoes
<1>9. TurnsOK'
  <2>1. turns[t] = "open" BY <1>1 DEF IInv, TurnsOK
  <2>2. \A u \in Turns : IsLive(u)' => IsLive(u) BY <1>7 DEF IsLive
  <2> QED BY <1>1, <1>5, <1>7, <2>1, <2>2 DEF IInv, TurnsOK
<1> QED BY <1>1, <1>2, <1>3, <1>5, <1>6, <1>8, <1>9, OtherFollows DEF IInv, TypeOK

LEMMA TurnEventFollows ==
    ASSUME IInv, NEW t \in Turns, TurnEvent(t)
    PROVE  IInv' /\ \E who \in Askers \union {Nobody} : CallerStep(who)
<1>1. CASE Prepare(t) BY <1>1, PrepareFollows
<1>2. CASE EndTurn(t) BY <1>2, EndTurnFollows
<1>3. CASE GrantExpires(t)
  BY <1>3, RevocationFollows DEF GrantExpires
<1>4. ASSUME NEW op \in Operations, Reject(t, op)
      PROVE  IInv' /\ \E who \in Askers \union {Nobody} : CallerStep(who)
  BY <1>4, RevocationFollows DEF Reject, MayDecide
<1>5. ASSUME NEW op \in Operations, Approve(t, op)
      PROVE  IInv' /\ \E who \in Askers \union {Nobody} : CallerStep(who)
  BY <1>5, ApproveFollows, TurnIs
<1>6. ASSUME NEW op \in Operations, NEW c \in Calls, Call(c, t, op)
      PROVE  IInv' /\ \E who \in Askers \union {Nobody} : CallerStep(who)
  BY <1>6, CallMadeFollows, Constants
<1> QED BY <1>1, <1>2, <1>3, <1>4, <1>5, <1>6 DEF TurnEvent

-----------------------------------------------------------------------------
(* The steps of a request are steps of a caller.                           *)

LEMMA RequestIs ==
    ASSUME IInv, NEW r \in Requests
    PROVE  /\ calls \in [Calls -> CallRecords] /\ grants \in [Turns -> GrantRecords]
           /\ answers \in [Askers -> [code : {"none", "ok", "failed", "lost"}, value : Nat]]
           /\ requests \in [Requests -> {"idle", "revoking", "waiting", "done"}]
           /\ session \in Sessions /\ session.generation \in Nat
           /\ Expectations \subseteq Int
           /\ r \in Askers /\ TurnOf(r) = r
           /\ Expected(r) = IF requests[r] = "waiting" THEN PublicKinds
                            ELSE IF requests[r] = "revoking" THEN {"release"} ELSE {}
           /\ ~ClaimAnswered(r)
           /\ requests[r] = "idle" => Absent(r) /\ answers[r] = NoAnswer
           /\ answers[r] # NoAnswer => Absent(r)
<1>1. r \in Askers /\ r \notin Calls /\ r \notin Turns BY Constants
<1>2. /\ TurnOf(r) = r
      /\ Expected(r) = IF requests[r] = "waiting" THEN PublicKinds
                       ELSE IF requests[r] = "revoking" THEN {"release"} ELSE {}
  BY <1>1 DEF TurnOf, Expected
<1>3. ~ClaimAnswered(r) BY <1>2 DEF ClaimAnswered, PublicKinds
<1>4. Expected(r) = {} => Absent(r) /\ answers[r] = NoAnswer
  BY <1>1 DEF IInv, InFlight, Absent
<1>5. answers[r] # NoAnswer => Absent(r)
  BY <1>1 DEF IInv, InFlight
<1>6. session \in Sessions /\ session.generation \in Nat
  BY DEF IInv, TypeOK, BrokerType, Sessions
<1>7. Expectations \subseteq Int BY <1>6 DEF Expectations
<1> QED BY <1>1, <1>2, <1>3, <1>4, <1>5, <1>6, <1>7 DEF IInv, TypeOK, BrokerType

LEMMA AsksDated ==
    ASSUME IInv, NEW r \in Requests, requests'[r] = "waiting",
           NEW kind \in PublicKinds \ {"open", "takeHuman"}, NEW generation \in Int,
           tail' = Join(tail, Asked(kind, r, generation))
    PROVE  TailGoes(r)
<1>1. r \in Askers /\ kind \in Kinds BY RequestIs, KindsAre
<1> DEFINE plain == Operation(kind, r)
           op == [plain EXCEPT !.generation = generation]
<1>2. plain \in Entries /\ plain.kind = kind /\ plain.by = r
  BY <1>1, OperationIs
<1>3. tail' = Append(tail, op)
  BY DEF Join, Asked
<1> HIDE DEF plain
<1>4. op \in Entries /\ op.kind = kind /\ op.by = r
  BY <1>2 DEF Entries
<1>5. kind \in Expected(r)' BY Constants DEF Expected
<1>6. kind \notin Leased BY KindsAre
<1> HIDE DEF op
<1> QED BY <1>3, <1>4, <1>5, <1>6 DEF TailGoes, Joining, Leased, Aimed

LEMMA AsksAimed ==
    ASSUME IInv, NEW r \in Requests, requests'[r] = "waiting",
           NEW kind \in {"open", "takeHuman"},
           NEW target \in Targets \union {NoPage} \union Aliases,
           kind = "open" => target \in Aliases,
           kind = "takeHuman" => target # NoPage /\ \A t \in Turns : ~IsLive(t)',
           tail' = Join(tail, [Operation(kind, r) EXCEPT !.target = target])
    PROVE  TailGoes(r)
<1>0. kind \in PublicKinds BY DEF PublicKinds
<1>1. r \in Askers /\ kind \in Kinds BY <1>0, RequestIs, KindsAre
<1> DEFINE plain == Operation(kind, r)
           op == [plain EXCEPT !.target = target]
<1>2. plain \in Entries /\ plain.kind = kind /\ plain.by = r
  BY <1>1, OperationIs
<1>3. tail' = Append(tail, op)
  BY DEF Join
<1> HIDE DEF plain
<1>4. op \in Entries /\ op.kind = kind /\ op.by = r /\ op.target = target
  BY <1>2 DEF Entries
<1>5. kind \in Expected(r)' BY <1>0, Constants DEF Expected
<1>6. kind \notin Leased BY <1>0, KindsAre
<1> HIDE DEF op
<1>7. Aimed(op) BY <1>4 DEF Aimed
<1> QED BY <1>3, <1>4, <1>5, <1>6, <1>7 DEF TailGoes, Joining, Leased

\* The step of a request.
LEMMA RequestFollows ==
    ASSUME IInv, NEW r \in Requests, Absent(r),
           CallsGo({}), TailGoes(r), GrantsGo(r), SessionGoes(r),
           \A t \in Turns : /\ IsLive(t)' => IsLive(t)
                            /\ ~IsLive(t) => grants'[t] = grants[t],
           \E at \in {"revoking", "waiting", "done"} : requests' = [requests EXCEPT ![r] = at],
           \/ answers' = [answers EXCEPT ![r] = NoAnswer]
           \/ answers' = answers /\ answers[r] = NoAnswer,
           refused' \in BOOLEAN, UNCHANGED requestFrame
    PROVE  IInv' /\ CallerStep(r)
<1>1. r \in Askers /\ requests \in [Requests -> {"idle", "revoking", "waiting", "done"}]
      /\ answers \in [Askers -> [code : {"none", "ok", "failed", "lost"}, value : Nat]]
  BY RequestIs
<1>2. UNCHANGED <<step, turns, approving, balance, faults>> BY DEF requestFrame
<1>3. /\ requests' \in [Requests -> {"idle", "revoking", "waiting", "done"}]
      /\ \A other \in Requests \ {r} : requests'[other] = requests[other]
  BY <1>1
<1>4. AskersGo(r)
  <2>1. CallsGo({r}) BY Constants DEF CallsGo
  <2> QED BY <1>1, <1>2, <1>3, <2>1, AskersFollow
<1>5. TurnsOK'
  <2>1. \A t \in Turns : turns[t] = "none" => ~IsLive(t) BY DEF IInv, TurnsOK
  <2> QED BY <1>2, <2>1, TurnsKept
<1> QED BY <1>1, <1>2, <1>3, <1>4, <1>5, OtherFollows DEF CallsGo, IInv, TypeOK

\* A step that leaves the grants and the session.
LEMMA StillGoes ==
    ASSUME IInv, UNCHANGED <<grants, session, calls, refused>>, NEW r \in Requests
    PROVE  /\ CallsGo({}) /\ GrantsGo(r) /\ SessionGoes(r) /\ refused' \in BOOLEAN
           /\ \A t \in Turns : IsLive(t)' => IsLive(t)
<1>1. \A t \in Turns : LessOf(grants[t], grants[t]) BY TurnIs, LessIsLess
<1> QED BY <1>1, RequestIs DEF CallsGo, GrantsGo, SessionGoes, IsLive, IInv, TypeOK

LEMMA RequestMadeFollows ==
    ASSUME IInv, NEW r \in Requests, NEW kind \in RequestKinds, NEW generation \in Expectations,
           Request(r, kind, generation)
    PROVE  IInv' /\ CallerStep(r)
<1>1. /\ requests[r] = "idle" /\ kind \notin {"close", "takeHuman"}
      /\ requests' = [requests EXCEPT ![r] = "waiting"]
      /\ UNCHANGED <<session, answers, grants, calls, refused>> /\ UNCHANGED requestFrame
  BY DEF Request
<1>2. requests'[r] = "waiting" BY <1>1, RequestIs
<1>3. kind \in PublicKinds /\ generation \in Int BY Constants, RequestIs
<1>4. TailGoes(r)
  <2>1. CASE kind = "open"
    <3>1. PICK alias \in Aliases :
            tail' = Join(tail, [Operation(kind, r) EXCEPT !.target = alias])
      BY <2>1 DEF Request
    <3> QED BY <1>2, <1>3, <2>1, <3>1, AsksAimed
  <2>2. CASE kind # "open"
    BY <1>1, <1>2, <1>3, <2>2, AsksDated DEF Request
  <2> QED BY <2>1, <2>2
<1>5. Absent(r) /\ answers[r] = NoAnswer BY <1>1, RequestIs
<1> QED BY <1>1, <1>4, <1>5, StillGoes, RequestFollows

LEMMA RequestCloseFollows ==
    ASSUME IInv, NEW r \in Requests, NEW generation \in Expectations,
           RequestClose(r, generation)
    PROVE  IInv' /\ CallerStep(r)
<1>1. requests[r] = "idle" /\ UNCHANGED <<answers, refused>> /\ UNCHANGED requestFrame
  BY DEF RequestClose
<1>2. Absent(r) /\ answers[r] = NoAnswer /\ r \in Askers /\ generation \in Int
      /\ requests \in [Requests -> {"idle", "revoking", "waiting", "done"}]
  BY <1>1, RequestIs
<1>3. refused' \in BOOLEAN BY <1>1 DEF IInv, TypeOK
<1>4. PICK R : R = {t \in Turns : IsLive(t)} OBVIOUS
<1>5. CASE /\ Revokes(R, r) /\ calls' = Rejected(R)
           /\ requests' = [requests EXCEPT ![r] = "revoking"]
  <2>1. "release" \in Expected(r)'
    <3>1. requests'[r] = "revoking" BY <1>2, <1>5
    <3> QED BY <3>1, Constants DEF Expected
  <2>2. /\ CallsGo({}) /\ TailGoes(r) /\ GrantsGo(r) /\ SessionGoes(r)
        /\ \A t \in Turns : /\ IsLive(t)' => IsLive(t)
                            /\ t \notin R => grants'[t] = grants[t]
    BY <1>2, <1>5, <2>1, RevokedGoes
  <2> QED BY <1>1, <1>2, <1>3, <1>4, <1>5, <2>2, RequestFollows
<1>6. CASE /\ tail' = Join(tail, Asked("close", r, generation))
           /\ requests' = [requests EXCEPT ![r] = "waiting"]
           /\ UNCHANGED <<grants, session, calls>>
  <2>1. requests'[r] = "waiting" BY <1>2, <1>6
  <2>2. "close" \in PublicKinds \ {"open", "takeHuman"} BY DEF PublicKinds
  <2>3. TailGoes(r) BY <1>2, <1>6, <2>1, <2>2, AsksDated
  <2> QED BY <1>1, <1>2, <1>6, <2>3, StillGoes, RequestFollows
<1> QED BY <1>4, <1>5, <1>6 DEF RequestClose

LEMMA RequestCloseGoesOnFollows ==
    ASSUME IInv, NEW r \in Requests, NEW generation \in Expectations,
           RequestCloseGoesOn(r, generation)
    PROVE  IInv' /\ CallerStep(r)
<1>1. /\ answers[r] # NoAnswer /\ answers' = [answers EXCEPT ![r] = NoAnswer]
      /\ tail' = Join(tail, Asked("close", r, generation))
      /\ requests' = [requests EXCEPT ![r] = "waiting"]
      /\ UNCHANGED <<session, grants, calls, refused>> /\ UNCHANGED requestFrame
  BY DEF RequestCloseGoesOn
<1>2. requests'[r] = "waiting" /\ Absent(r) /\ generation \in Int BY <1>1, RequestIs
<1>3. "close" \in PublicKinds \ {"open", "takeHuman"} BY DEF PublicKinds
<1>4. TailGoes(r) BY <1>1, <1>2, <1>3, AsksDated
<1> QED BY <1>1, <1>2, <1>4, StillGoes, RequestFollows

LEMMA AnsweredFollows ==
    ASSUME IInv, NEW r \in Requests, Answered(r) PROVE IInv' /\ CallerStep(r)
<1>1. /\ answers[r] # NoAnswer /\ answers' = [answers EXCEPT ![r] = NoAnswer]
      /\ requests' = [requests EXCEPT ![r] = "done"]
      /\ UNCHANGED <<session, tail, grants, calls, refused>> /\ UNCHANGED requestFrame
  BY DEF Answered
<1>2. Absent(r) BY <1>1, RequestIs
<1> QED BY <1>1, <1>2, StillGoes, RequestFollows DEF TailGoes

LEMMA RequestTakeoverFollows ==
    ASSUME IInv, NEW r \in Requests, NEW generation \in Expectations,
           RequestTakeover(r, generation)
    PROVE  IInv' /\ CallerStep(r)
<1>1. requests[r] = "idle" /\ UNCHANGED answers /\ UNCHANGED requestFrame
  BY DEF RequestTakeover
<1>2. Absent(r) /\ answers[r] = NoAnswer /\ r \in Askers /\ ~ClaimAnswered(r)
      /\ calls \in [Calls -> CallRecords] /\ session \in Sessions
      /\ requests \in [Requests -> {"idle", "revoking", "waiting", "done"}]
  BY <1>1, RequestIs
<1>3. PICK R : R = {t \in Turns : IsLive(t)} OBVIOUS
<1>4. /\ grants' = [t \in Turns |-> IF t \in R THEN Withdrawn(grants[t]) ELSE grants[t]]
      /\ calls' = Rejected(R)
  BY <1>3 DEF RequestTakeover
<1>5. CallsGo({}) BY <1>2, <1>4, RejectedKeepsCalls
<1>6. /\ \A t \in Turns : LessOf(grants'[t], grants[t]) /\ ~IsLive(t)'
      /\ \A t \in Turns : ~IsLive(t) => grants'[t] = grants[t]
      /\ grants' \in [Turns -> GrantRecords]
  <2>1. \A t \in Turns : /\ LessOf(Withdrawn(grants[t]), grants[t])
                         /\ Withdrawn(grants[t]).state = "revoked"
                         /\ LessOf(grants[t], grants[t])
    BY TurnIs, WithdrawnIsLess, LessIsLess
  <2> QED BY <1>3, <1>4, <2>1 DEF IsLive, LessOf
<1>7. GrantsGo(r) BY <1>6 DEF GrantsGo
<1>8. CASE /\ requests' = [requests EXCEPT ![r] = "done"]
           /\ refused' = (refused \/ session.mode = "agent")
           /\ UNCHANGED <<session, tail>>
  <2>1. refused' \in BOOLEAN BY <1>8 DEF IInv, TypeOK
  <2>2. SessionGoes(r) /\ TailGoes(r) BY <1>2, <1>8 DEF SessionGoes, TailGoes
  <2> QED BY <1>1, <1>2, <1>5, <1>6, <1>7, <1>8, <2>1, <2>2, RequestFollows
<1>9. CASE /\ requests' = [requests EXCEPT ![r] = "waiting"]
           /\ session' = Preempted(session)
           /\ tail' = Join(tail, [Operation("takeHuman", r) EXCEPT !.target = session.target])
           /\ UNCHANGED refused /\ session.target # NoPage
  <2>1. refused' \in BOOLEAN BY <1>9 DEF IInv, TypeOK
  <2>2. requests'[r] = "waiting" BY <1>2, <1>9
  <2>3. PICK target \in Targets \union {NoPage} \union Aliases :
            target = session.target /\ target # NoPage
    BY <1>2, <1>9 DEF Sessions
  <2>4. TailGoes(r) BY <1>6, <1>9, <2>2, <2>3, AsksAimed
  <2>5. SessionGoes(r)
    <3>1. requests'[r] # requests[r] BY <1>1, <1>2, <1>9
    <3> QED BY <1>9, <3>1 DEF SessionGoes
  <2> QED BY <1>1, <1>2, <1>5, <1>6, <1>7, <1>9, <2>1, <2>4, <2>5, RequestFollows
<1> QED BY <1>8, <1>9 DEF RequestTakeover, TakeoverRefused

LEMMA ContinueFollows ==
    ASSUME IInv, NEW c \in Calls, Continue(c) PROVE IInv' /\ CallerStep(c)
BY StartFollows, OpenedFollows, ClaimTakenFollows, StatedFollows, ActedFollows,
   ProjectedFollows, LeftFollows, CallClosesFollows DEF Continue

-----------------------------------------------------------------------------
(* The steps of the Broker.                                                *)

LEMMA CurrentIs ==
    ASSUME NEW s \in Sessions
    PROVE  LET n == Current(s)
           IN  /\ n \in Sessions /\ n.mode = s.mode /\ n.epoch = s.epoch /\ n.budget = s.budget
               /\ n.target = s.target /\ n.history = s.history /\ n.generation = s.generation
               /\ s.page = NoPage => n.page = NoPage
<1> DEFINE old == [s EXCEPT !.page = NoPage, !.recovery = "expired"]
<1>1. /\ old \in Sessions /\ old.mode = s.mode /\ old.epoch = s.epoch /\ old.budget = s.budget
      /\ old.target = s.target /\ old.history = s.history /\ old.generation = s.generation
      /\ old.page = NoPage
  BY DEF Sessions
<1>2. Current(s) = s \/ Current(s) = old BY DEF Current
<1> HIDE DEF old
<1> QED BY <1>1, <1>2

LEMMA DisposedIs ==
    ASSUME NEW s \in Sessions
    PROVE  LET n == Disposed(s)
           IN  /\ n \in Sessions /\ n.mode = s.mode /\ n.epoch = s.epoch /\ n.budget = s.budget
               /\ n.target = s.target /\ n.history = s.history /\ n.generation = s.generation
               /\ n.page = NoPage
BY DEF Sessions, Disposed

LEMMA ClaimedIs ==
    ASSUME NEW s \in Sessions, NEW op \in Entries
    PROVE  LET n == Claimed(s, op)
           IN  n \in Sessions /\ n.mode = "agent" /\ n.epoch = s.epoch + 1 /\ n.budget = op.budget
<1> DEFINE e == s.epoch + 1
           b == op.budget
           n == [s EXCEPT !.mode = "agent", !.epoch = e, !.budget = b]
<1>1. e \in Nat /\ b \in Nat \union {NoBudget} BY DEF Sessions, Entries
<1>2. Claimed(s, op) = n BY DEF Claimed
<1> HIDE DEF e, b
<1>3. n \in Sessions /\ n.mode = "agent" /\ n.epoch = e /\ n.budget = b
  BY <1>1 DEF Sessions
<1> QED BY <1>2, <1>3 DEF e, b

LEMMA ReturnedIs ==
    ASSUME NEW s \in Sessions
    PROVE  LET n == Returned(s)
           IN  n \in Sessions /\ n.mode = "observer" /\ n.epoch >= s.epoch /\ n.budget = NoBudget
<1> DEFINE e == s.epoch + 1
           n == [s EXCEPT !.mode = "observer", !.epoch = e, !.budget = NoBudget]
<1>1. e \in Nat /\ e >= s.epoch BY DEF Sessions
<1>2. Returned(s) = n BY DEF Returned
<1> HIDE DEF e
<1>3. n \in Sessions /\ n.mode = "observer" /\ n.epoch = e /\ n.budget = NoBudget
  BY <1>1 DEF Sessions
<1> QED BY <1>1, <1>2, <1>3

LEMMA ProjectedIs ==
    ASSUME NEW s \in Sessions, NEW op \in Entries
    PROVE  LET n == [s EXCEPT !.budget = op.budget]
           IN  n \in Sessions /\ n.mode = s.mode /\ n.epoch = s.epoch /\ n.budget = op.budget
BY DEF Sessions, Entries

LEMMA ReopenedIs ==
    ASSUME NEW s \in Sessions, s.mode = "observer", s.budget = NoBudget
    PROVE  LET n == Reopened(s)
           IN  n \in Sessions /\ n.mode = "observer" /\ n.budget = NoBudget
<1>1. PICK fresh : fresh = IF s.recovery = "expired" THEN NewSession(s.generation) ELSE s
  OBVIOUS
<1>2. fresh \in Sessions /\ fresh.mode = "observer" /\ fresh.budget = NoBudget
  <2>1. NewSession(s.generation) \in Sessions
    BY EmptySeq DEF NewSession, Sessions
  <2>2. NewSession(s.generation).mode = "observer" /\ NewSession(s.generation).budget = NoBudget
    BY DEF NewSession
  <2> QED BY <1>1, <2>1, <2>2
<1>3. PICK h : h = Append(fresh.history, fresh.target) OBVIOUS
<1> DEFINE n == [fresh EXCEPT !.history = h]
<1>4. fresh.target # NoPage => n \in Sessions /\ n.mode = "observer" /\ n.budget = NoBudget
  <2>1. ASSUME fresh.target # NoPage PROVE h \in Seq(Targets)
    BY <1>2, <1>3, <2>1, AppendProperties DEF Sessions
  <2> QED BY <1>2, <2>1 DEF Sessions
<1>5. Reopened(s) = fresh \/ (fresh.target # NoPage /\ Reopened(s) = n)
  BY <1>1, <1>3 DEF Reopened
<1> HIDE DEF n
<1> QED BY <1>2, <1>4, <1>5

LEMMA ShownIs ==
    ASSUME NEW s \in Sessions, NEW target \in Targets \union {NoPage}
    PROVE  LET n == Shown(s, target)
           IN  /\ n \in Sessions /\ n.mode = s.mode /\ n.epoch = s.epoch /\ n.budget = s.budget
               /\ n.history = s.history /\ n.target = target /\ n.page = target
BY DEF Sessions, Shown

LEMMA WentIs ==
    ASSUME NEW s \in Sessions
    PROVE  LET n == Went(s)
           IN  n \in Sessions /\ n.mode = s.mode /\ n.epoch = s.epoch /\ n.budget = s.budget
<1>1. PICK h, g : h = Front(s.history) /\ g = s.generation + 1 OBVIOUS
<1> DEFINE n == [s EXCEPT !.history = h, !.generation = g]
<1>2. h \in Seq(Targets) /\ g \in Nat
  <2>1. s.history \in Seq(Targets) /\ s.generation \in Nat BY DEF Sessions
  <2>2. Len(s.history) \in Nat /\ \A i \in 1 .. Len(s.history) - 1 : s.history[i] \in Targets
    BY <2>1, LenProperties, ElementOfSeq
  <2>3. SubSeq(s.history, 1, Len(s.history) - 1) \in Seq(Targets)
    BY <2>2, SubSeqProperties
  <2> QED BY <1>1, <2>1, <2>3 DEF Front
<1>3. Went(s) = n BY <1>1 DEF Went
<1>4. n \in Sessions /\ n.mode = s.mode /\ n.epoch = s.epoch /\ n.budget = s.budget
  BY <1>2 DEF Sessions
<1> QED BY <1>3, <1>4

LEMMA ReadyIs ==
    ASSUME NEW s \in Sessions
    PROVE  LET n == Ready(s)
           IN  /\ n \in Sessions /\ n.mode = s.mode /\ n.epoch = s.epoch /\ n.budget = s.budget
               /\ n.target = s.target /\ n.page = s.page /\ n.recovery = "ready"
<1>1. PICK g : g = s.generation + 1 OBVIOUS
<1> DEFINE n == [s EXCEPT !.recovery = "ready", !.generation = g]
<1>2. g \in Nat BY <1>1 DEF Sessions
<1>3. Ready(s) = n BY <1>1 DEF Ready
<1>4. /\ n \in Sessions /\ n.mode = s.mode /\ n.epoch = s.epoch /\ n.budget = s.budget
      /\ n.target = s.target /\ n.page = s.page /\ n.recovery = "ready"
  BY <1>2 DEF Sessions
<1> QED BY <1>3, <1>4

LEMMA HumanReadyIs ==
    ASSUME NEW s \in Sessions
    PROVE  LET n == HumanReady(s)
           IN  /\ n \in Sessions /\ n.mode = "human" /\ n.epoch = s.epoch + 1
               /\ n.budget = NoBudget
               /\ n.target = s.target /\ n.page = s.page /\ n.recovery = "ready"
<1>1. PICK r : r = Ready(s) OBVIOUS
<1>2. /\ r \in Sessions /\ r.epoch = s.epoch
      /\ r.target = s.target /\ r.page = s.page /\ r.recovery = "ready"
  BY <1>1, ReadyIs
<1>3. PICK e : e = r.epoch + 1 OBVIOUS
<1> DEFINE n == [r EXCEPT !.mode = "human", !.epoch = e, !.budget = NoBudget]
<1>4. e \in Nat BY <1>2, <1>3 DEF Sessions
<1>5. HumanReady(s) = n BY <1>1, <1>3 DEF HumanReady
<1>6. /\ n \in Sessions /\ n.mode = "human" /\ n.epoch = e /\ n.budget = NoBudget
      /\ n.target = r.target /\ n.page = r.page /\ n.recovery = "ready"
  BY <1>2, <1>4 DEF Sessions
<1> QED BY <1>2, <1>3, <1>5, <1>6

LEMMA ClosedIs ==
    ASSUME NEW s \in Sessions
    PROVE  /\ Closed(s) \in Sessions /\ Closed(s).mode = "observer"
           /\ Closed(s).epoch = s.epoch /\ Closed(s).budget = s.budget
           /\ LET n == [Closed(s) EXCEPT !.epoch = @ + 1, !.budget = NoBudget]
              IN  /\ n \in Sessions /\ n.mode = "observer" /\ n.epoch >= s.epoch
                  /\ n.budget = NoBudget
<1>1. PICK c : c = Closed(s) OBVIOUS
<1>2. c \in Sessions /\ c.mode = "observer" /\ c.epoch = s.epoch /\ c.budget = s.budget
  BY <1>1, EmptySeq DEF Closed, Sessions
<1>3. PICK e : e = c.epoch + 1 OBVIOUS
<1> DEFINE n == [c EXCEPT !.epoch = e, !.budget = NoBudget]
<1>4. e \in Nat /\ e >= s.epoch BY <1>2, <1>3 DEF Sessions
<1>5. [Closed(s) EXCEPT !.epoch = @ + 1, !.budget = NoBudget] = n BY <1>1, <1>3
<1>6. n \in Sessions /\ n.mode = "observer" /\ n.epoch = e /\ n.budget = NoBudget
  BY <1>2, <1>4 DEF Sessions
<1> HIDE DEF n
<1> QED BY <1>1, <1>2, <1>4, <1>5, <1>6

LEMMA NotRebuiltIs ==
    ASSUME NEW s \in Sessions, NEW target \in Targets \union {NoPage}, NEW op
    PROVE  LET n == NotRebuilt(s, op, target)
           IN  /\ n \in Sessions /\ n.epoch = s.epoch
               /\ op.kind # "takeHuman" => n.mode = s.mode /\ n.budget = s.budget
               /\ op.kind = "takeHuman" => n.mode = "observer" /\ n.budget = NoBudget
<1> DEFINE broken == [s EXCEPT !.page = NoPage, !.target = target, !.recovery = "unavailable"]
           n == [broken EXCEPT !.mode = "observer", !.budget = NoBudget]
<1>1. /\ broken \in Sessions /\ broken.mode = s.mode /\ broken.epoch = s.epoch
      /\ broken.budget = s.budget
  BY DEF Sessions
<1>2. NotRebuilt(s, op, target) = IF op.kind = "takeHuman" THEN n ELSE broken
  BY DEF NotRebuilt
<1> HIDE DEF broken
<1>3. n \in Sessions /\ n.mode = "observer" /\ n.epoch = broken.epoch /\ n.budget = NoBudget
  BY <1>1 DEF Sessions
<1> HIDE DEF n
<1> QED BY <1>1, <1>2, <1>3

\* What "open", "back" and the others show.
LEMMA DestinationIs ==
    ASSUME NEW s \in Sessions, NEW op, Aimed(op),
           op.kind \in {"back", "agentBack"} => s.history # <<>>
    PROVE  /\ Destination(s, op) \in Targets \union {NoPage}
           /\ op.kind \notin {"open", "back", "agentBack"} => Destination(s, op) = s.target
<1>1. s.generation \in Nat /\ s.history \in Seq(Targets) /\ s.target \in Targets \union {NoPage}
  BY DEF Sessions
<1>2. CASE op.kind = "open"
  BY <1>1, <1>2 DEF Destination, Aimed, Targets
<1>3. CASE op.kind \in {"back", "agentBack"}
  <2>1. Len(s.history) \in Nat \ {0} BY <1>1, <1>3, EmptySeq, LenProperties
  <2>2. s.history[Len(s.history)] \in Targets BY <1>1, <2>1, ElementOfSeq
  <2> QED BY <1>3, <2>2 DEF Destination, Last
<1>4. CASE op.kind \notin {"open", "back", "agentBack"}
  BY <1>1, <1>4 DEF Destination
<1> QED BY <1>2, <1>3, <1>4

LEMMA RebuiltIs ==
    ASSUME NEW s \in Sessions, NEW op, op.kind \in Rebuilding, Aimed(op),
           op.kind \in {"back", "agentBack"} => s.history # <<>>
    PROVE  LET n == Rebuilt(s, op)
           IN  /\ n \in Sessions
               /\ op.kind # "takeHuman" =>
                    n.mode = s.mode /\ n.epoch = s.epoch /\ n.budget = s.budget
               /\ op.kind = "takeHuman" =>
                    /\ n.mode = "human" /\ n.epoch = s.epoch + 1 /\ n.budget = NoBudget
                    /\ n.page = s.target /\ n.recovery = "ready"
<1>1. PICK target \in Targets \union {NoPage} :
        /\ target = Destination(s, op)
        /\ op.kind = "takeHuman" => target = s.target
  BY DestinationIs
<1>2. PICK shown \in Sessions :
        /\ shown = Shown(s, target)
        /\ shown.mode = s.mode /\ shown.epoch = s.epoch /\ shown.budget = s.budget
        /\ shown.page = target
  BY ShownIs
<1>3. CASE op.kind = "takeHuman"
  <2>1. Rebuilt(s, op) = HumanReady(shown) BY <1>1, <1>2, <1>3 DEF Rebuilt
  <2> QED BY <1>1, <1>2, <1>3, <2>1, HumanReadyIs
<1>4. CASE op.kind # "takeHuman"
  <2>1. Rebuilt(s, op) \in {Went(shown), shown, Ready(shown)}
    BY <1>1, <1>2, <1>4 DEF Rebuilt
  <2> QED BY <1>2, <1>4, <2>1, WentIs, ReadyIs
<1> QED BY <1>3, <1>4

LEMMA VerdictIs ==
    ASSUME NEW s \in Sessions, NEW op \in Entries
    PROVE  /\ Verdict(s, op) \in {"ok", "failed", "lost"}
           /\ Verdict(s, op) = "ok" =>
                /\ op.kind = "open" => s.mode = "observer"
                /\ op.kind \in {"reload", "back", "close", "restart", "reconnect"} => s.mode # "agent"
                /\ op.kind \in {"back", "agentBack"} => s.history # <<>>
                /\ op.kind = "takeHuman" => s.target = op.target
                /\ op.kind \in {"back", "restart", "reconnect"} => s.generation = op.generation
                /\ op.kind \in AgentKinds \union {"budget"} => HoldsControl(s, op.epoch)
                /\ op.kind = "return" => s.mode = "human"
                /\ op.kind = "claim" => s.mode # "human"
BY DEF Verdict, OpenVerdict, PublicVerdict, LiveVerdict, RebuildVerdict, ClaimVerdict,
       AgentVerdict, Both, Unless, Sessions, Entries, AgentKinds

-----------------------------------------------------------------------------

LEMMA StaysIs ==
    ASSUME UNCHANGED authorityVars
    PROVE  /\ UNCHANGED <<turns, grants, calls, requests, approving, refused, balance>>
           /\ \A who : Expected(who)' = Expected(who) /\ TurnOf(who)' = TurnOf(who)
           /\ \A t : IsLive(t)' = IsLive(t)
BY DEF authorityVars, Expected, TurnOf, IsLive

\* The claim of an asker is answered as it was.
ClaimStays(who) ==
    /\ ClaimAnswered(who)' <=> ClaimAnswered(who)
    /\ ClaimAnswered(who) => answers'[who] = answers[who]

ControlStays ==
    /\ \A who \in Askers : ClaimStays(who)
    /\ session'.mode = session.mode /\ session'.epoch = session.epoch
    /\ session'.budget = session.budget

ControlEnds ==
    /\ \A who \in Askers : ClaimStays(who)
    /\ session'.mode # "agent" /\ session'.epoch >= session.epoch
    /\ session'.budget = NoBudget

\* The renewed session of an open that had its turn when all was taken.
ControlRenewed ==
    /\ \A who \in Askers : ~ClaimAnswered(who)'
    /\ session'.mode # "agent" /\ session'.budget = NoBudget

BudgetShown ==
    /\ \A who \in Askers : ClaimStays(who)
    /\ tail # <<>> /\ tail[1].kind = "budget"
    /\ session.mode = "agent" /\ session'.mode = "agent" /\ session'.epoch = session.epoch
    /\ session'.budget = tail[1].budget

ControlClaimed ==
    \E op \in Entries :
        /\ tail # <<>> /\ op = tail[1] /\ tail' = Tail(tail)
        /\ op.kind = "claim" /\ op.by \in Askers
        /\ session'.mode = "agent" /\ session'.epoch = session.epoch + 1
        /\ session'.budget = op.budget
        /\ ClaimAnswered(op.by)' /\ answers'[op.by].value = session'.epoch
        /\ ~ClaimAnswered(op.by)
        /\ \A who \in Askers \ {op.by} : ClaimStays(who)

BrokerGoes ==
    /\ tail' = tail \/ (tail # <<>> /\ tail' = Tail(tail))
    /\ ControlStays \/ ControlEnds \/ ControlRenewed \/ BudgetShown \/ ControlClaimed

LEMMA OneClaim ==
    ASSUME IInv, NEW who, "claim" \in Expected(who)
    PROVE  Expected(who) = {"claim"} /\ TurnOf(who) \in Turns /\ who \in Askers
<1>1. (who \in Calls /\ calls[who].at = "claiming") \/ who \in Turns \ Calls
  BY DEF Expected, Awaited, AgentKinds, PublicKinds
<1>2. Expected(who) = {"claim"}
  BY <1>1 DEF Expected, Awaited
<1> QED BY <1>1, <1>2, Constants DEF TurnOf, IInv, TurnsOK

LEMMA BrokerKeepsOrder ==
    ASSUME IInv, UNCHANGED authorityVars, BrokerGoes PROVE OrderOK'
<1>1. /\ UNCHANGED <<turns, grants, calls, requests, approving, refused, balance>>
      /\ \A who : Expected(who)' = Expected(who) /\ TurnOf(who)' = TurnOf(who)
      /\ \A t : IsLive(t)' = IsLive(t)
  BY StaysIs
<1>2. tail \in Seq(Entries) BY DEF IInv, TypeOK, BrokerType
<1>3. \A i \in Places' : \E j \in Places :
        tail'[i] = tail[j] /\ j \in Nat /\ i \in Nat
        /\ (tail' = tail => j = i) /\ (tail' # tail => j = i + 1 /\ i \in Places)
  <2>1. CASE tail' = tail
    <3>1. Places' = Places /\ \A i \in Places : i \in Nat
      BY <1>2, <2>1, TailIs DEF Places
    <3> QED BY <2>1, <3>1
  <2>2. CASE tail' # tail
    BY <1>2, <2>2, TailTaken DEF BrokerGoes
  <2> QED BY <2>1, <2>2
<1>4. \A t \in Turns : \A op : Foreign(op, t)' <=> Foreign(op, t)
  BY <1>1 DEF Foreign
<1>5. ASSUME NEW t \in Turns, AllOwn(t) PROVE AllOwn(t)'
  BY <1>3, <1>4, <1>5 DEF AllOwn
<1>6. ASSUME NEW t \in Turns, IsLive(t), NEW who \in Askers, ClaimAnswered(who)', TurnOf(who) = t
      PROVE  AllOwn(t)'
  <2>1. CASE ClaimAnswered(who)
    BY <1>5, <1>6, <2>1 DEF IInv, OrderOK
  <2>2. CASE ~ClaimAnswered(who)
    <3>1. PICK op \in Entries :
            tail # <<>> /\ op = tail[1] /\ tail' = Tail(tail) /\ op.kind = "claim" /\ who = op.by
      BY <1>6, <2>2 DEF BrokerGoes, ControlStays, ControlEnds, ControlRenewed, BudgetShown,
                        ControlClaimed, ClaimStays
    <3>2. tail[1].kind \in Leased /\ TurnOf(tail[1].by) = t /\ 1 \in Places
      BY <1>2, <1>6, <3>1, TailIs DEF Leased
    <3>3. \A j \in Places : 1 < j => ~Foreign(tail[j], t)
      BY <1>6, <3>2 DEF IInv, OrderOK
    <3>4. \A i \in Places' : tail'[i] = tail[i + 1] /\ i + 1 \in Places /\ 1 < i + 1
      <4>1. \A i \in Places' : tail'[i] = tail[i + 1] /\ i + 1 \in Places /\ i \in Nat /\ i \in Places
        BY <1>2, <3>1, TailTaken
      <4>2. \A i \in Places : i >= 1 BY DEF Places
      <4> QED BY <4>1, <4>2
    <3> QED BY <1>4, <3>3, <3>4 DEF AllOwn
  <2> QED BY <2>1, <2>2
<1>7. ASSUME NEW t \in Turns, IsLive(t), NEW i \in Places', NEW j \in Places', i < j,
             tail'[i].kind \in Leased, TurnOf(tail'[i].by) = t
      PROVE  ~Foreign(tail'[j], t)
  <2>1. PICK m \in Places, n \in Places :
            tail'[i] = tail[m] /\ tail'[j] = tail[n] /\ m < n
    BY <1>3, <1>7
  <2> QED BY <1>7, <2>1 DEF IInv, OrderOK
<1>8. \A t \in Turns : IsLive(t) /\ grants[t].epoch # 0 => AllOwn(t)'
  BY <1>5 DEF IInv, OrderOK
<1>9. \A t \in Turns : IsLive(t) => \A i, j \in Places' :
        i < j /\ tail'[i].kind \in Leased /\ TurnOf(tail[i].by)' = t => ~Foreign(tail[j], t)'
  BY <1>1, <1>4, <1>7
<1> QED BY <1>1, <1>6, <1>8, <1>9 DEF OrderOK

LEMMA BrokerKeepsClaims ==
    ASSUME IInv, TypeOK', UNCHANGED authorityVars, BrokerGoes PROVE ClaimsOK'
<1>1. /\ UNCHANGED <<turns, grants, calls, requests, approving, refused, balance>>
      /\ \A who : Expected(who)' = Expected(who) /\ TurnOf(who)' = TurnOf(who)
  BY StaysIs
<1>2. session.epoch \in Nat /\ session'.epoch \in Nat
  BY DEF IInv, TypeOK, BrokerType, Sessions
<1>3. CASE ControlStays
  <2>1. \A t \in Turns : HoldsSession(t)' <=> HoldsSession(t)
    BY <1>1, <1>3 DEF HoldsSession, HoldsControl, ControlStays
  <2> QED BY <1>1, <1>3, <2>1 DEF IInv, ClaimsOK, ControlStays, ClaimStays
<1>4. CASE ControlEnds
  BY <1>2, <1>4 DEF IInv, ClaimsOK, ControlEnds, ClaimStays
<1>5. CASE ControlRenewed
  BY <1>5 DEF ClaimsOK, ControlRenewed
<1>6. CASE BudgetShown
  <2>1. \A t \in Turns : HoldsSession(t)' <=> HoldsSession(t)
    BY <1>1, <1>6 DEF HoldsSession, HoldsControl, BudgetShown
  <2> QED BY <1>1, <1>6, <2>1 DEF IInv, ClaimsOK, BudgetShown, ClaimStays
<1>7. CASE ControlClaimed
  <2>1. PICK op \in Entries :
        /\ op.by \in Askers
        /\ session'.mode = "agent" /\ session'.epoch = session.epoch + 1
        /\ ClaimAnswered(op.by)' /\ answers'[op.by].value = session'.epoch
        /\ ~ClaimAnswered(op.by)
        /\ \A who \in Askers \ {op.by} : ClaimStays(who)
    BY <1>7 DEF ControlClaimed
  <2>2. \A who \in Askers : ClaimAnswered(who)' /\ who # op.by =>
            ClaimAnswered(who) /\ answers'[who].value \in 1 .. session.epoch
            /\ answers'[who].value = answers[who].value
    BY <2>1 DEF ClaimStays, IInv, ClaimsOK
  <2>3. \A who \in Askers : ClaimAnswered(who)' => answers'[who].value \in 1 .. session'.epoch
    BY <1>2, <2>1, <2>2
  <2>4. \A who, other \in Askers :
          ClaimAnswered(who)' /\ ClaimAnswered(other)'
            /\ answers'[who].value = answers'[other].value => who = other
    BY <1>2, <2>1, <2>2 DEF IInv, ClaimsOK
  <2> QED BY <1>2, <2>1, <2>3, <2>4 DEF ClaimsOK
<1> QED BY <1>3, <1>4, <1>5, <1>6, <1>7 DEF BrokerGoes

LEMMA BrokerKeepsBudgets ==
    ASSUME IInv, TypeOK', UNCHANGED authorityVars, BrokerGoes PROVE BudgetsOK'
<1>1. /\ UNCHANGED <<turns, grants, calls, requests, approving, refused, balance>>
      /\ \A who : Expected(who)' = Expected(who) /\ TurnOf(who)' = TurnOf(who)
      /\ \A t : IsLive(t)' = IsLive(t)
  BY StaysIs
<1>2. /\ session.epoch \in Nat /\ session'.epoch \in Nat /\ tail \in Seq(Entries)
      /\ session \in Sessions
  BY DEF IInv, TypeOK, BrokerType, Sessions
<1>3. \A i \in Places' : tail'[i].kind \in {"claim", "budget"} =>
        (grants[TurnOf(tail[i].by)].budget)' <= tail'[i].budget
  <2>1. \A i \in Places' : \E j \in Places : tail'[i] = tail[j]
    <3>1. CASE tail' = tail BY <3>1 DEF Places
    <3>2. CASE tail # <<>> /\ tail' = Tail(tail) BY <1>2, <3>2, TailTaken
    <3> QED BY <3>1, <3>2 DEF BrokerGoes
  <2> QED BY <1>1, <2>1 DEF IInv, BudgetsOK
<1>4. ASSUME NEW t \in Turns, IsLive(t), tail # <<>>, tail[1].kind \in Leased,
             grants[t].epoch # 0 \/ \E who \in Askers : ClaimAnswered(who) /\ TurnOf(who) = t
      PROVE  TurnOf(tail[1].by) = t
  <2>1. 1 \in Places BY <1>2, <1>4, TailIs
  <2>2. AllOwn(t) BY <1>4 DEF IInv, OrderOK
  <2> QED BY <1>4, <2>1, <2>2 DEF AllOwn, Foreign
<1>5. tail # <<>> /\ tail[1].kind \in {"claim", "budget"} =>
        grants[TurnOf(tail[1].by)].budget <= tail[1].budget
  <2>1. tail # <<>> => 1 \in Places BY <1>2, TailIs
  <2> QED BY <2>1 DEF IInv, BudgetsOK
<1>6. CASE ControlStays
  <2>1. \A t \in Turns : Controls(t)' => Controls(t)
    BY <1>1, <1>6 DEF Controls, ControlStays, ClaimStays
  <2> QED BY <1>1, <1>3, <1>6, <2>1 DEF IInv, BudgetsOK, ControlStays
<1>7. CASE ControlEnds \/ ControlRenewed
  BY <1>3, <1>7 DEF BudgetsOK, ControlEnds, ControlRenewed
<1>8. CASE BudgetShown
  <2>1. ASSUME NEW t \in Turns, Controls(t)' PROVE grants[t].budget <= session'.budget
    <3>1. IsLive(t) /\ (grants[t].epoch = session.epoch
                        \/ \E who \in Askers : ClaimAnswered(who) /\ TurnOf(who) = t)
      BY <1>1, <1>8, <2>1 DEF Controls, BudgetShown, ClaimStays
    <3>2. session.epoch >= 1 BY <1>8 DEF BudgetShown, IInv, ClaimsOK
    <3>3. TurnOf(tail[1].by) = t BY <1>2, <1>4, <1>8, <3>1, <3>2 DEF BudgetShown, Leased
    <3> QED BY <1>5, <1>8, <3>3 DEF BudgetShown
  <2> QED BY <1>1, <1>3, <1>8, <2>1 DEF BudgetsOK, BudgetShown
<1>9. CASE ControlClaimed
  <2>1. PICK op \in Entries :
        /\ tail # <<>> /\ op = tail[1] /\ op.kind = "claim" /\ op.by \in Askers
        /\ session'.mode = "agent" /\ session'.epoch = session.epoch + 1
        /\ session'.budget = op.budget
        /\ \A who \in Askers \ {op.by} : ClaimStays(who)
    BY <1>9 DEF ControlClaimed
  <2>2. ASSUME NEW t \in Turns, Controls(t)' PROVE grants[t].budget <= session'.budget
    <3>1. IsLive(t) /\ (grants[t].epoch = session'.epoch
                \/ \E who \in Askers : /\ ClaimAnswered(who)' /\ TurnOf(who) = t
                                       /\ answers'[who].value = session'.epoch)
      BY <1>1, <2>2 DEF Controls
    <3>2. TurnOf(op.by) = t
      <4>1. CASE grants[t].epoch = session'.epoch
        BY <1>2, <1>4, <2>1, <3>1, <4>1 DEF Leased
      <4>2. ASSUME NEW who \in Askers, who # op.by, ClaimAnswered(who)', TurnOf(who) = t
            PROVE  TurnOf(op.by) = t
        BY <1>4, <2>1, <3>1, <4>2 DEF Leased, ClaimStays
      <4> QED BY <3>1, <4>1, <4>2
    <3> QED BY <1>5, <2>1, <3>2
  <2> QED BY <1>1, <1>3, <2>1, <2>2 DEF BudgetsOK
<1> QED BY <1>6, <1>7, <1>8, <1>9 DEF BrokerGoes

LEMMA BrokerKeepsAll ==
    ASSUME IInv, TypeOK', UNCHANGED authorityVars, BrokerGoes, InFlight', WorkOK'
    PROVE  IInv'
<1>1. TurnsOK'
  BY StaysIs DEF IInv, TurnsOK
<1> QED BY <1>1, BrokerKeepsOrder, BrokerKeepsClaims, BrokerKeepsBudgets DEF IInv

\* A step that leaves the tail and the answers.
LEMMA TailStays ==
    ASSUME IInv, UNCHANGED authorityVars, UNCHANGED <<tail, answers, faults>>,
           session' \in Sessions, step' \in {"queued", "resolving", "working"}
    PROVE  InFlight' /\ TypeOK' /\ \A who \in Askers : ClaimStays(who)
<1>1. /\ UNCHANGED <<turns, grants, calls, requests, approving, refused, balance>>
      /\ \A who : Expected(who)' = Expected(who) /\ TurnOf(who)' = TurnOf(who)
  BY StaysIs
<1>2. Places' = Places /\ \A who : Absent(who)' <=> Absent(who)
  BY DEF Places, Absent
<1>3. InFlight' BY <1>1, <1>2 DEF IInv, InFlight
<1>4. TypeOK' BY <1>1 DEF IInv, TypeOK, BrokerType
<1>5. \A who \in Askers : ClaimStays(who)
  BY <1>1 DEF ClaimStays, ClaimAnswered
<1> QED BY <1>3, <1>4, <1>5

LEMMA AnswerGoes ==
    ASSUME IInv, UNCHANGED authorityVars, UNCHANGED faults, NEW op, tail # <<>>, op = Head(tail),
           NEW s \in Sessions, NEW code \in {"ok", "failed", "lost"}, Answer(op, s, code)
    PROVE  /\ op = tail[1] /\ op \in Entries /\ session' = s /\ tail' = Tail(tail)
           /\ TypeOK' /\ InFlight' /\ WorkOK'
           /\ op.by \in Askers => answers[op.by] = NoAnswer /\ answers'[op.by].code = code
           /\ \A who \in Askers : who # op.by => answers'[who] = answers[who]
           /\ op.kind # "claim" \/ code # "ok" => \A who \in Askers : ClaimStays(who)
           /\ op.kind = "claim" /\ code = "ok" =>
                /\ op.by \in Askers /\ ClaimAnswered(op.by)' /\ answers'[op.by].value = s.epoch
                /\ ~ClaimAnswered(op.by)
                /\ \A who \in Askers \ {op.by} : ClaimStays(who)
<1>1. /\ UNCHANGED <<turns, grants, calls, requests, approving, refused, balance>>
      /\ \A who : Expected(who)' = Expected(who) /\ TurnOf(who)' = TurnOf(who)
  BY StaysIs
<1>2. /\ tail \in Seq(Entries) /\ 1 \in Places /\ op = tail[1] /\ op \in Entries
      /\ answers \in [Askers -> [code : {"none", "ok", "failed", "lost"}, value : Nat]]
  BY TailIs DEF IInv, TypeOK, BrokerType
<1>3. op.by \in Askers \union {Nobody} /\ op.kind \in Expected(op.by)
  BY <1>2 DEF Entries, IInv, InFlight
<1>4. PICK v : v = IF code = "ok" THEN Value(s, op) ELSE 0 OBVIOUS
<1>5. v \in Nat /\ (op.kind = "claim" /\ code = "ok" => v = s.epoch)
  BY <1>4 DEF Value, Sessions
<1>6. /\ session' = s /\ tail' = Tail(tail) /\ step' = "queued"
      /\ answers' = IF op.by = Nobody THEN answers
                    ELSE [answers EXCEPT ![op.by] = [code |-> code, value |-> v]]
  BY <1>4 DEF Answer
<1>7. /\ answers' \in [Askers -> [code : {"none", "ok", "failed", "lost"}, value : Nat]]
      /\ \A who \in Askers : who # op.by => answers'[who] = answers[who]
      /\ op.by \in Askers => answers'[op.by].code = code /\ answers'[op.by].value = v
  BY <1>2, <1>3, <1>5, <1>6, Constants
<1>8. /\ tail' \in Seq(Entries)
      /\ \A i \in Places' : tail'[i] = tail[i + 1] /\ i + 1 \in Places /\ i \in Nat /\ i + 1 # 1
  <2>1. \A i \in Places : i >= 1 BY DEF Places
  <2>2. tail' \in Seq(Entries)
        /\ \A i \in Places' : tail'[i] = tail[i + 1] /\ i + 1 \in Places /\ i \in Places /\ i \in Nat
    BY <1>2, <1>6, TailTaken
  <2> QED BY <2>1, <2>2
<1>9. TypeOK' BY <1>1, <1>6, <1>7, <1>8 DEF IInv, TypeOK, BrokerType
<1>10. op.by \in Askers => answers[op.by] = NoAnswer
  BY <1>2 DEF IInv, InFlight, Absent
<1>11. InFlight'
  <2>1. \A i \in Places' : tail'[i].kind \in Expected(tail'[i].by) /\ Aimed(tail'[i])
    BY <1>8 DEF IInv, InFlight
  <2>2. \A i, j \in Places' : tail'[i].by = tail'[j].by /\ tail'[i].by # Nobody => i = j
    <3> SUFFICES ASSUME NEW i \in Places', NEW j \in Places',
                        tail'[i].by = tail'[j].by, tail'[i].by # Nobody
                 PROVE  i = j
      OBVIOUS
    <3>1. i + 1 = j + 1 BY <1>8 DEF IInv, InFlight
    <3> QED BY <1>8, <3>1
  <2>3. ASSUME NEW who \in Askers, answers'[who] # NoAnswer
        PROVE  Expected(who) # {} /\ \A i \in Places' : tail'[i].by # who
    <3>1. CASE who = op.by
      BY <1>2, <1>3, <1>8, <3>1, Constants DEF IInv, InFlight
    <3>2. CASE who # op.by
      BY <1>7, <1>8, <2>3, <3>2 DEF IInv, InFlight, Absent
    <3> QED BY <3>1, <3>2
  <2> QED BY <1>1, <2>1, <2>2, <2>3 DEF InFlight, Absent
<1>12. WorkOK' BY <1>6 DEF WorkOK
<1>13. \A who \in Askers : who # op.by => ClaimStays(who)
  BY <1>1, <1>7 DEF ClaimStays, ClaimAnswered
<1>14. op.by \in Askers => ~ClaimAnswered(op.by)
  BY <1>10 DEF ClaimAnswered, NoAnswer
<1>15. ASSUME op.kind # "claim" \/ code # "ok" PROVE \A who \in Askers : ClaimStays(who)
  <2>1. ASSUME op.by \in Askers PROVE ~ClaimAnswered(op.by)'
    <3>1. CASE code # "ok" BY <1>7, <2>1, <3>1 DEF ClaimAnswered
    <3>2. CASE op.kind # "claim"
      <4>1. "claim" \notin Expected(op.by) BY <1>3, <3>2, OneClaim
      <4> QED BY <1>1, <4>1 DEF ClaimAnswered
    <3> QED BY <1>15, <3>1, <3>2
  <2> QED BY <1>13, <1>14, <2>1 DEF ClaimStays
<1>16. ASSUME op.kind = "claim", code = "ok"
       PROVE  /\ op.by \in Askers /\ ClaimAnswered(op.by)' /\ answers'[op.by].value = s.epoch
              /\ ~ClaimAnswered(op.by)
  <2>1. op.by \in Askers BY <1>3, <1>16, NobodyIs
  <2> QED BY <1>1, <1>3, <1>5, <1>7, <1>14, <1>16, <2>1 DEF ClaimAnswered
<1> QED BY <1>2, <1>6, <1>7, <1>9, <1>10, <1>11, <1>12, <1>13, <1>15, <1>16

-----------------------------------------------------------------------------
(* What the step properties say of one step.                               *)

Kept ==
    session.mode = "human" /\ session'.mode # "human" =>
        /\ session'.mode = "observer"
        /\ \/ faults' # faults
           \/ \E r \in Requests : requests'[r] # requests[r]
           \/ tail # <<>> /\ Head(tail).by \in Requests /\ tail' = Tail(tail)

HumanGetsReady ==
    session.mode # "human" /\ session'.mode = "human" =>
        /\ session.target # NoPage /\ session'.page = session.target
        /\ session'.recovery = "ready"
        /\ \A t \in Turns : IsLive(t)' => grants'[t].epoch # session'.epoch

Granted == \A c \in Calls : Succeeds(c) => HoldsSession(calls[c].turn) \/ refused

OnTheirPage ==
    step = "working" /\ step' = "queued" /\ Head(tail).kind \in {"back", "restart", "reconnect"}
        => Head(tail).generation = session.generation

StepIsSound == Kept /\ HumanGetsReady /\ Granted /\ OnTheirPage

LEMMA CallerIsSound ==
    ASSUME IInv, TypeOK', NEW who \in Askers \union {Nobody}, CallerStep(who) PROVE StepIsSound
<1>1. session \in Sessions /\ step' = step BY DEF IInv, TypeOK, BrokerType, CallerStep
<1>2. Kept /\ HumanGetsReady
  BY <1>1, SessionsAre DEF Kept, HumanGetsReady, CallerStep, SessionGoes
<1>3. Granted
  BY Constants DEF Granted, Succeeds, CallerStep, AskersGo, NoAnswer
<1>4. OnTheirPage BY <1>1 DEF OnTheirPage
<1> QED BY <1>2, <1>3, <1>4 DEF StepIsSound

\* A step that succeeds no call and gives the page to no human.
LEMMA OnTheirPageHolds ==
    ASSUME IInv PROVE OnTheirPage
BY TailIs DEF IInv, TypeOK, BrokerType, WorkOK, OnTheirPage

LEMMA FaultFollows ==
    ASSUME IInv, Fault PROVE IInv' /\ StepIsSound
<1>1. /\ UNCHANGED authorityVars /\ faults' = faults + 1 /\ faults < MaxFaults
      /\ UNCHANGED <<tail, step, answers>>
  BY DEF Fault, PageNavigates, PageLeaves, BrowserLost, SessionDue
<1>2. faults' \in 0 .. MaxFaults /\ faults' # faults /\ session \in Sessions
      /\ session.generation \in Nat /\ session.epoch \in Nat
  BY <1>1, Constants DEF IInv, TypeOK, BrokerType, Sessions
<1>3. /\ session' \in Sessions /\ session'.target = session.target /\ session'.history = session.history
      /\ \/ /\ session'.mode = session.mode /\ session'.epoch = session.epoch
            /\ session'.budget = session.budget
         \/ /\ session'.mode = "observer" /\ session'.epoch >= session.epoch
            /\ session'.budget = NoBudget
      /\ session.page = NoPage => session'.page = NoPage /\ session'.generation = session.generation
  <2>1. CASE PageNavigates
    <3>1. PICK g \in Nat : g = session.generation + 1 BY <1>2
    <3>2. session' = [session EXCEPT !.generation = g] /\ session.page # NoPage
      BY <2>1, <3>1 DEF PageNavigates
    <3> QED BY <1>2, <3>2 DEF Sessions
  <2>2. CASE PageLeaves
    BY <1>2, <2>2 DEF PageLeaves, Sessions
  <2>3. CASE BrowserLost
    <3>1. PICK e \in Nat : e = session.epoch + 1 BY <1>2
    <3>2. PICK r : r = IF session.target # NoPage /\ session.recovery # "expired"
                       THEN "disconnected" ELSE session.recovery
      OBVIOUS
    <3>3. r \in {"closed", "ready", "expired", "disconnected", "unavailable"}
      BY <1>2, <3>2 DEF Sessions
    <3> DEFINE n == [session EXCEPT !.epoch = e, !.mode = "observer", !.budget = NoBudget,
                                    !.page = NoPage, !.recovery = r]
    <3>4. session' = n
      BY <2>3, <3>1, <3>2 DEF BrowserLost
    <3>5. /\ n \in Sessions /\ n.mode = "observer" /\ n.epoch = e /\ n.budget = NoBudget
          /\ n.page = NoPage /\ n.target = session.target /\ n.history = session.history
          /\ n.generation = session.generation
      BY <1>2, <3>3 DEF Sessions
    <3> HIDE DEF n
    <3> QED BY <1>2, <3>1, <3>4, <3>5
  <2>4. CASE SessionDue
    BY <1>2, <2>4 DEF SessionDue, Sessions
  <2> QED BY <2>1, <2>2, <2>3, <2>4 DEF Fault
<1>4. step' \in {"queued", "resolving", "working"} BY <1>1 DEF IInv, TypeOK, BrokerType
<1>5. /\ UNCHANGED <<turns, grants, calls, requests, approving, refused, balance>>
      /\ \A who : Expected(who)' = Expected(who)
  BY <1>1, StaysIs
<1>6. Places' = Places /\ \A who : Absent(who)' <=> Absent(who)
  BY <1>1 DEF Places, Absent
<1>7. InFlight' BY <1>1, <1>5, <1>6 DEF IInv, InFlight
<1>8. TypeOK' BY <1>1, <1>2, <1>3, <1>5 DEF IInv, TypeOK, BrokerType
<1>9. \A who \in Askers : ClaimStays(who)
  BY <1>1, <1>5 DEF ClaimStays, ClaimAnswered
<1>10. BrokerGoes
  BY <1>1, <1>3, <1>9 DEF BrokerGoes, ControlStays, ControlEnds
<1>11. WorkOK'
  BY <1>1, <1>3 DEF IInv, WorkOK
<1>12. Kept /\ HumanGetsReady BY <1>2, <1>3 DEF Kept, HumanGetsReady
<1>13. Granted BY <1>1, Constants DEF Granted, Succeeds
<1> QED BY <1>1, <1>7, <1>8, <1>10, <1>11, <1>12, <1>13, BrokerKeepsAll, OnTheirPageHolds DEF StepIsSound

LEMMA BeginFollows ==
    ASSUME IInv, Begins PROVE IInv' /\ StepIsSound
<1>1. UNCHANGED authorityVars /\ UNCHANGED faults /\ Begin /\ tail # <<>> /\ step = "queued"
  BY DEF Begins, Begin
<1>2. PICK op \in Entries : op = Head(tail) /\ op = tail[1] /\ Aimed(op) /\ op.kind \in Expected(op.by)
                            /\ op.by \in Askers \union {Nobody}
  BY <1>1, TailIs DEF IInv, TypeOK, BrokerType, InFlight, Entries
<1>3. session \in Sessions BY DEF IInv, TypeOK, BrokerType
<1>4. PICK s \in Sessions :
        /\ s = Current(session)
        /\ s.mode = session.mode /\ s.epoch = session.epoch /\ s.budget = session.budget
        /\ s.target = session.target /\ s.history = session.history
        /\ s.generation = session.generation
  BY <1>3, CurrentIs
<1>5. PICK code \in {"ok", "failed", "lost"} : code = Verdict(s, op)
  BY VerdictIs
<1>6. s.epoch \in Nat BY DEF Sessions
<1>7. CASE code # "ok" /\ Answer(op, s, code)
  <2>1. /\ session' = s /\ tail' = Tail(tail) /\ TypeOK' /\ InFlight' /\ WorkOK'
        /\ op.by \in Askers => answers[op.by] = NoAnswer /\ answers'[op.by].code = code
        /\ \A who \in Askers : who # op.by => answers'[who] = answers[who]
        /\ \A who \in Askers : ClaimStays(who)
    BY <1>1, <1>2, <1>7, AnswerGoes
  <2>2. BrokerGoes BY <1>1, <1>4, <2>1 DEF BrokerGoes, ControlStays
  <2>3. Kept /\ HumanGetsReady BY <1>4, <2>1 DEF Kept, HumanGetsReady
  <2>4. Granted BY <1>7, <2>1, Constants DEF Granted, Succeeds
  <2> QED BY <1>1, <2>1, <2>2, <2>3, <2>4, BrokerKeepsAll, OnTheirPageHolds DEF StepIsSound
<1>8. CASE /\ code = "ok" /\ op.kind \in Immediate \union {"reconnect"}
           /\ Answer(op, AtOnce(s, op), "ok")
  <2>1. PICK n : n = AtOnce(s, op) OBVIOUS
  <2>2. /\ n \in Sessions
        /\ op.kind = "claim" => n.mode = "agent" /\ n.epoch = s.epoch + 1 /\ n.budget = op.budget
        /\ op.kind = "return" => n.mode = "observer" /\ n.epoch >= s.epoch /\ n.budget = NoBudget
        /\ op.kind = "budget" => n.mode = s.mode /\ n.epoch = s.epoch /\ n.budget = op.budget
        /\ op.kind \notin {"claim", "return", "budget"} => n = s
    BY <2>1, ClaimedIs, ReturnedIs, ProjectedIs DEF AtOnce
  <2>3. /\ session' = n /\ tail' = Tail(tail) /\ TypeOK' /\ InFlight' /\ WorkOK'
        /\ \A who \in Askers : who # op.by => answers'[who] = answers[who]
        /\ op.kind # "claim" => \A who \in Askers : ClaimStays(who)
        /\ op.kind = "claim" =>
            /\ op.by \in Askers /\ ClaimAnswered(op.by)' /\ answers'[op.by].value = n.epoch
            /\ ~ClaimAnswered(op.by)
            /\ \A who \in Askers \ {op.by} : ClaimStays(who)
    <3>1. Answer(op, n, "ok") /\ "ok" \in {"ok", "failed", "lost"} BY <1>8, <2>1
    <3> QED BY <1>1, <1>2, <2>2, <3>1, AnswerGoes
  <2>4. /\ op.kind = "budget" => s.mode = "agent"
        /\ op.kind = "return" => s.mode = "human"
        /\ op.kind = "claim" => s.mode # "human"
    BY <1>5, <1>8, VerdictIs DEF HoldsControl
  <2>5. BrokerGoes
    <3>1. CASE op.kind = "claim"
      BY <1>1, <1>2, <1>4, <2>2, <2>3, <3>1 DEF BrokerGoes, ControlClaimed
    <3>2. CASE op.kind = "return"
      BY <1>1, <1>4, <2>2, <2>3, <3>2 DEF BrokerGoes, ControlEnds
    <3>3. CASE op.kind = "budget"
      BY <1>1, <1>2, <1>4, <2>2, <2>3, <2>4, <3>3 DEF BrokerGoes, BudgetShown
    <3>4. CASE op.kind \notin {"claim", "return", "budget"}
      BY <1>1, <1>4, <2>2, <2>3, <3>4 DEF BrokerGoes, ControlStays
    <3> QED BY <3>1, <3>2, <3>3, <3>4
  <2>6. op.kind = "return" => op.by \in Requests
    BY <1>2, Constants DEF Expected, Awaited, AgentKinds
  <2>7. Kept
    BY <1>1, <1>2, <1>4, <2>2, <2>3, <2>4, <2>6 DEF Kept
  <2>8. HumanGetsReady BY <1>4, <2>2, <2>3 DEF HumanGetsReady
  <2>9. Granted
    <3>1. ASSUME NEW c \in Calls, Succeeds(c) PROVE FALSE
      <4>1. c = op.by /\ calls[c].at = "acting" BY <2>3, <3>1, Constants DEF Succeeds
      <4>2. op.kind \in AgentKinds BY <1>2, <4>1 DEF Expected, Awaited
      <4> QED BY <1>8, <4>2 DEF AgentKinds, Immediate
    <3> QED BY <3>1 DEF Granted
  <2> QED BY <1>1, <2>3, <2>5, <2>7, <2>8, <2>9, BrokerKeepsAll, OnTheirPageHolds DEF StepIsSound
<1>9. CASE /\ code = "ok" /\ UNCHANGED <<tail, answers>> /\ step' \in {"resolving", "working"}
           /\ step' = "resolving" => op.kind = "open"
           /\ op.kind \in Rebuilding \union {"reload", "act", "close", "agentClose"}
           /\ \/ session' = s /\ op.kind \in {"open", "reload", "act"}
              \/ session' = Disposed(s)
  <2>1. /\ session' \in Sessions /\ session'.mode = s.mode /\ session'.epoch = s.epoch
        /\ session'.budget = s.budget /\ session'.target = s.target
        /\ session'.history = s.history /\ session'.generation = s.generation
        /\ op.kind \notin {"open", "reload", "act"} => session'.page = NoPage
    BY <1>9, DisposedIs
  <2>2. InFlight' /\ TypeOK' /\ \A who \in Askers : ClaimStays(who)
    BY <1>1, <1>9, <2>1, TailStays
  <2>3. BrokerGoes BY <1>4, <1>9, <2>1, <2>2 DEF BrokerGoes, ControlStays
  <2>4. /\ op.kind = "open" => s.mode = "observer"
        /\ op.kind \in {"reload", "back", "close", "restart", "reconnect"} => s.mode # "agent"
        /\ op.kind \in {"back", "agentBack"} => s.history # <<>>
        /\ op.kind = "takeHuman" => s.target = op.target
        /\ op.kind \in {"back", "restart", "reconnect"} => s.generation = op.generation
    BY <1>5, <1>9, VerdictIs
  <2>5. op.by \in Requests => op.kind \in PublicKinds
    <3>1. op.by \in Requests => op.kind \in PublicKinds \union {"release"}
      BY <1>2, Constants DEF Expected
    <3> QED BY <1>9, <3>1 DEF Rebuilding
  <2>6. op.kind = "takeHuman" => op.target # NoPage BY <1>2 DEF Aimed
  <2>7. op.by \in Requests /\ op.kind # "takeHuman" => session'.mode # "agent"
    BY <1>9, <2>1, <2>4, <2>5 DEF PublicKinds, Rebuilding
  <2>8. WorkOK'
    <3>1. tail' # <<>> /\ tail'[1] = op BY <1>1, <1>2, <1>9
    <3> QED BY <1>9, <2>1, <2>4, <2>6, <2>7, <3>1 DEF WorkOK
  <2>9. Kept /\ HumanGetsReady BY <1>4, <2>1 DEF Kept, HumanGetsReady
  <2>10. Granted BY <1>9, Constants DEF Granted, Succeeds
  <2> QED BY <1>1, <2>2, <2>3, <2>8, <2>9, <2>10, BrokerKeepsAll, OnTheirPageHolds DEF StepIsSound
<1>10. \/ code # "ok" /\ Answer(op, s, code)
       \/ /\ code = "ok" /\ op.kind \in Immediate \union {"reconnect"}
          /\ Answer(op, AtOnce(s, op), "ok")
       \/ /\ code = "ok" /\ UNCHANGED <<tail, answers>> /\ step' \in {"resolving", "working"}
          /\ step' = "resolving" => op.kind = "open"
          /\ op.kind \in Rebuilding \union {"reload", "act", "close", "agentClose"}
          /\ \/ session' = s /\ op.kind \in {"open", "reload", "act"}
             \/ session' = Disposed(s)
  BY <1>1, <1>2, <1>4, <1>5 DEF Begin, Work, Rebuilding
<1> QED BY <1>7, <1>8, <1>9, <1>10

\* The operation at work, and what it found.
LEMMA AtWork ==
    ASSUME IInv, step # "queued"
    PROVE  /\ session \in Sessions /\ tail # <<>> /\ session.epoch \in Nat
           /\ session.mode # "agent" => session.budget = NoBudget
           /\ \E op \in Entries :
                /\ op = Head(tail) /\ op = tail[1] /\ Aimed(op) /\ op.kind \in Expected(op.by)
                /\ op.by \in Askers \union {Nobody}
                /\ step = "resolving" => op.kind = "open"
                /\ op.kind \in Rebuilding \union {"reload", "act", "close", "agentClose"}
                /\ op.by \in Requests /\ op.kind # "takeHuman" => session.mode # "agent"
                /\ op.kind = "open" => session.mode = "observer"
                /\ op.kind \in {"back", "agentBack"} => session.history # <<>>
                /\ op.kind = "takeHuman" => session.target # NoPage
                /\ op.kind \in {"takeHuman", "close"} => op.by \in Requests
                /\ op.by \in Calls /\ calls[op.by].at = "acting" => op.kind \in AgentKinds
<1>1. tail # <<>> /\ tail \in Seq(Entries) BY DEF IInv, TypeOK, BrokerType, WorkOK
<1>2. PICK op \in Entries : op = Head(tail) /\ op = tail[1] /\ Aimed(op) /\ op.kind \in Expected(op.by)
                            /\ op.by \in Askers \union {Nobody}
  BY <1>1, TailIs DEF IInv, InFlight, Entries
<1>3. op.kind \in {"takeHuman", "close"} => op.by \in Requests
  BY <1>2, Constants DEF Expected, Awaited, AgentKinds
<1>4. op.by \in Calls /\ calls[op.by].at = "acting" => op.kind \in AgentKinds
  BY <1>2 DEF Expected, Awaited
<1>5. session \in Sessions /\ session.epoch \in Nat BY DEF IInv, TypeOK, BrokerType, Sessions
<1>6. session.mode # "agent" => session.budget = NoBudget BY DEF IInv, BudgetsOK
<1> QED BY <1>1, <1>2, <1>3, <1>4, <1>5, <1>6 DEF IInv, WorkOK

\* An action that succeeds has its grant.
LEMMA GrantedIs ==
    ASSUME IInv, Drained, NEW op, tail # <<>>, op = tail[1], op.kind \in AgentKinds,
           HoldsControl(session, op.epoch), NEW c \in Calls, c = op.by
    PROVE  HoldsSession(calls[c].turn) \/ refused
<1>1. \A who \in Askers : ~ClaimAnswered(who)
  BY DEF Drained, ClaimAnswered, NoAnswer
<1>2. session.mode = "agent" /\ session.epoch >= 1 BY DEF HoldsControl, IInv, ClaimsOK
<1>3. ASSUME ~refused PROVE HoldsSession(calls[c].turn)
  <2>1. PICK t \in Turns : HoldsSession(t) BY <1>1, <1>2, <1>3 DEF IInv, ClaimsOK
  <2>2. IsLive(t) /\ grants[t].epoch # 0 BY <1>2, <2>1 DEF HoldsSession, HoldsControl, IsLive
  <2>3. AllOwn(t) BY <2>2 DEF IInv, OrderOK
  <2>4. 1 \in Places BY TailIs DEF IInv, TypeOK, BrokerType
  <2>5. TurnOf(c) = t BY <2>3, <2>4 DEF AllOwn, Foreign, Leased
  <2> QED BY <2>1, <2>5 DEF TurnOf
<1> QED BY <1>3

\* No live grant has the epoch of the human's page.
LEMMA HumanIsApart ==
    ASSUME IInv, tail # <<>>, tail[1].kind = "takeHuman", NEW t \in Turns, IsLive(t)
    PROVE  grants[t].epoch = 0
<1>1. 1 \in Places BY TailIs DEF IInv, TypeOK, BrokerType
<1> QED BY <1>1 DEF IInv, OrderOK, AllOwn, Foreign

LEMMA CheckedIs ==
    ASSUME NEW op, NEW s, NEW code \in {"ok", "failed", "lost"}
    PROVE  /\ Checked(s, op, code) \in {"ok", "failed", "lost"}
           /\ Checked(s, op, code) = "ok" /\ op.kind \in AgentKinds => HoldsControl(s, op.epoch)
BY DEF Checked

LEMMA ResolveFollows ==
    ASSUME IInv, Drained, Resolve, UNCHANGED authorityVars, UNCHANGED faults
    PROVE  IInv' /\ StepIsSound
<1>1. step = "resolving" /\ step # "queued" BY DEF Resolve
<1>2. PICK op \in Entries : /\ op = Head(tail) /\ op = tail[1] /\ op.kind = "open"
                            /\ op.by \in Askers \union {Nobody}
                            /\ session.mode = "observer"
                            /\ op.by \in Calls /\ calls[op.by].at = "acting" => op.kind \in AgentKinds
  BY <1>1, AtWork
<1>3. session \in Sessions /\ session.budget = NoBudget /\ tail # <<>>
  BY <1>1, <1>2, AtWork
<1>4. CASE Answer(op, session, "failed")
  <2>1. /\ session' = session /\ tail' = Tail(tail) /\ TypeOK' /\ InFlight' /\ WorkOK'
        /\ op.by \in Askers => answers'[op.by].code = "failed"
        /\ \A who \in Askers : who # op.by => answers'[who] = answers[who]
        /\ \A who \in Askers : ClaimStays(who)
    <3>1. "failed" \in {"ok", "failed", "lost"} OBVIOUS
    <3> QED BY <1>2, <1>3, <1>4, <3>1, AnswerGoes
  <2>2. BrokerGoes BY <1>3, <2>1 DEF BrokerGoes, ControlStays
  <2>3. Kept /\ HumanGetsReady BY <2>1 DEF Kept, HumanGetsReady
  <2>4. Granted BY <2>1, Constants DEF Granted, Succeeds
  <2> QED BY <2>1, <2>2, <2>3, <2>4, BrokerKeepsAll, OnTheirPageHolds DEF StepIsSound
<1>5. CASE Work(Disposed(Reopened(Current(session))))
  <2>1. PICK s \in Sessions : s = Current(session) /\ s.mode = "observer" /\ s.budget = NoBudget
    BY <1>2, <1>3, CurrentIs
  <2>2. PICK n \in Sessions : n = Reopened(s) /\ n.mode = "observer" /\ n.budget = NoBudget
    BY <2>1, ReopenedIs
  <2>3. /\ session' \in Sessions /\ session'.mode = "observer" /\ session'.budget = NoBudget
        /\ step' = "working" /\ UNCHANGED <<tail, answers>>
    BY <1>5, <2>1, <2>2, DisposedIs DEF Work
  <2>4. InFlight' /\ TypeOK' /\ \A who \in Askers : ClaimStays(who)
    BY <2>3, TailStays
  <2>5. BrokerGoes
    <3>1. \A who \in Askers : ~ClaimAnswered(who)
      BY DEF Drained, ClaimAnswered, NoAnswer
    <3> QED BY <2>3, <2>4, <3>1 DEF BrokerGoes, ControlRenewed, ClaimStays
  <2>6. WorkOK'
    <3>1. tail' # <<>> /\ tail'[1] = op BY <1>2, <1>3, <2>3
    <3> QED BY <1>2, <2>3, <3>1 DEF WorkOK, Rebuilding
  <2>7. Kept /\ HumanGetsReady BY <1>2, <2>3 DEF Kept, HumanGetsReady
  <2>8. Granted BY <2>3, Constants DEF Granted, Succeeds
  <2> QED BY <2>4, <2>5, <2>6, <2>7, <2>8, BrokerKeepsAll, OnTheirPageHolds DEF StepIsSound
<1> QED BY <1>2, <1>4, <1>5 DEF Resolve

LEMMA RebuildFollows ==
    ASSUME IInv, Drained, Rebuild, UNCHANGED authorityVars, UNCHANGED faults
    PROVE  IInv' /\ StepIsSound
<1>1. step = "working" /\ step # "queued" BY DEF Rebuild
<1>2. PICK op \in Entries :
        /\ op = Head(tail) /\ op = tail[1] /\ Aimed(op)
        /\ op.by \in Askers \union {Nobody}
        /\ op.kind \in {"back", "agentBack"} => session.history # <<>>
        /\ op.kind = "takeHuman" => session.target # NoPage /\ op.by \in Requests
        /\ op.by \in Calls /\ calls[op.by].at = "acting" => op.kind \in AgentKinds
  BY <1>1, AtWork
<1>3. session \in Sessions /\ session.epoch \in Nat /\ tail # <<>> /\ op.kind \in Rebuilding
  BY <1>1, <1>2, AtWork DEF Rebuild
<1>4. UNCHANGED <<turns, grants, calls, requests, approving, refused, balance>>
  BY StaysIs
<1>5. ASSUME NEW s \in Sessions, NEW code \in {"ok", "failed", "lost"}, Answer(op, s, code),
             code = "ok" /\ op.kind \in AgentKinds => HoldsControl(session, op.epoch),
             op.kind # "takeHuman" =>
                s.mode = session.mode /\ s.epoch = session.epoch /\ s.budget = session.budget,
             op.kind = "takeHuman" =>
                /\ s.budget = NoBudget
                /\ \/ s.mode = "observer" /\ s.epoch = session.epoch
                   \/ /\ s.mode = "human" /\ s.epoch = session.epoch + 1
                      /\ s.page = session.target /\ s.recovery = "ready"
      PROVE  IInv' /\ StepIsSound
  <2>1. /\ session' = s /\ tail' = Tail(tail) /\ TypeOK' /\ InFlight' /\ WorkOK'
        /\ op.by \in Askers => answers'[op.by].code = code
        /\ \A who \in Askers : who # op.by => answers'[who] = answers[who]
        /\ op.kind # "claim" => \A who \in Askers : ClaimStays(who)
    BY <1>2, <1>3, <1>5, AnswerGoes
  <2>2. BrokerGoes
    <3>1. op.kind # "claim" BY <1>3 DEF Rebuilding
    <3> QED BY <1>3, <1>5, <2>1, <3>1 DEF BrokerGoes, ControlStays, ControlEnds
  <2>3. Kept BY <1>2, <1>3, <1>5, <2>1 DEF Kept
  <2>4. HumanGetsReady
    <3>1. op.kind = "takeHuman" => \A t \in Turns : IsLive(t) => grants[t].epoch = 0
      BY <1>2, <1>3, HumanIsApart
    <3>2. \A t \in Turns : IsLive(t)' => IsLive(t) BY StaysIs
    <3> QED BY <1>2, <1>3, <1>4, <1>5, <2>1, <3>1, <3>2 DEF HumanGetsReady
  <2>5. Granted
    <3>1. ASSUME NEW c \in Calls, Succeeds(c) PROVE HoldsSession(calls[c].turn) \/ refused
      <4>1. c = op.by /\ code = "ok" /\ calls[c].at = "acting"
        BY <2>1, <3>1, Constants DEF Succeeds
      <4>2. op.kind \in AgentKinds BY <1>2, <4>1
      <4> QED BY <1>2, <1>3, <1>5, <4>1, <4>2, GrantedIs
    <3> QED BY <3>1 DEF Granted
  <2> QED BY <2>1, <2>2, <2>3, <2>4, <2>5, BrokerKeepsAll, OnTheirPageHolds DEF StepIsSound
<1>6. CASE Answer(op, Rebuilt(session, op), Checked(session, op, "ok"))
  <2>1. PICK s : s = Rebuilt(session, op) OBVIOUS
  <2>2. PICK code : code = Checked(session, op, "ok") OBVIOUS
  <2>3. /\ s \in Sessions
        /\ op.kind # "takeHuman" =>
                s.mode = session.mode /\ s.epoch = session.epoch /\ s.budget = session.budget
        /\ op.kind = "takeHuman" =>
                /\ s.mode = "human" /\ s.epoch = session.epoch + 1 /\ s.budget = NoBudget
                /\ s.page = session.target /\ s.recovery = "ready"
    BY <1>2, <1>3, <2>1, RebuiltIs
  <2>4. code \in {"ok", "failed", "lost"}
        /\ (code = "ok" /\ op.kind \in AgentKinds => HoldsControl(session, op.epoch))
    BY <2>2, CheckedIs
  <2>5. Answer(op, s, code) BY <1>6, <2>1, <2>2
  <2> QED BY <1>5, <2>3, <2>4, <2>5
<1>7. ASSUME NEW failure \in {"failed", "lost"},
             NEW target \in {session.target, Destination(session, op)},
             Answer(op, NotRebuilt(session, op, target), Checked(session, op, failure))
      PROVE  IInv' /\ StepIsSound
  <2>1. PICK s : s = NotRebuilt(session, op, target) OBVIOUS
  <2>2. PICK code : code = Checked(session, op, failure) OBVIOUS
  <2>3. target \in Targets \union {NoPage}
    <3>1. session.target \in Targets \union {NoPage} BY <1>3 DEF Sessions
    <3> QED BY <1>2, <1>3, <3>1, DestinationIs
  <2>4. /\ s \in Sessions /\ s.epoch = session.epoch
        /\ op.kind # "takeHuman" => s.mode = session.mode /\ s.budget = session.budget
        /\ op.kind = "takeHuman" => s.mode = "observer" /\ s.budget = NoBudget
    BY <1>3, <2>1, <2>3, NotRebuiltIs
  <2>5. code \in {"ok", "failed", "lost"}
        /\ (code = "ok" /\ op.kind \in AgentKinds => HoldsControl(session, op.epoch))
    BY <2>2, CheckedIs
  <2>6. Answer(op, s, code) BY <1>7, <2>1, <2>2
  <2> QED BY <1>5, <2>4, <2>5, <2>6
<1> QED BY <1>2, <1>6, <1>7 DEF Rebuild

LEMMA PerformFollows ==
    ASSUME IInv, Drained, Perform, UNCHANGED authorityVars, UNCHANGED faults
    PROVE  IInv' /\ StepIsSound
<1>1. step = "working" /\ step # "queued" BY DEF Perform
<1>2. PICK op \in Entries :
        /\ op = Head(tail) /\ op = tail[1]
        /\ op.by \in Askers \union {Nobody}
        /\ op.by \in Requests /\ op.kind # "takeHuman" => session.mode # "agent"
        /\ op.kind = "close" => op.by \in Requests
        /\ op.by \in Calls /\ calls[op.by].at = "acting" => op.kind \in AgentKinds
  BY <1>1, AtWork
<1>3. session \in Sessions /\ session.epoch \in Nat /\ tail # <<>>
      /\ (session.mode # "agent" => session.budget = NoBudget)
  BY <1>1, AtWork
<1>4. ASSUME NEW s \in Sessions, NEW code \in {"ok", "failed", "lost"}, Answer(op, s, code),
             code = "ok" /\ op.kind \in AgentKinds => HoldsControl(session, op.epoch),
             op.kind \in {"reload", "act", "close", "agentClose"},
             \/ s.mode = session.mode /\ s.epoch = session.epoch /\ s.budget = session.budget
             \/ /\ s.mode = "observer" /\ s.epoch >= session.epoch /\ s.budget = NoBudget
                /\ op.kind = "close" \/ session.mode = "agent"
      PROVE  IInv' /\ StepIsSound
  <2>1. /\ session' = s /\ tail' = Tail(tail) /\ TypeOK' /\ InFlight' /\ WorkOK'
        /\ op.by \in Askers => answers'[op.by].code = code
        /\ \A who \in Askers : who # op.by => answers'[who] = answers[who]
        /\ op.kind # "claim" => \A who \in Askers : ClaimStays(who)
    BY <1>2, <1>3, <1>4, AnswerGoes
  <2>2. BrokerGoes
    BY <1>3, <1>4, <2>1 DEF BrokerGoes, ControlStays, ControlEnds
  <2>3. Kept BY <1>2, <1>3, <1>4, <2>1 DEF Kept
  <2>4. HumanGetsReady BY <1>4, <2>1 DEF HumanGetsReady
  <2>5. Granted
    <3>1. ASSUME NEW c \in Calls, Succeeds(c) PROVE HoldsSession(calls[c].turn) \/ refused
      <4>1. c = op.by /\ code = "ok" /\ calls[c].at = "acting"
        BY <2>1, <3>1, Constants DEF Succeeds
      <4>2. op.kind \in AgentKinds BY <1>2, <4>1
      <4> QED BY <1>2, <1>3, <1>4, <4>1, <4>2, GrantedIs
    <3> QED BY <3>1 DEF Granted
  <2> QED BY <2>1, <2>2, <2>3, <2>4, <2>5, BrokerKeepsAll, OnTheirPageHolds DEF StepIsSound
<1>5. CASE /\ op.kind \in {"reload", "act", "close", "agentClose"}
           /\ Answer(op, Worked(session, op), Checked(session, op, "ok"))
  <2>1. PICK s : s = Worked(session, op) OBVIOUS
  <2>2. PICK code : code = Checked(session, op, "ok") OBVIOUS
  <2>3. /\ s \in Sessions
        /\ \/ s = session
           \/ /\ s.mode = "observer" /\ s.epoch >= session.epoch /\ s.budget = NoBudget
              /\ op.kind = "close" \/ session.mode = "agent"
    <3>1. CASE op.kind = "close"
      <4>1. s = Closed(session) BY <2>1, <3>1 DEF Worked
      <4>2. s \in Sessions /\ s.mode = "observer" /\ s.epoch = session.epoch
            /\ s.budget = session.budget
        BY <1>3, <4>1, ClosedIs
      <4>3. session.budget = NoBudget BY <1>2, <1>3, <3>1
      <4> QED BY <1>3, <3>1, <4>2, <4>3
    <3>2. CASE op.kind = "agentClose" /\ HoldsControl(session, op.epoch)
      <4>1. s = [Closed(session) EXCEPT !.epoch = @ + 1, !.budget = NoBudget]
        BY <2>1, <3>2 DEF Worked
      <4> QED BY <1>3, <3>2, <4>1, ClosedIs DEF HoldsControl
    <3>3. CASE op.kind # "close" /\ ~(op.kind = "agentClose" /\ HoldsControl(session, op.epoch))
      BY <1>3, <2>1, <3>3 DEF Worked
    <3> QED BY <3>1, <3>2, <3>3
  <2>4. code \in {"ok", "failed", "lost"}
        /\ (code = "ok" /\ op.kind \in AgentKinds => HoldsControl(session, op.epoch))
    BY <2>2, CheckedIs
  <2>5. Answer(op, s, code) BY <1>5, <2>1, <2>2
  <2> QED BY <1>4, <1>5, <2>3, <2>4, <2>5
<1>6. CASE /\ op.kind \in {"reload", "act"}
           /\ Answer(op, session, Checked(session, op, "failed"))
  <2>1. PICK code : code = Checked(session, op, "failed") OBVIOUS
  <2>2. code \in {"ok", "failed", "lost"}
        /\ (code = "ok" /\ op.kind \in AgentKinds => HoldsControl(session, op.epoch))
    BY <2>1, CheckedIs
  <2> QED BY <1>3, <1>4, <1>6, <2>1, <2>2
<1> QED BY <1>2, <1>5, <1>6 DEF Perform

-----------------------------------------------------------------------------

LEMMA InitIs == ASSUME Init PROVE IInv
<1>1. /\ session = NewSession(0) /\ tail = <<>> /\ step = "queued"
      /\ answers = [who \in Askers |-> NoAnswer]
      /\ turns = [t \in Turns |-> "none"] /\ grants = [t \in Turns |-> NoGrant]
      /\ calls = [c \in Calls |-> IdleCall] /\ requests = [r \in Requests |-> "idle"]
      /\ approving = [t \in Turns |-> NoOperation] /\ refused = FALSE
      /\ balance = [pair \in Turns \X Operations |-> 0] /\ faults = 0
  BY DEF Init, BrokerInit
<1>2. Places = {} /\ tail \in Seq(Entries) BY <1>1, EmptySeq DEF Places
<1>3. /\ session \in Sessions /\ session.mode = "observer" /\ session.budget = NoBudget
  <2>1. <<>> \in Seq(Targets) BY EmptySeq
  <2> QED BY <1>1, <2>1 DEF NewSession, Sessions
<1>4. NoGrant \in GrantRecords /\ IdleCall \in CallRecords
  <2>1. 0 \in 0 .. Budget BY Constants
  <2> QED BY <2>1 DEF NoGrant, IdleCall, GrantRecords, CallRecords
<1>5. NoAnswer \in [code : {"none", "ok", "failed", "lost"}, value : Nat] BY DEF NoAnswer
<1>6. TypeOK
  <2>1. BrokerType BY <1>1, <1>2, <1>3, <1>5 DEF BrokerType
  <2>2. /\ turns \in [Turns -> {"none", "open", "ended"}]
        /\ grants \in [Turns -> GrantRecords] /\ calls \in [Calls -> CallRecords]
        /\ requests \in [Requests -> {"idle", "revoking", "waiting", "done"}]
    BY <1>1, <1>4
  <2>3. /\ approving \in [Turns -> Operations \union {NoOperation}]
        /\ refused \in BOOLEAN /\ balance \in [Turns \X Operations -> Int]
    <3>1. PICK pairs : pairs = Turns \X Operations OBVIOUS
    <3>2. balance = [pair \in pairs |-> 0] BY <1>1, <3>1
    <3>3. balance \in [pairs -> Int] BY <3>2
    <3> QED BY <1>1, <3>1, <3>3
  <2>4. faults \in 0 .. MaxFaults BY <1>1, Constants
  <2> QED BY <2>1, <2>2, <2>3, <2>4 DEF TypeOK
<1>7. \A t \in Turns : ~IsLive(t) BY <1>1 DEF IsLive, NoGrant
<1>8. \A who \in Askers : ~ClaimAnswered(who) /\ answers[who] = NoAnswer
  BY <1>1 DEF ClaimAnswered, NoAnswer
<1>9. InFlight BY <1>2, <1>8 DEF InFlight
<1>10. TurnsOK
  <2>1. Nobody \notin Turns BY Constants
  <2> QED BY <1>1, <1>7, <2>1 DEF TurnsOK, IdleCall
<1>11. OrderOK /\ ClaimsOK BY <1>3, <1>7, <1>8 DEF OrderOK, ClaimsOK
<1>12. BudgetsOK /\ WorkOK BY <1>1, <1>2, <1>3 DEF BudgetsOK, WorkOK
<1> QED BY <1>6, <1>9, <1>10, <1>11, <1>12 DEF IInv

LEMMA NextIs == ASSUME IInv, [Next]_vars PROVE IInv' /\ StepIsSound
<1>1. ASSUME \E who \in Askers \union {Nobody} : CallerStep(who), IInv'
      PROVE  IInv' /\ StepIsSound
  BY <1>1, CallerIsSound DEF IInv
<1>2. CASE Settled
  <2>1. CASE Begins BY <2>1, BeginFollows
  <2>2. ASSUME NEW t \in Turns, Activated(t) PROVE IInv' /\ StepIsSound
    BY <1>1, <2>2, ActivatedFollows, TurnIs
  <2>3. ASSUME NEW c \in Calls, Continue(c) PROVE IInv' /\ StepIsSound
    BY <1>1, <2>3, ContinueFollows, Constants
  <2>4. ASSUME NEW r \in Requests,
               Answered(r) \/ \E generation \in Expectations : RequestCloseGoesOn(r, generation)
        PROVE  IInv' /\ StepIsSound
    BY <1>1, <2>4, AnsweredFollows, RequestCloseGoesOnFollows, Constants
  <2> QED BY <1>2, <2>1, <2>2, <2>3, <2>4 DEF Settled
<1>3. CASE PlaywrightAnswers
  BY <1>3, ResolveFollows, RebuildFollows, PerformFollows DEF PlaywrightAnswers
<1>4. ASSUME NEW t \in Turns, TurnEvent(t) PROVE IInv' /\ StepIsSound
  BY <1>1, <1>4, TurnEventFollows
<1>5. ASSUME NEW r \in Requests, RequestEvent(r) PROVE IInv' /\ StepIsSound
  BY <1>1, <1>5, RequestMadeFollows, RequestCloseFollows, RequestTakeoverFollows, Constants
     DEF RequestEvent
<1>6. ASSUME NEW t \in Turns, GrantDue(t) PROVE IInv' /\ StepIsSound
  BY <1>1, <1>6, GrantDueFollows
<1>7. CASE Fault BY <1>7, FaultFollows
<1>8. CASE UNCHANGED vars
  <2>1. UNCHANGED authorityVars /\ UNCHANGED <<session, tail, step, answers, faults>>
    BY <1>8 DEF vars, brokerVars
  <2>2. session' \in Sessions /\ step' \in {"queued", "resolving", "working"}
    BY <2>1 DEF IInv, TypeOK, BrokerType
  <2>3. InFlight' /\ TypeOK' /\ \A who \in Askers : ClaimStays(who)
    BY <2>1, <2>2, TailStays
  <2>4. BrokerGoes BY <2>1, <2>3 DEF BrokerGoes, ControlStays
  <2>5. WorkOK' BY <2>1 DEF IInv, WorkOK
  <2>6. Kept /\ HumanGetsReady BY <2>1 DEF Kept, HumanGetsReady
  <2>7. Granted BY <2>1, Constants DEF Granted, Succeeds
  <2> QED BY <2>1, <2>3, <2>4, <2>5, <2>6, <2>7, BrokerKeepsAll, OnTheirPageHolds DEF StepIsSound
<1> QED BY <1>2, <1>3, <1>4, <1>5, <1>6, <1>7, <1>8 DEF Next

LEMMA IInvIsSound == ASSUME IInv PROVE AgentControlIsSound
<1>1. AgentControlIsHeld
  <2>1. \A who \in Askers : ClaimAnswered(who) => who \in Claiming
    BY ClaimingIs DEF ClaimAnswered
  <2> QED BY <2>1 DEF AgentControlIsHeld, LeaseAnswered, IInv, ClaimsOK, ClaimAnswered
<1>2. AgentPageIsItsOwn
  BY AtWork DEF AgentPageIsItsOwn
<1>3. BudgetShownIsLeft
  BY DEF BudgetShownIsLeft, IInv, BudgetsOK, Controls, HoldsSession, HoldsControl, IsLive
<1> QED BY <1>1, <1>2, <1>3 DEF AgentControlIsSound, IInv

\* Operations are answered in the order they were asked for, a Turn's after
\* whatever was asked before it began, so that claims are answered in order and
\* the last one answered has the session (local-browser-broker.ts, #serialized;
\* browser-agent-authority.ts, execute and activatePermission).
THEOREM Invariance == Spec => []IInv
<1>1. Init => IInv BY InitIs
<1>2. IInv /\ [Next]_vars => IInv' BY NextIs
<1> QED BY <1>1, <1>2, PTL DEF Spec

\* While the Agent has the page it is the Agent's alone, an active grant or a
\* claim about to be taken will let it go, and the budget shown is not less than
\* what is left, whatever is opened, claimed, revoked, taken over, disposed of
\* or lost meanwhile (local-browser-broker.ts, claimAgent,
\* updateAgentBudget and takeHuman; browser-agent-authority.ts, execute).
THEOREM AgentControlIsSoundTheorem == Spec => []AgentControlIsSound
<1>1. IInv => AgentControlIsSound BY IInvIsSound
<1> QED BY <1>1, Invariance, PTL

\* A human who takes the page gets it ready and keeps it until a request or a
\* lost browser ends that, and a request that rebuilds the page finishes on the
\* page generation it was made on (local-browser-broker.ts, takeHuman,
\* back, restart and reconnect).
THEOREM HumanControlIsSoundTheorem == Spec => HumanControlIsSound
<1>1. IInv /\ [Next]_vars => [Kept]_vars /\ [HumanGetsReady]_vars /\ [OnTheirPage]_vars
  BY NextIs DEF StepIsSound
<1>2. Spec => [][Kept]_vars /\ [][HumanGetsReady]_vars /\ [][OnTheirPage]_vars
  BY <1>1, Invariance, PTL DEF Spec
<1>3. ([][Kept]_vars => HumanControlIsKept) /\ ([][HumanGetsReady]_vars => HumanControlIsReady)
      /\ ([][OnTheirPage]_vars => RequestsFinishOnTheirPage)
  BY PTL DEF HumanControlIsKept, Kept, HumanControlIsReady, HumanGetsReady,
             RequestsFinishOnTheirPage, OnTheirPage
<1> QED BY <1>2, <1>3, PTL DEF HumanControlIsSound

\* An action of the Agent succeeds only while its own Turn's grant controls the
\* page, or after a takeover that was refused: a grant revoked while its action
\* waits in the tail finds its epoch superseded (local-browser-broker.ts, the
\* epoch checks of the agent's operations; browser-agent-authority.ts, execute).
THEOREM ActionsNeedTheirGrantTheorem == Spec => ActionsNeedTheirGrant
<1>1. IInv /\ [Next]_vars => [Granted]_vars
  BY NextIs DEF StepIsSound
<1>2. Spec => [][Granted]_vars
  BY <1>1, Invariance, PTL DEF Spec
<1>3. [][Granted]_vars => ActionsNeedTheirGrant
  BY PTL DEF ActionsNeedTheirGrant, Granted
<1> QED BY <1>2, <1>3, PTL
=============================================================================
