---------------------------- MODULE BrowserControl ----------------------------
(***************************************************************************)
(* BrowserAgentAuthority (backend/src/browser-agent-authority.ts) over the *)
(* BrowserBroker, with those who call it: the suspended MCP tool calls of  *)
(* the Turns, the human's allow-once decisions, the Stop and the end of a  *)
(* Turn, and the browser routes of the workbench (backend/src/server.ts).  *)
(*                                                                         *)
(* Every await of the code is a step boundary here, except an await of an  *)
(* already settled promise. The continuations of settled promises run in   *)
(* any order but before the next event: the continuation of an asker and   *)
(* the start of the next operation of the tail follow one settlement. The  *)
(* claims alone are taken in the order of their answers, because what they *)
(* answer is kept: every asker of a claim is as many microtasks behind it. *)
(*                                                                         *)
(* Abstractions. One Conversation of one generation. An operation is its   *)
(* tool class and a member of a small set that stands for its normalised   *)
(* arguments: "open"; "act" for snapshot, screenshot, click, type, scroll, *)
(* wait and reload, which await Playwright and keep the page; "back";      *)
(* "close". Scope, workspace and tool set of a grant always match.         *)
(***************************************************************************)
EXTENDS BrowserBroker, FiniteSets

CONSTANTS
    Turns,          \* Agent Turns of the Conversation
    Calls,          \* MCP tool calls; each is made at most once
    Requests,       \* requests of the workbench; each is made at most once
    RequestKinds,   \* the public operations the workbench asks for
    Operations,     \* the operations the Agent may call
    Budget,         \* the action budget of a grant
    MaxFaults       \* how often the session may expire, the page or the
                    \* browser act by itself

ASSUME ControlAssumption ==
    /\ Budget \in Nat \ {0} /\ MaxFaults \in Nat
    /\ RequestKinds \subseteq PublicKinds
    /\ \A op \in Operations :
        /\ op.tool \in {"open", "act", "back", "close"}
        /\ op.tool = "open" => op.argument \in Aliases
    /\ Askers = Calls \union Requests \union Turns
    /\ Calls \intersect Requests = {} /\ Turns \intersect (Calls \union Requests) = {}
    /\ Nobody \notin Askers

VARIABLES
    turns,      \* whether a Turn runs
    grants,     \* the BrowserTurnGrant of each Turn
    calls,      \* where each tool call is
    requests,   \* where each request of the workbench is
    approving,  \* the operation whose approval waits for a claim, by Turn
    refused,    \* a takeover was refused after it had removed the grants
    balance,    \* allow-once decisions less executions, by Turn and operation
    faults      \* what the page and the browser did by themselves

authorityVars == <<turns, grants, calls, requests, approving, refused, balance>>
vars == <<brokerVars, authorityVars, faults>>

NoOperation == [tool |-> "none", argument |-> "none"]
NoGrant == [state |-> "none", epoch |-> 0, budget |-> 0, approved |-> {},
            pending |-> {}, target |-> NoPage, due |-> FALSE]
IdleCall == [at |-> "idle", turn |-> Nobody, op |-> NoOperation, left |-> 0]

GrantRecords ==
    [state : {"none", "dormant", "active", "revoked"}, epoch : Nat,
     budget : 0 .. Budget, approved : SUBSET Operations,
     pending : SUBSET Operations, target : Aliases \union {NoPage}, due : BOOLEAN]

CallRecords ==
    [at : {"idle", "suspended", "admitted", "opening", "claiming", "stating",
           "acting", "projecting", "leaving", "closing", "done"},
     turn : Turns \union {Nobody}, op : Operations \union {NoOperation}, left : 0 .. 1]

TypeOK ==
    /\ BrokerType
    /\ turns \in [Turns -> {"none", "open", "ended"}]
    /\ grants \in [Turns -> GrantRecords]
    /\ calls \in [Calls -> CallRecords]
    /\ requests \in [Requests -> {"idle", "revoking", "waiting", "done"}]
    /\ approving \in [Turns -> Operations \union {NoOperation}]
    /\ refused \in BOOLEAN
    /\ balance \in [Turns \X Operations -> Int]
    /\ faults \in 0 .. MaxFaults

Init ==
    /\ BrokerInit
    /\ turns = [t \in Turns |-> "none"]
    /\ grants = [t \in Turns |-> NoGrant]
    /\ calls = [c \in Calls |-> IdleCall]
    /\ requests = [r \in Requests |-> "idle"]
    /\ approving = [t \in Turns |-> NoOperation]
    /\ refused = FALSE
    /\ balance = [pair \in Turns \X Operations |-> 0]
    /\ faults = 0

-----------------------------------------------------------------------------
(* Grants.                                                                 *)

IsLive(t) == grants[t].state \in {"dormant", "active"}
IsCurrent(t) == grants[t].state = "active" /\ ~grants[t].due

\* Those who wait for a claim of the page.
Claiming ==
    {c \in Calls : calls[c].at = "claiming"}
        \union {t \in Turns : approving[t] # NoOperation}

\* No claim that was answered earlier waits to be taken.
Earliest(who) ==
    \A other \in Claiming : answers[other].code = "ok" =>
        answers[who].value <= answers[other].value

Withdrawn(grant) ==
    [grant EXCEPT !.state = "revoked", !.approved = {}, !.pending = {}]

\* A revocation that leaves the suspended calls alone.
RejectedNone(Revoked) == calls

\* The calls suspended on the Turns are rejected, those on an approved
\* operation of a Turn wake.
Rejected(Revoked) ==
    [c \in Calls |-> IF calls[c].at = "suspended" /\ calls[c].turn \in Revoked
                     THEN [calls[c] EXCEPT !.at = "done"] ELSE calls[c]]

Woken(t, op) ==
    [c \in Calls |-> IF calls[c].at = "suspended" /\ calls[c].turn = t /\ calls[c].op = op
                     THEN [calls[c] EXCEPT !.at = "admitted"] ELSE calls[c]]

\* #revoke of a set of grants, up to its await: the grants are withdrawn, Agent
\* control of the session is released, whoever holds it, and a release joins
\* the tail. "by" waits for it.
Revokes(Revoked, by) ==
    /\ grants' = [t \in Turns |-> IF t \in Revoked THEN Withdrawn(grants[t]) ELSE grants[t]]
    /\ session' = Released(session)
    /\ tail' = Join(tail, Operation("release", by))

-----------------------------------------------------------------------------
(* Turns and approvals.                                                    *)

\* prepare: the Turn starts, once no other Turn of the Conversation runs and no
\* other grant is live, with a dormant grant.
Prepare(t) ==
    /\ turns[t] = "none"
    /\ \A other \in Turns : turns[other] # "open" /\ ~IsLive(other)
    /\ turns' = [turns EXCEPT ![t] = "open"]
    /\ grants' = [grants EXCEPT ![t].state = "dormant", ![t].budget = Budget]
    /\ UNCHANGED <<brokerVars, calls, requests, approving, refused, balance, faults>>

\* Stop, or the release at the end of the Turn. Stop waits for an approval in
\* progress, which holds the Turn's control lock; the release does not.
EndTurn(t) ==
    /\ turns[t] = "open"
    /\ turns' = [turns EXCEPT ![t] = "ended"]
    /\ IF IsLive(t)
       THEN Revokes({t}, Nobody) /\ calls' = Rejected({t})
       ELSE UNCHANGED <<grants, session, tail, calls>>
    /\ UNCHANGED <<step, answers, requests, approving, refused, balance, faults>>

GrantDue(t) ==
    /\ IsLive(t) /\ ~grants[t].due
    /\ grants' = [grants EXCEPT ![t].due = TRUE]
    /\ UNCHANGED <<brokerVars, turns, calls, requests, approving, refused, balance, faults>>

\* The timer of a pending permission, a poll of the pending permissions or a
\* late approval finds the grant past its time to live.
GrantExpires(t) ==
    /\ IsLive(t) /\ grants[t].due
    /\ Revokes({t}, Nobody)
    /\ calls' = Rejected({t})
    /\ UNCHANGED <<step, answers, turns, requests, approving, refused, balance, faults>>

MayDecide(t, op) ==
    /\ turns[t] = "open" /\ approving[t] = NoOperation
    /\ IsLive(t) /\ ~grants[t].due
    /\ op \in grants[t].pending

\* approvePending and activatePermission: the first approval activates the
\* grant and, except for an open, claims the page before it wakes the call.
Approve(t, op) ==
    /\ MayDecide(t, op)
    /\ balance' = [balance EXCEPT ![<<t, op>>] = @ + 1]
    /\ IF grants[t].state = "dormant" /\ op.tool # "open"
       THEN /\ grants' = [grants EXCEPT ![t].state = "active", ![t].approved = @ \union {op}]
            /\ tail' = Join(tail, [Operation("claim", t) EXCEPT !.budget = grants[t].budget])
            /\ approving' = [approving EXCEPT ![t] = op]
            /\ UNCHANGED calls
       ELSE /\ grants' = [grants EXCEPT ![t].state = "active",
                             ![t].approved = @ \union {op}, ![t].pending = @ \ {op}]
            /\ calls' = Woken(t, op)
            /\ UNCHANGED <<tail, approving>>
    /\ UNCHANGED <<session, step, answers, turns, requests, refused, faults>>

\* The claim of an approval is answered: the call wakes, or the grant goes.
Activated(t) ==
    /\ approving[t] # NoOperation
    /\ answers[t] # NoAnswer /\ Earliest(t)
    /\ answers' = [answers EXCEPT ![t] = NoAnswer]
    /\ approving' = [approving EXCEPT ![t] = NoOperation]
    /\ IF answers[t].code = "ok" /\ IsCurrent(t)
       THEN /\ grants' = [grants EXCEPT ![t].epoch = answers[t].value,
                             ![t].pending = @ \ {approving[t]}]
            /\ calls' = Woken(t, approving[t])
            /\ UNCHANGED <<session, tail>>
       ELSE Revokes({t}, Nobody) /\ calls' = Rejected({t})
    /\ UNCHANGED <<step, turns, requests, refused, balance, faults>>

Reject(t, op) ==
    /\ MayDecide(t, op)
    /\ Revokes({t}, Nobody)
    /\ calls' = Rejected({t})
    /\ UNCHANGED <<step, answers, turns, requests, approving, refused, balance, faults>>

-----------------------------------------------------------------------------
(* execute, one call.                                                      *)

callFrame == <<step, turns, requests, approving, refused, faults>>

\* The call is admitted at once under an approval nobody used, waits for one,
\* or is denied: another operation of its tool is approved.
Call(c, t, op) ==
    /\ calls[c].at = "idle"
    /\ IsLive(t) /\ ~grants[t].due
    /\ LET sameTool == {other \in grants[t].approved : other.tool = op.tool}
           approved == op \in grants[t].approved
           at == IF approved THEN "admitted" ELSE IF sameTool # {} THEN "done" ELSE "suspended"
       IN  /\ calls' = [calls EXCEPT ![c] = [at |-> at, turn |-> t, op |-> op, left |-> 0]]
           /\ grants' = IF at = "suspended"
                        THEN [grants EXCEPT ![t].pending = @ \union {op}] ELSE grants
    /\ UNCHANGED <<brokerVars, turns, requests, approving, refused, balance, faults>>

\* An execution that leaves its approval behind.
ConsumedKept(t, op) == [grants[t] EXCEPT !.budget = @ - 1]

Consumed(t, op) ==
    [grants[t] EXCEPT !.approved = @ \ {op}, !.budget = @ - 1]

Asks(c, op) == tail' = Join(tail, [op EXCEPT !.by = c])
Moves(c, at) == calls' = [calls EXCEPT ![c].at = at]

\* An awaited #revoke inside the call; "left" more follow before its finally.
Leaves(c, at, left) ==
    /\ Revokes({calls[c].turn}, c)
    /\ calls' = [Rejected({calls[c].turn}) EXCEPT ![c].at = at, ![c].left = left]

Projection(grant) ==
    [Operation("budget", Nobody) EXCEPT !.epoch = grant.epoch, !.budget = grant.budget]

\* finally: a spent budget revokes the grant, else the budget is projected as
\* well as can be.
Ends(c, grant) ==
    LET t == calls[c].turn
    IN  \/ /\ grant.budget = 0
           /\ grants' = [grants EXCEPT ![t] = Withdrawn(grant)]
           /\ session' = Released(session)
           /\ Asks(c, Operation("release", c))
           /\ calls' = [Rejected({t}) EXCEPT ![c].at = "closing"]
        \/ /\ grant.budget > 0
           /\ grants' = [grants EXCEPT ![t] = grant]
           /\ IF grant.state = "active" /\ grant.epoch # 0
              THEN Asks(c, Projection(grant)) /\ Moves(c, "closing")
              ELSE Moves(c, "done") /\ UNCHANGED tail
           /\ UNCHANGED session

Spent(t) == grants[t].budget <= 0

\* The call consumes its approval and one action of the budget, and asks the
\* Broker for its first operation.
Start(c) ==
    /\ calls[c].at = "admitted"
    /\ LET t == calls[c].turn
           op == calls[c].op
           usable == IsCurrent(t) /\ op \in grants[t].approved
           strange == op.tool = "open" /\ grants[t].target \notin {NoPage, op.argument}
       IN  /\ balance' = IF usable THEN [balance EXCEPT ![<<t, op>>] = @ - 1] ELSE balance
           /\ \/ /\ ~usable
                 /\ Moves(c, "done")
                 /\ UNCHANGED <<grants, session, tail>>
              \/ /\ usable /\ Spent(t)
                 /\ Leaves(c, "closing", 0)
              \/ /\ usable /\ ~Spent(t) /\ strange
                 /\ Ends(c, Consumed(t, op))
              \/ /\ usable /\ ~Spent(t) /\ ~strange /\ op.tool = "open"
                 /\ grants' = [grants EXCEPT ![t] =
                                    [Consumed(t, op) EXCEPT !.target = op.argument]]
                 /\ Asks(c, [Operation("open", c) EXCEPT !.target = op.argument])
                 /\ Moves(c, "opening")
                 /\ UNCHANGED session
              \/ /\ usable /\ ~Spent(t) /\ op.tool # "open"
                 /\ grants' = [grants EXCEPT ![t] = Consumed(t, op)]
                 /\ Asks(c, Operation("state", c))
                 /\ Moves(c, "stating")
                 /\ UNCHANGED session
    /\ UNCHANGED <<answers, callFrame>>

\* The call takes the answer it waited for.
Takes(c, at) ==
    /\ calls[c].at = at
    /\ answers[c] # NoAnswer
    /\ answers' = [answers EXCEPT ![c] = NoAnswer]
    /\ UNCHANGED <<callFrame, balance>>

Projects(c, grant) ==
    \/ grant.budget = 0 /\ Ends(c, grant)
    \/ /\ grant.budget > 0
       /\ grants' = [grants EXCEPT ![calls[c].turn] = grant]
       /\ Asks(c, Projection(grant))
       /\ Moves(c, "projecting")
       /\ UNCHANGED session

Opened(c) ==
    /\ Takes(c, "opening")
    /\ LET t == calls[c].turn
           code == answers[c].code
       IN  \/ /\ code = "ok" /\ IsCurrent(t)
              /\ Asks(c, [Operation("claim", c) EXCEPT !.budget = grants[t].budget])
              /\ Moves(c, "claiming")
              /\ UNCHANGED <<grants, session>>
           \/ /\ ~(code = "ok" /\ IsCurrent(t))
              /\ Leaves(c, "leaving", IF code = "lost" THEN 1 ELSE 0)

ClaimTaken(c) ==
    /\ Takes(c, "claiming") /\ Earliest(c)
    /\ LET t == calls[c].turn
           code == answers[c].code
       IN  \/ /\ code = "ok" /\ IsCurrent(t)
              /\ Projects(c, [grants[t] EXCEPT !.epoch = answers[c].value])
           \/ /\ ~(code = "ok" /\ IsCurrent(t))
              /\ Leaves(c, "leaving", IF code = "lost" THEN 1 ELSE 0)

AgentKind(op) ==
    CASE op.tool = "back" -> "agentBack"
      [] op.tool = "close" -> "agentClose"
      [] OTHER -> "act"

Stated(c) ==
    /\ Takes(c, "stating")
    /\ LET t == calls[c].turn
           known == IsCurrent(t) /\ grants[t].epoch # 0
       IN  \/ /\ known
              /\ Asks(c, [Operation(AgentKind(calls[c].op), c) EXCEPT
                            !.generation = answers[c].value, !.epoch = grants[t].epoch])
              /\ Moves(c, "acting")
              /\ UNCHANGED <<grants, session>>
           \/ ~known /\ Ends(c, grants[t])

Acted(c) ==
    /\ Takes(c, "acting")
    /\ LET t == calls[c].turn
           code == answers[c].code
           done == code = "ok" /\ IsCurrent(t)
           closes == calls[c].op.tool = "close"
       IN  \/ done /\ ~closes /\ Projects(c, grants[t])
           \/ /\ code = "lost" \/ (done /\ closes)
              /\ Leaves(c, "leaving", 0)
           \/ ~done /\ code # "lost" /\ Ends(c, grants[t])

Projected(c) ==
    /\ Takes(c, "projecting")
    /\ LET t == calls[c].turn
           code == answers[c].code
           done == code = "ok" /\ IsCurrent(t) /\ grants[t].budget > 0
       IN  \/ done /\ Moves(c, "done") /\ UNCHANGED <<grants, session, tail>>
           \/ code = "lost" /\ Leaves(c, "leaving", 0)
           \/ ~done /\ code # "lost" /\ Ends(c, grants[t])

Left(c) ==
    /\ Takes(c, "leaving")
    /\ \/ calls[c].left > 0 /\ Leaves(c, "leaving", calls[c].left - 1)
       \/ calls[c].left = 0 /\ Ends(c, grants[calls[c].turn])

CallCloses(c) ==
    /\ Takes(c, "closing")
    /\ Moves(c, "done")
    /\ UNCHANGED <<grants, session, tail>>

-----------------------------------------------------------------------------
(* The browser routes of the workbench.                                    *)

requestFrame == <<step, turns, approving, balance, faults>>

Asked(kind, r, generation) == [Operation(kind, r) EXCEPT !.generation = generation]

\* The page generation a request carries was read at most one change ago.
Expectations == {session.generation, session.generation - 1}

\* open, reload, back, restart, reconnect and return join the tail.
Request(r, kind, generation) ==
    /\ requests[r] = "idle"
    /\ kind \in RequestKinds \ {"close", "takeHuman"}
    /\ requests' = [requests EXCEPT ![r] = "waiting"]
    /\ IF kind = "open"
       THEN \E alias \in Aliases :
            tail' = Join(tail, [Operation(kind, r) EXCEPT !.target = alias])
       ELSE tail' = Join(tail, Asked(kind, r, generation))
    /\ UNCHANGED <<session, answers, grants, calls, refused, requestFrame>>

\* close first revokes the Conversation's grants and waits for their releases.
RequestClose(r, generation) ==
    /\ requests[r] = "idle"
    /\ "close" \in RequestKinds
    /\ LET live == {t \in Turns : IsLive(t)}
       IN  IF live # {}
           THEN /\ Revokes(live, r)
                /\ calls' = Rejected(live)
                /\ requests' = [requests EXCEPT ![r] = "revoking"]
           ELSE /\ tail' = Join(tail, Asked("close", r, generation))
                /\ requests' = [requests EXCEPT ![r] = "waiting"]
                /\ UNCHANGED <<grants, session, calls>>
    /\ UNCHANGED <<answers, refused, requestFrame>>

RequestCloseGoesOn(r, generation) ==
    /\ requests[r] = "revoking"
    /\ answers[r] # NoAnswer
    /\ answers' = [answers EXCEPT ![r] = NoAnswer]
    /\ tail' = Join(tail, Asked("close", r, generation))
    /\ requests' = [requests EXCEPT ![r] = "waiting"]
    /\ UNCHANGED <<session, grants, calls, refused, requestFrame>>

\* takeoverConversation removes every grant of the Conversation, without a
\* release, and takeHuman then preempts the session or refuses the request.
RequestTakeover(r, generation) ==
    /\ requests[r] = "idle"
    /\ "takeHuman" \in RequestKinds
    /\ LET live == {t \in Turns : IsLive(t)}
       IN  /\ grants' = [t \in Turns |-> IF t \in live THEN Withdrawn(grants[t]) ELSE grants[t]]
           /\ calls' = Rejected(live)
    /\ IF TakeoverRefused(session, generation)
       THEN /\ requests' = [requests EXCEPT ![r] = "done"]
            /\ refused' = (refused \/ session.mode = "agent")
            /\ UNCHANGED <<session, tail>>
       ELSE /\ requests' = [requests EXCEPT ![r] = "waiting"]
            /\ session' = Preempted(session)
            /\ tail' = Join(tail, [Operation("takeHuman", r) EXCEPT !.target = session.target])
            /\ UNCHANGED refused
    /\ UNCHANGED <<answers, requestFrame>>

Answered(r) ==
    /\ requests[r] = "waiting"
    /\ answers[r] # NoAnswer
    /\ answers' = [answers EXCEPT ![r] = NoAnswer]
    /\ requests' = [requests EXCEPT ![r] = "done"]
    /\ UNCHANGED <<session, tail, grants, calls, refused, requestFrame>>

-----------------------------------------------------------------------------

Continue(c) ==
    \/ Start(c) \/ Opened(c) \/ ClaimTaken(c) \/ Stated(c) \/ Acted(c)
    \/ Projected(c) \/ Left(c) \/ CallCloses(c)

\* What runs in one drain of the event loop, in any order: the operation that
\* comes first in the tail, and the continuations of settled promises.
Begins == Begin /\ UNCHANGED <<authorityVars, faults>>

Settled ==
    \/ Begins
    \/ \E t \in Turns : Activated(t)
    \/ \E c \in Calls : Continue(c)
    \/ \E r \in Requests :
        \/ Answered(r)
        \/ \E generation \in Expectations : RequestCloseGoesOn(r, generation)

\* Everything else is an event of its own, taken when the drain is over.
Drained ==
    /\ tail = <<>> \/ step # "queued"
    /\ \A who \in Askers : answers[who] = NoAnswer
    /\ \A c \in Calls : calls[c].at # "admitted"

PlaywrightAnswers ==
    /\ Drained
    /\ Resolve \/ Rebuild \/ Perform
    /\ UNCHANGED <<authorityVars, faults>>

Fault ==
    /\ Drained
    /\ faults < MaxFaults
    /\ faults' = faults + 1
    /\ PageNavigates \/ PageLeaves \/ BrowserLost \/ SessionDue
    /\ UNCHANGED authorityVars

TurnEvent(t) ==
    \/ Prepare(t) \/ EndTurn(t) \/ GrantExpires(t)
    \/ \E op \in Operations :
        \/ Approve(t, op) \/ Reject(t, op)
        \/ \E c \in Calls : Call(c, t, op)

RequestEvent(r) ==
    \E generation \in Expectations :
        \/ \E kind \in RequestKinds : Request(r, kind, generation)
        \/ RequestClose(r, generation)
        \/ RequestTakeover(r, generation)

Next ==
    \/ Settled
    \/ PlaywrightAnswers
    \/ Drained /\ \E t \in Turns : TurnEvent(t)
    \/ Drained /\ \E r \in Requests : RequestEvent(r)
    \/ \E t \in Turns : GrantDue(t)
    \/ Fault

Spec == Init /\ [][Next]_vars

\* A drain ends, Playwright's waits end by their timeouts, the target resolver
\* answers, and the pending permissions of a grant have a timer.
FairSpec ==
    /\ Spec
    /\ WF_vars(Settled)
    /\ WF_vars(PlaywrightAnswers)
    /\ \A t \in Turns :
        /\ WF_vars(GrantDue(t))
        /\ WF_vars(Drained /\ grants[t].pending # {} /\ GrantExpires(t))

-----------------------------------------------------------------------------
(* Properties.                                                             *)

HoldsSession(t) ==
    grants[t].state = "active" /\ HoldsControl(session, grants[t].epoch)

\* Each execution spends an allow-once decision of its own: identical
\* concurrent calls may share one pending permission, but one approval never
\* lets two of them through, and a waiting approval is always covered.
DecisionsCoverExecutions ==
    \A t \in Turns, op \in Operations :
        balance[<<t, op>>] >= IF op \in grants[t].approved THEN 1 ELSE 0

\* The claim that gave the session its epoch, answered and not yet taken.
LeaseAnswered(who) == answers[who].code = "ok" /\ answers[who].value = session.epoch

\* Agent control of the page always has an owner who will let it go: an active
\* grant with the epoch of the session, or the asker of the claim, who has yet
\* to take the answer. The exception is a takeover that removed the grants and
\* was then refused.
AgentControlIsHeld ==
    session.mode = "agent" =>
        \/ refused
        \/ \E t \in Turns : HoldsSession(t)
        \/ \E who \in Claiming : LeaseAnswered(who)

Succeeds(c) ==
    calls[c].at = "acting" /\ answers[c].code = "none" /\ answers'[c].code = "ok"

\* An in-flight Agent action succeeds only while its own Turn's grant controls
\* the session (again unless a takeover was refused), whatever revoked the
\* grant and however long the action hung.
ActionsNeedTheirGrant ==
    [][\A c \in Calls : Succeeds(c) => HoldsSession(calls[c].turn) \/ refused]_vars

\* Once the human has the page, only the human's own request or the loss of
\* the browser takes it away, and never into Agent control.
HumanControlIsKept ==
    [][session.mode = "human" /\ session'.mode # "human" =>
        /\ session'.mode = "observer"
        /\ \/ faults' # faults
           \/ \E r \in Requests : requests'[r] # requests[r]
           \/ tail # <<>> /\ Head(tail).by \in Requests /\ tail' = Tail(tail)]_vars

\* Human control is published only with the page of the target that was
\* there, rebuilt, ready, and under an epoch no grant holds.
HumanControlIsReady ==
    [][session.mode # "human" /\ session'.mode = "human" =>
        /\ session.target # NoPage /\ session'.page = session.target
        /\ session'.recovery = "ready"
        /\ \A t \in Turns : IsLive(t)' => grants'[t].epoch # session'.epoch]_vars

\* The budget is shown under Agent control only, and never less than what the
\* grant in control has left.
BudgetShownIsLeft ==
    session.budget # NoBudget =>
        /\ session.mode = "agent"
        /\ \A t \in Turns : HoldsSession(t) => grants[t].budget <= session.budget

\* No public operation but a takeover is at work on the page while the Agent
\* controls it, whenever it was asked for and whoever came first.
AgentPageIsItsOwn ==
    session.mode = "agent" /\ step = "working" /\ Head(tail).by \in Requests =>
        Head(tail).kind = "takeHuman"

\* A public operation that rebuilds the page finishes on the page generation
\* it was asked on, whatever the page did while it waited.
RequestsFinishOnTheirPage ==
    [][step = "working" /\ step' = "queued" /\ Head(tail).kind \in {"back", "restart", "reconnect"}
        => Head(tail).generation = session.generation]_vars

\* While the Agent has the page it is the Agent's alone, somebody will let it
\* go, and the budget the human sees is not less than what is left.
AgentControlIsSound ==
    TypeOK /\ AgentControlIsHeld /\ AgentPageIsItsOwn /\ BudgetShownIsLeft

\* A human who takes the page gets a page that is ready and keeps it, and a
\* request of the human works on the page it was made on.
HumanControlIsSound == HumanControlIsKept /\ HumanControlIsReady /\ RequestsFinishOnTheirPage

\* No tool call stays suspended, or hangs behind the tail: approval, refusal,
\* revocation or the grant's time to live ends each of them.
EveryCallEnds == []<>(\A c \in Calls : calls[c].at \in {"idle", "done"})
=============================================================================
