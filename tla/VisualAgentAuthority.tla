------------------------ MODULE VisualAgentAuthority ------------------------
(***************************************************************************)
(* agent-visual-authority.ts with the observer and the interactor it       *)
(* calls: an Agent's turn looks at the process of the one healthy visual   *)
(* Run of its Project, or acts on its page, under a grant of one use.  The *)
(* Store keeps the facts of every grant: its mint, its use, its end.       *)
(*                                                                         *)
(* Mint and use are one synchronous step; the call then runs beside the    *)
(* revocations, and the facts must tell what it did in the end, also when  *)
(* the Store fails to take one and when the backend dies.                  *)
(***************************************************************************)
EXTENDS VisualTargets, Naturals, FiniteSets

CONSTANTS Calls, Speakers,
          MaxIoFailures    \* bound: facts the Store fails to take

ASSUME CallsAssumption == IsFiniteSet(Calls) /\ MaxIoFailures \in Nat

VARIABLES
  scope,    \* open: resolveVisualAgentTurnScope returns the turn's scope
  look,     \* the calls, whose Run and process, how far, and whether aborted
  grants,   \* the calls whose grant is in #grants
  facts,    \* visual_agent_audit_facts, by the grant's call
  failures  \* facts the Store has failed to take

agentVars == <<scope, look, grants, facts, failures>>

Ends == {"outcome", "failed", "unknown", "revoked", "crash_gap"}
Busy == {"looking", "connecting", "peering", "asking", "rendering", "acting"}

AgentInit ==
  /\ scope = [t \in Speakers |-> "open"]
  /\ look \in [Calls -> {[at |-> "idle", kind |-> k, turn |-> t, run |-> NoRun,
                          by |-> Nobody, aborted |-> FALSE] :
                           k \in {"observe", "interact"}, t \in Speakers}]
  /\ grants = {} /\ facts = [c \in Calls |-> {}] /\ failures = 0

CallGoes(c, to) == look' = [look EXCEPT ![c].at = to]
Ended(c) == facts[c] \cap Ends # {}

\* #revalidate: the turn's scope and the target are what they were.
Revalidated(c) == scope[look[c].turn] = "open" /\ CurrentHealthyTarget(look[c].run)

\* assertLive
CallLives(c) == ~look[c].aborted /\ c \in grants /\ Revalidated(c)

StoreFails(n) == failures + n <= MaxIoFailures /\ failures' = failures + n

\* recordVisualAgentAuditFact: the Store takes an end once, and only of a used grant.
Records(c, f) ==
  /\ "consume" \in facts[c] /\ ~Ended(c)
  /\ facts' = [facts EXCEPT ![c] = @ \cup {f}]
  /\ UNCHANGED failures
-----------------------------------------------------------------------------
\* mint and consume.  A conversation makes one call at a time.
Begin(c, r) ==
  /\ look[c].at = "idle" /\ scope[look[c].turn] = "open" /\ CurrentHealthyTarget(r)
  /\ \A d \in Calls : look[d].turn = look[c].turn => look[d].at \notin Busy
  /\ \/ /\ StoreFails(1)
        /\ \E kept \in {{}, {"mint"}} : facts' = [facts EXCEPT ![c] = kept]
        /\ look' = [look EXCEPT ![c].run = r, ![c].at = "denied"]
        /\ UNCHANGED grants
     \/ /\ facts' = [facts EXCEPT ![c] = {"mint", "consume"}]
        /\ look' = [look EXCEPT ![c].run = r, ![c].at = "looking"]
        /\ grants' = grants \cup {c}
        /\ UNCHANGED failures
  /\ UNCHANGED scope

\* inspectListener, before the connection to the child.
ListenerSeen(c) ==
  /\ look[c].at = "looking" /\ ListenerIs(look[c].run)
  /\ look[c].kind = "interact" => CallLives(c)
  /\ CallGoes(c, "connecting")
  /\ UNCHANGED <<scope, grants, facts, failures>>

Connect(c) ==
  /\ look[c].at = "connecting" /\ listener # Nobody
  /\ look' = [look EXCEPT ![c].at = "peering", ![c].by = listener]
  /\ UNCHANGED <<scope, grants, facts, failures>>

\* inspectConnectedPeer: the target's process accepted the connection.
PeerSeen(c) ==
  /\ look[c].at = "peering" /\ look[c].by = look[c].run /\ ListenerIs(look[c].run)
  /\ CallGoes(c, "asking")
  /\ UNCHANGED <<scope, grants, facts, failures>>

\* The body arrives, and a fresh browser renders it.
PageShown(c) ==
  /\ look[c].at = "asking" /\ listener = look[c].by
  /\ look[c].kind = "interact" => CallLives(c)
  /\ CallGoes(c, "rendering")
  /\ UNCHANGED <<scope, grants, facts, failures>>

\* primitiveStarted: from here on the page may have been acted on.
Act(c) ==
  /\ look[c].at = "rendering" /\ look[c].kind = "interact" /\ CallLives(c)
  /\ CallGoes(c, "acting")
  /\ UNCHANGED <<scope, grants, facts, failures>>

MayHaveActed(c) == look[c].at = "acting"
-----------------------------------------------------------------------------
\* A failure after the act is told from one before it.
PlainFailure(c) == IF look[c].aborted THEN "unknown" ELSE "failed"

FailureCode(c) == IF look[c].aborted \/ MayHaveActed(c) THEN "unknown" ELSE "failed"

\* The observer or the interactor has returned.
Answered(c) == look[c].at = (IF look[c].kind = "observe" THEN "rendering" ELSE "acting")

EndsAs(c, to) ==
  /\ CallGoes(c, to)
  /\ grants' = grants \ {c}
  /\ UNCHANGED scope

\* The receipt is returned only when its outcome is on record.
Completes(c) ==
  /\ Answered(c) /\ CallLives(c)
  /\ EndsAs(c, "delivered")
  /\ Records(c, "outcome")

\* The Store refuses the outcome: the call has failed, with or without a record of it.
OutcomeRefused(c) ==
  /\ Answered(c) /\ CallLives(c) /\ failures < MaxIoFailures
  /\ EndsAs(c, "denied")
  /\ \/ facts' = [facts EXCEPT ![c] = @ \cup {FailureCode(c)}] /\ StoreFails(1)
     \/ UNCHANGED facts /\ StoreFails(2)

\* An inspection, the child, the browser or a check refuses, or the call is aborted:
\* an end nobody recorded yet is recorded, or left to the next start.  The facts of a
\* deleted Project cannot be added to.
Denied(c) ==
  /\ look[c].at \in Busy
  /\ EndsAs(c, "denied")
  /\ \/ ~Ended(c) /\ Records(c, FailureCode(c))
     \/ ~Ended(c) /\ UNCHANGED facts /\ StoreFails(1)
     \/ (Ended(c) \/ facts[c] = {}) /\ UNCHANGED <<facts, failures>>

\* The timers of a call: it expires (which is also what the expiry sweep finds), or its
\* revalidation fails.
TimerAborts(c) ==
  /\ look[c].at \in Busy /\ ~look[c].aborted
  /\ look' = [look EXCEPT ![c].aborted = TRUE]
  /\ UNCHANGED <<scope, grants, facts, failures>>
-----------------------------------------------------------------------------
\* #revokeMatching, whether the Store takes the facts or not.
RevokeMatching(cs) ==
  /\ grants' = grants \ cs
  /\ look' = [c \in Calls |-> [look[c] EXCEPT !.aborted = @ \/ c \in cs \cap grants]]
  /\ \E lost \in SUBSET (cs \cap grants) :
       /\ StoreFails(Cardinality(lost))
       /\ facts' = [c \in Calls |-> facts[c] \cup
                      (IF c \in (cs \cap grants) \ lost THEN {"revoked"} ELSE {})]

RevokeVisualRun(r) == RevokeMatching({c \in Calls : look[c].run = r}) /\ UNCHANGED scope

\* The turn ends, and its tools go with it.
ReleaseTurn(t) ==
  /\ scope[t] # "released"
  /\ RevokeMatching({c \in Calls : look[c].turn = t})
  /\ scope' = [scope EXCEPT ![t] = "released"]

\* The session of the conversation is replaced, or the conversation goes to the trash.
ScopeBreaks(t) ==
  /\ scope[t] = "open"
  /\ scope' = [scope EXCEPT ![t] = "broken"]
  /\ UNCHANGED <<look, grants, facts, failures>>

\* #reconcileVisualAgentAuditGaps, when the Store is opened again.
GapsReconciled ==
  facts' = [c \in Calls |->
    IF "mint" \in facts[c] /\ ~Ended(c) THEN facts[c] \cup {"crash_gap"} ELSE facts[c]]

CallsForgotten ==
  /\ scope' = [t \in Speakers |-> "released"]
  /\ look' = [c \in Calls |-> IF look[c].at \in Busy \cup {"idle"}
                              THEN [look[c] EXCEPT !.at = "denied"] ELSE look[c]]
  /\ grants' = {}
  /\ UNCHANGED failures

\* The deletion of the Project takes its conversations and their facts.
FactsDeleted ==
  /\ facts' = [c \in Calls |-> {}]
  /\ scope' = [t \in Speakers |-> "released"]
  /\ UNCHANGED <<look, grants, failures>>

AgentStep ==
  \/ \E c \in Calls :
       \/ \E r \in Runs : Begin(c, r)
       \/ ListenerSeen(c) \/ Connect(c) \/ PeerSeen(c) \/ PageShown(c) \/ Act(c)
       \/ Completes(c) \/ OutcomeRefused(c) \/ Denied(c) \/ TimerAborts(c)
  \/ \E t \in Speakers : ReleaseTurn(t) \/ ScopeBreaks(t)

AgentTypes ==
  /\ scope \in [Speakers -> {"open", "broken", "released"}]
  /\ look \in [Calls -> [at : Busy \cup {"idle", "delivered", "denied"},
                         kind : {"observe", "interact"}, turn : Speakers,
                         run : Runs \cup {NoRun}, by : Runs \cup {Nobody, Stranger},
                         aborted : BOOLEAN]]
  /\ grants \subseteq {c \in Calls : look[c].at \in Busy}
  /\ facts \in [Calls -> SUBSET ({"mint", "consume"} \cup Ends)]
  /\ failures \in 0..MaxIoFailures
=============================================================================
