---------------------------- MODULE BrowserBroker ----------------------------
(***************************************************************************)
(* LocalBrowserBroker (backend/src/local-browser-broker.ts): one ephemeral *)
(* browser session of one Conversation generation, and the tail of         *)
(* operations that #serialized runs one at a time.                         *)
(*                                                                         *)
(* Two operations act before they join the tail: releaseAgent withdraws    *)
(* Agent control (Released), takeHuman invalidates the epoch and closes    *)
(* the page (Preempted). They are operators here; the module that composes *)
(* the Broker with its callers takes them in the caller's own step.        *)
(*                                                                         *)
(* Abstractions. A target is its alias and the page generation it was      *)
(* resolved at, which tells two target objects apart; NoPage is none. A    *)
(* missing session is the closed one. A refusal is "lost" when its code is *)
(* one of CONTROL_LOSS_CODES and "failed" otherwise. Element references,   *)
(* the network isolation, screenshots and the public observation reads are *)
(* left out. The page generation seed is 0.                                *)
(***************************************************************************)
EXTENDS Integers, Sequences, SequencesExt

CONSTANTS
    Aliases,    \* the Browser aliases a target can be resolved from
    Askers,     \* those who wait for an operation: Calls, requests, approvals
    Nobody,     \* the asker of an operation nobody waits for
    NoPage      \* no target, no page

VARIABLES
    session,    \* the BrowserSession
    tail,       \* the operations of #scopeTails, the running one first
    step,       \* how far the first operation of the tail is
    answers     \* what an operation answered its asker, not yet taken

brokerVars == <<session, tail, step, answers>>

NoBudget == -1
NoAnswer == [code |-> "none", value |-> 0]
Targets == [alias : Aliases, born : Nat]

NewSession(generation) ==
    [mode |-> "observer", epoch |-> 0, budget |-> NoBudget, recovery |-> "closed",
     page |-> NoPage, target |-> NoPage, history |-> <<>>,
     generation |-> generation, due |-> FALSE]

PublicKinds == {"open", "reload", "back", "close", "restart", "reconnect",
                "takeHuman", "return"}
AgentKinds == {"act", "agentBack", "agentClose"}
Kinds == PublicKinds \union AgentKinds \union {"claim", "release", "state", "budget"}
Rebuilding == {"open", "back", "restart", "reconnect", "takeHuman", "agentBack"}
Immediate == {"return", "claim", "release", "state", "budget"}

Operation(kind, by) ==
    [kind |-> kind, by |-> by, generation |-> 0, epoch |-> 0, budget |-> NoBudget,
     target |-> NoPage]

Sessions ==
    [mode : {"observer", "agent", "human"}, epoch : Nat,
     budget : Nat \union {NoBudget},
     recovery : {"closed", "ready", "expired", "disconnected", "unavailable"},
     page : Targets \union {NoPage}, target : Targets \union {NoPage},
     history : Seq(Targets), generation : Nat, due : BOOLEAN]

Entries ==
    [kind : Kinds, by : Askers \union {Nobody}, generation : Int, epoch : Nat,
     budget : Nat \union {NoBudget},
     target : Targets \union {NoPage} \union Aliases]

BrokerType ==
    /\ session \in Sessions
    /\ tail \in Seq(Entries)
    /\ step \in {"queued", "resolving", "working"}
    /\ answers \in [Askers -> [code : {"none", "ok", "failed", "lost"}, value : Nat]]

BrokerInit ==
    /\ session = NewSession(0)
    /\ tail = <<>>
    /\ step = "queued"
    /\ answers = [who \in Askers |-> NoAnswer]

-----------------------------------------------------------------------------
(* What the callers do before they join the tail.                          *)

HoldsControl(s, epoch) == s.mode = "agent" /\ s.epoch = epoch /\ epoch >= 1

Released(s) ==
    IF s.mode = "agent"
    THEN [s EXCEPT !.mode = "observer", !.epoch = @ + 1, !.budget = NoBudget]
    ELSE s

TakeoverRefused(s, generation) ==
    s.generation # generation \/ s.target = NoPage \/ s.recovery # "ready"

\* A takeover that leaves the Agent in control until it is done.
PreemptedLate(s) == [s EXCEPT !.recovery = "unavailable", !.page = NoPage]

Preempted(s) ==
    [s EXCEPT !.mode = "observer", !.epoch = @ + 1, !.budget = NoBudget,
              !.recovery = "unavailable", !.page = NoPage]

-----------------------------------------------------------------------------
(* The checks an operation makes when its turn in the tail comes.          *)

\* #session: a session past its time to live loses its page and is expired.
Current(s) ==
    IF s.due /\ s.recovery # "expired"
    THEN [s EXCEPT !.page = NoPage, !.recovery = "expired"] ELSE s

LiveVerdict(s, generation) ==
    IF s.generation # generation \/ s.recovery = "expired" THEN "failed"
    ELSE IF s.recovery # "ready" \/ s.page = NoPage THEN "lost" ELSE "ok"

AgentVerdict(s, op) ==
    LET live == LiveVerdict(s, op.generation)
    IN  IF live # "ok" THEN live
        ELSE IF HoldsControl(s, op.epoch) THEN "ok" ELSE "lost"

\* One verdict after another: the first that is not "ok" is the answer.
Both(first, second) == IF first = "ok" THEN second ELSE first
Unless(refused, code) == IF refused THEN code ELSE "ok"

\* A public operation that does not look who controls the page.
AnyMode(s) == "ok"

PublicVerdict(s) == Unless(s.mode = "agent", "failed")

RebuildVerdict(s, op) ==
    IF s.target = NoPage THEN "lost"
    ELSE Unless(\/ s.generation # op.generation
                \/ s.mode = "agent"
                \/ s.recovery = "expired", "failed")

OpenVerdict(s) ==
    IF s.mode = "human" THEN "lost" ELSE PublicVerdict(s)

ClaimVerdict(s) ==
    Unless(s.recovery # "ready" \/ s.page = NoPage \/ s.mode = "human", "lost")

Verdict(s, op) ==
    CASE op.kind = "open" -> OpenVerdict(s)
      [] op.kind = "reload" -> Both(LiveVerdict(s, op.generation), PublicVerdict(s))
      [] op.kind = "back" ->
            Both(Both(LiveVerdict(s, op.generation), PublicVerdict(s)),
                 Unless(s.history = <<>>, "failed"))
      [] op.kind = "close" ->
            Both(Unless(s.generation # op.generation, "failed"), PublicVerdict(s))
      [] op.kind \in {"restart", "reconnect"} -> RebuildVerdict(s, op)
      [] op.kind = "takeHuman" -> Unless(s.target # op.target, "lost")
      [] op.kind = "return" ->
            Both(LiveVerdict(s, op.generation), Unless(s.mode # "human", "failed"))
      [] op.kind = "claim" -> ClaimVerdict(s)
      [] op.kind = "budget" -> Unless(~HoldsControl(s, op.epoch), "lost")
      [] op.kind \in {"act", "agentClose"} -> AgentVerdict(s, op)
      [] op.kind = "agentBack" ->
            Both(AgentVerdict(s, op), Unless(s.history = <<>>, "failed"))
      [] OTHER -> "ok"

-----------------------------------------------------------------------------
(* The effects of the operations.                                          *)

Claimed(s, op) ==
    [s EXCEPT !.mode = "agent", !.epoch = @ + 1, !.budget = op.budget]

Returned(s) == [s EXCEPT !.mode = "observer", !.epoch = @ + 1, !.budget = NoBudget]

AtOnce(s, op) ==
    CASE op.kind = "claim" -> Claimed(s, op)
      [] op.kind = "return" -> Returned(s)
      [] op.kind = "budget" -> [s EXCEPT !.budget = op.budget]
      [] OTHER -> s

Value(s, op) ==
    CASE op.kind = "claim" -> s.epoch
      [] op.kind = "state" -> s.generation
      [] OTHER -> 0

\* A renewed session after an expired one keeps the page generation only; a
\* target that was ready goes to the history.
Reopened(s) ==
    LET fresh == IF s.recovery = "expired" THEN NewSession(s.generation) ELSE s
    IN  IF fresh.target # NoPage /\ fresh.recovery = "ready"
        THEN [fresh EXCEPT !.history = Append(@, fresh.target)] ELSE fresh

Destination(s, op) ==
    CASE op.kind = "open" -> [alias |-> op.target, born |-> s.generation]
      [] op.kind \in {"back", "agentBack"} -> Last(s.history)
      [] OTHER -> s.target

Disposed(s) == [s EXCEPT !.page = NoPage]

Shown(s, target) == [s EXCEPT !.page = target, !.target = target]
Went(s) == [s EXCEPT !.history = Front(@), !.generation = @ + 1]
Ready(s) == [s EXCEPT !.recovery = "ready", !.generation = @ + 1]
HumanReady(s) ==
    [Ready(s) EXCEPT !.mode = "human", !.epoch = @ + 1, !.budget = NoBudget]

Rebuilt(s, op) ==
    LET shown == Shown(s, Destination(s, op))
    IN  CASE op.kind = "back" -> Went(shown)
          [] op.kind = "agentBack" ->
                IF HoldsControl(s, op.epoch) THEN Went(shown) ELSE shown
          [] op.kind = "takeHuman" -> HumanReady(shown)
          [] OTHER -> Ready(shown)

\* A takeover that says the human has a page it could not rebuild.
HumanAnyway(s, op, target) ==
    LET broken == [s EXCEPT !.page = NoPage, !.target = target,
                            !.recovery = "unavailable"]
    IN  IF op.kind = "takeHuman" THEN [broken EXCEPT !.mode = "human"] ELSE broken

\* The target is already replaced when the page turns out to be outside it.
NotRebuilt(s, op, target) ==
    LET broken == [s EXCEPT !.page = NoPage, !.target = target,
                            !.recovery = "unavailable"]
    IN  IF op.kind = "takeHuman"
        THEN [broken EXCEPT !.mode = "observer", !.budget = NoBudget] ELSE broken

Closed(s) ==
    [s EXCEPT !.recovery = "closed", !.page = NoPage, !.target = NoPage,
              !.history = <<>>, !.mode = "observer"]

Worked(s, op) ==
    CASE op.kind = "close" -> Closed(s)
      [] op.kind = "agentClose" /\ HoldsControl(s, op.epoch) ->
            [Closed(s) EXCEPT !.epoch = @ + 1, !.budget = NoBudget]
      [] OTHER -> s

\* Every awaited Agent operation checks the epoch again when it is done.
Checked(s, op, code) ==
    IF op.kind \in AgentKinds /\ ~HoldsControl(s, op.epoch) THEN "lost" ELSE code

-----------------------------------------------------------------------------
(* The tail.                                                               *)

Join(queue, op) == Append(queue, op)

Answer(op, s, code) ==
    /\ session' = s
    /\ tail' = Tail(tail)
    /\ step' = "queued"
    /\ answers' = IF op.by = Nobody THEN answers
                  ELSE [answers EXCEPT ![op.by] =
                            [code |-> code,
                             value |-> IF code = "ok" THEN Value(s, op) ELSE 0]]

Work(s) ==
    /\ session' = s
    /\ step' = "working"
    /\ UNCHANGED <<tail, answers>>

\* The first operation of the tail makes its checks and is refused, is done
\* at once, or starts to wait for Playwright (for its target, when it opens).
Begin ==
    /\ tail # <<>>
    /\ step = "queued"
    /\ LET op == Head(tail)
           s == Current(session)
           verdict == Verdict(s, op)
           asIs == /\ op.kind = "reconnect"
                   /\ s.recovery \notin {"disconnected", "unavailable"}
       IN  \/ verdict # "ok" /\ Answer(op, s, verdict)
           \/ /\ verdict = "ok"
              /\ op.kind \in Immediate \/ asIs
              /\ Answer(op, AtOnce(s, op), "ok")
           \/ /\ verdict = "ok" /\ op.kind = "open"
              /\ session' = s /\ step' = "resolving"
              /\ UNCHANGED <<tail, answers>>
           \/ /\ verdict = "ok" /\ op.kind \in {"reload", "act"}
              /\ Work(s)
           \/ /\ verdict = "ok" /\ ~asIs
              /\ op.kind \in (Rebuilding \ {"open"}) \union {"close", "agentClose"}
              /\ Work(Disposed(s))

\* The target resolver answers an open: no target for the alias, or a target
\* to rebuild the session with.
Resolve ==
    /\ step = "resolving"
    /\ \/ Answer(Head(tail), session, "failed")
       \/ Work(Disposed(Reopened(Current(session))))

\* Playwright has built the page of the awaited operation, or has failed to.
Rebuild ==
    /\ step = "working"
    /\ LET op == Head(tail)
       IN  /\ op.kind \in Rebuilding
           /\ \/ Answer(op, Rebuilt(session, op), Checked(session, op, "ok"))
              \/ \E code \in {"failed", "lost"},
                    target \in {session.target, Destination(session, op)} :
                    Answer(op, NotRebuilt(session, op, target),
                           Checked(session, op, code))

\* Playwright has done the awaited action, or has failed to; closing a page
\* does not fail.
Perform ==
    /\ step = "working"
    /\ LET op == Head(tail)
       IN  \/ /\ op.kind \in {"reload", "act", "close", "agentClose"}
              /\ Answer(op, Worked(session, op), Checked(session, op, "ok"))
           \/ /\ op.kind \in {"reload", "act"}
              /\ Answer(op, session, Checked(session, op, "failed"))

BrokerNext == Begin \/ Resolve \/ Rebuild \/ Perform

-----------------------------------------------------------------------------
(* What happens to the session from outside.                               *)

\* The page navigates within its target's origin: framenavigated.
PageNavigates ==
    /\ session.page # NoPage
    /\ session' = [session EXCEPT !.generation = @ + 1]
    /\ UNCHANGED <<tail, step, answers>>

\* The page leaves its target's origin: the context is closed.
PageLeaves ==
    /\ session.page # NoPage
    /\ session' = [session EXCEPT !.recovery = "unavailable", !.page = NoPage]
    /\ UNCHANGED <<tail, step, answers>>

\* Chromium, launched for the first page, disconnects.
BrowserLost ==
    /\ session.generation > 0
    /\ session' = [session EXCEPT !.epoch = @ + 1, !.mode = "observer",
                      !.budget = NoBudget, !.page = NoPage,
                      !.recovery = IF session.target # NoPage /\ @ # "expired"
                                   THEN "disconnected" ELSE @]
    /\ UNCHANGED <<tail, step, answers>>

\* The session's time to live passes; the next operation notices.
SessionDue ==
    /\ ~session.due
    /\ session' = [session EXCEPT !.due = TRUE]
    /\ UNCHANGED <<tail, step, answers>>
=============================================================================
