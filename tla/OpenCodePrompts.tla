--------------------------- MODULE OpenCodePrompts ---------------------------
(***************************************************************************)
(* One OpenCode session as the adapter (opencode-adapter.ts) drives it:    *)
(* prompts one after the other, each asked asynchronously and then polled  *)
(* until the session is idle; the runtime snapshots that are taken beside  *)
(* the poll; and the user's answer to a permission OpenCode asks for.      *)
(*                                                                         *)
(* OpenCode is external: a server that works for one prompt at a time and  *)
(* writes assistant messages, here the Steps of a prompt.  A step may hold *)
(* one call of a tool; an Input is the tool and arguments of a call, that  *)
(* is what the call would do.  A request may be lost with or without its   *)
(* effect.  Every read is answered at one moment and used at a later one.  *)
(***************************************************************************)
EXTENDS Naturals

CONSTANTS
  MaxPrompts,  \* prompts of the session
  MaxSteps,    \* assistant messages of a prompt
  Inputs,      \* consequential calls of the turn's tools
  NoInput,     \* a call that needs no approval, or no call
  Foreign      \* a call of a tool outside the turn's grant

ASSUME PromptsAssumption ==
  /\ MaxPrompts \in Nat \ {0} /\ MaxSteps \in Nat
  /\ NoInput \notin Inputs /\ Foreign \notin Inputs /\ Foreign # NoInput

Prompts == 1..MaxPrompts
Steps == 1..MaxSteps

\* completedAssistant: a closed message has text or has none.
Completed == {"spoken", "mute"}
Messages ==
  [state : {"absent", "open", "failed"} \cup Completed,
   call : {"none", "asking", "allowed", "complete", "failed"},
   input : Inputs \cup {NoInput, Foreign}]
NoMessage == [state |-> "absent", call |-> "none", input |-> NoInput]
Views == [Steps -> Messages]
NoView == [s \in Steps |-> NoMessage]

\* runtimeRequestId: the id the user sees commits to the request and to the call.
Ids == [prompt : Prompts, step : Steps, input : Inputs]

VARIABLES
  work, asked, log, rules,  \* OpenCode: prompt in work, user messages, steps, permission rules
  current, stage,                 \* promptWithModel: the current prompt and where it is
  prior, mine,              \* priorMessageIds, userMessageId
  installed,                \* permissionRulesInstalled
  idle, view,               \* the answers of a poll
  failure, evidence,        \* failureBoundaryId, toolEvidence
  candidate,                \* idleIncompleteCandidate
  outcome, answer,          \* how a prompt ended, the steps of its response
  boundary,                 \* #runtimeBoundaries: what poll and snapshots share
  released,                 \* releaseRuntimeBoundary
  watch, shown,             \* a snapshot under way, the requests on the user's screen
  authorities,              \* #permissionAuthorities
  reply,                    \* the answer resumeTurn is giving
  capability, commitment,     \* the turn's grant and its operationCommitment
  delivered, ran            \* history: approvals OpenCode took, calls that ran

openCodeVars == <<work, asked, log, rules>>
pollVars == <<prior, mine, installed, idle, view, failure, evidence, candidate>>
endVars == <<outcome, answer>>
snapshotVars == <<boundary, watch, shown, authorities>>
approvalVars == <<capability, commitment, delivered, ran>>
promptVars == <<openCodeVars, current, stage, pollVars, endVars, released, snapshotVars, reply, approvalVars>>

NoReply == [at |-> "none", id |-> [prompt |-> 1, step |-> 1, input |-> NoInput], once |-> FALSE]
NoWatch == [on |-> FALSE, of |-> 1, view |-> NoView]

PromptsInit ==
  /\ work = 0 /\ asked = {} /\ log = [p \in Prompts |-> NoView] /\ rules = 0
  /\ current = 1 /\ stage = "ready"
  /\ prior = {} /\ mine = 0 /\ installed = FALSE /\ idle = FALSE /\ view = NoView
  /\ failure = 0 /\ evidence = [s \in Steps |-> "none"] /\ candidate = NoView
  /\ outcome = [p \in Prompts |-> "none"] /\ answer = [p \in Prompts |-> {}]
  /\ boundary = [p \in Prompts |-> [user |-> 0, failure |-> 0]] /\ released = FALSE
  /\ watch = NoWatch /\ shown = {} /\ authorities = {} /\ reply = NoReply
  /\ capability = "none" /\ commitment = NoInput /\ delivered = {} /\ ran = {}

-----------------------------------------------------------------------------
(* OpenCode *)

Present(v, s) == v[s].state # "absent"
Written(v) == {s \in Steps : Present(v, s)}

\* It takes the prompt that was submitted, and writes step after step.
TakePrompt ==
  /\ work # 0 /\ work \notin asked
  /\ asked' = asked \cup {work}
  /\ UNCHANGED <<work, log, rules>>

Over(m) == m.state \in Completed \cup {"failed"}
Waiting(m) == m.state = "open" /\ m.call \in {"asking", "allowed"}
Asks(m) == m.state = "open" /\ m.call = "asking"
Write(s, m) ==
  /\ log' = [log EXCEPT ![work][s] = m]
  /\ UNCHANGED <<work, asked, rules>>

NextStep(s) ==
  /\ work \in asked /\ ~Present(log[work], s)
  /\ \A r \in Steps : r < s => Over(log[work][r])
  /\ Write(s, [NoMessage EXCEPT !.state = "open"])

\* A call asks for permission, or ends at once: a free tool, one that is denied.
ToolCalls ==
  {<<"asking", i>> : i \in Inputs} \cup {<<"complete", NoInput>>, <<"failed", NoInput>>, <<"failed", Foreign>>}
MakeCall(s, c) ==
  /\ work \in asked /\ log[work][s].state = "open" /\ log[work][s].call = "none"
  /\ Write(s, [state |-> "open", call |-> c[1], input |-> c[2]])

RewriteCall(s, i) ==
  /\ work \in asked /\ Asks(log[work][s])
  /\ Write(s, [log[work][s] EXCEPT !.input = i])

EndStep(s, end) ==
  /\ work \in asked /\ log[work][s].state = "open"
  /\ end \in Completed => ~Waiting(log[work][s])
  /\ Write(s, [log[work][s] EXCEPT !.state = end])

\* Idle is for good; the last step may have stayed open.
BecomeIdle ==
  /\ work \in asked /\ \A s \in Steps : ~Waiting(log[work][s])
  /\ work' = 0
  /\ UNCHANGED <<asked, log, rules>>

\* An allowed call reaches Riff's MCP server, which runs what was approved, once.
Grants(i) == work = current /\ capability = "live" /\ commitment = i
RunCall(s) ==
  /\ work \in asked /\ Waiting(log[work][s]) /\ log[work][s].call = "allowed"
  /\ LET i == log[work][s].input IN
     IF Grants(i)
       THEN /\ Write(s, [log[work][s] EXCEPT !.call = "complete"])
            /\ capability' = "consumed" /\ ran' = ran \cup {[prompt |-> work, step |-> s, input |-> i]}
            /\ UNCHANGED <<commitment, delivered>>
       ELSE Write(s, [log[work][s] EXCEPT !.call = "failed"]) /\ UNCHANGED approvalVars

OpenCodeStep ==
  /\ \/ TakePrompt \/ BecomeIdle
     \/ \E s \in Steps :
          \/ NextStep(s)
          \/ \E c \in ToolCalls : MakeCall(s, c)
          \/ \E i \in Inputs : RewriteCall(s, i)
          \/ \E end \in Completed \cup {"failed"} : EndStep(s, end)
  /\ UNCHANGED approvalVars

-----------------------------------------------------------------------------
(* promptWithModel *)

\* The position of the last failed message, 0 if there is none (findLastIndex).
LastFailure(v) ==
  IF \E s \in Steps : v[s].state = "failed"
    THEN CHOOSE s \in Steps : v[s].state = "failed" /\ \A r \in Steps : r > s => v[r].state # "failed"
    ELSE 0
Known(v, f) == f = 0 \/ (f \in Steps /\ Present(v, f))
\* A failure boundary only moves forward, and only over a list that has it.
Advanced(f, v) == IF Known(v, f) /\ LastFailure(v) > f THEN LastFailure(v) ELSE f
\* currentRuntimeAttempt: what was written after the boundary.
Attempt(v, f) == IF Known(v, f) THEN {s \in Written(v) : s > f} ELSE {}

\* AssistantToolEvidenceTracker
CallEvidence(c) == IF c \in {"asking", "allowed"} THEN "pending" ELSE c
Merged(old, new) ==
  IF "failed" \in {old, new} THEN "failed"
  ELSE IF "complete" \in {old, new} THEN "complete"
  ELSE IF new = "none" THEN old ELSE new
Observed(e, v, steps) ==
  [s \in Steps |-> IF s \in steps THEN Merged(e[s], CallEvidence(v[s].call)) ELSE e[s]]
NoEvidence == [s \in Steps |-> "none"]
ToolState(e) ==
  IF \E s \in Steps : e[s] = "failed" THEN "failed"
  ELSE IF \E s \in Steps : e[s] = "pending" THEN "pending" ELSE "complete"

Polling == stage \in {"status", "messages", "observe", "checking"}

\* The messages before the prompt, a boundary of its own, a fresh capability.
ReadBefore ==
  /\ stage = "ready" /\ stage' = "rules"
  /\ prior' = asked /\ mine' = 0 /\ installed' = FALSE
  /\ failure' = 0 /\ evidence' = NoEvidence /\ candidate' = NoView
  /\ released' = FALSE /\ capability' = "live" /\ commitment' = NoInput
  /\ UNCHANGED <<openCodeVars, current, idle, view, endVars, snapshotVars, reply, delivered, ran>>

EndsAs(how) ==
  /\ outcome' = [outcome EXCEPT ![current] = how] /\ answer' = [answer EXCEPT ![current] = {}]
  /\ stage' = "close"

\* PATCH of the session's permission rules.
InstallRules ==
  /\ stage = "rules"
  /\ \/ rules' = current /\ installed' = TRUE /\ stage' = "submit" /\ UNCHANGED endVars
     \/ rules' \in {rules, current} /\ EndsAs("stopped") /\ UNCHANGED installed
  /\ UNCHANGED <<work, asked, log, current, prior, mine, idle, view, failure, evidence, candidate, released,
                 snapshotVars, reply, approvalVars>>

\* prompt_async; OpenCode is busy from the moment it has accepted the prompt.
Submit ==
  /\ stage = "submit"
  /\ \/ work' = current /\ stage' = "status" /\ UNCHANGED endVars
     \/ work' \in {work, current} /\ EndsAs("stopped")
  /\ UNCHANGED <<asked, log, rules, current, pollVars, released, snapshotVars, reply, approvalVars>>

ReadStatus ==
  /\ stage = "status" /\ stage' = "messages" /\ idle' = (work = 0)
  /\ UNCHANGED <<openCodeVars, current, prior, mine, installed, view, failure, evidence, candidate, endVars, released,
                 snapshotVars, reply, approvalVars>>

\* The prompt's own user message is the first one that was not there before.
First == IF asked = {} THEN 0 ELSE CHOOSE p \in asked : \A q \in asked : p <= q
FirstNew == IF asked \ prior = {} THEN 0 ELSE CHOOSE p \in asked \ prior : \A q \in asked \ prior : p <= q
ReadMessages ==
  /\ stage = "messages"
  /\ mine' = IF mine = 0 THEN FirstNew ELSE mine
  /\ IF mine' = 0 THEN stage' = "status" /\ UNCHANGED view ELSE stage' = "observe" /\ view' = log[mine']
  /\ UNCHANGED <<openCodeVars, current, prior, installed, idle, failure, evidence, candidate, endVars, released,
                 snapshotVars, reply, approvalVars>>

\* A call outside the turn's grant; an idle session whose last message stays open.
Ungranted(v, f) == \E s \in Attempt(v, f) : v[s].input = Foreign
IdleIncomplete(v, f, e) == idle /\ (\E s \in Attempt(v, f) : v[s].state = "open") /\ ToolState(e) = "complete"

\* The response: the messages of the attempt, of which at least one has text.
Response(v, f) == Attempt(v, f)
HasText(v, f) == \E s \in Attempt(v, f) : v[s].state = "spoken"

\* How the prompt ended, as far as the messages and the idle session tell.
AllCompleted(v, f) == \A s \in Attempt(v, f) : v[s].state \in Completed
Concludes(v, f, e, how) ==
  /\ idle
  /\ CASE how = "error"      -> f # 0 /\ Known(v, f) /\ Attempt(v, f) = {}
       [] how = "toolFailed" -> Attempt(v, f) # {} /\ AllCompleted(v, f) /\ ToolState(e) = "failed"
       [] how = "answered"   -> HasText(v, f) /\ AllCompleted(v, f) /\ ToolState(e) = "complete"
Conclusions == {"error", "toolFailed", "answered"}

Decided(v, f, e) ==
  IF Ungranted(v, f) THEN EndsAs("forbidden") /\ UNCHANGED candidate
  ELSE IF \E how \in Conclusions : Concludes(v, f, e, how)
    THEN \E how \in Conclusions :
           /\ Concludes(v, f, e, how)
           /\ outcome' = [outcome EXCEPT ![current] = how]
           /\ answer' = [answer EXCEPT ![current] = IF how = "answered" THEN Response(v, f) ELSE {}]
           /\ stage' = "checking" /\ UNCHANGED candidate
  ELSE /\ UNCHANGED endVars
       /\ candidate' = IF IdleIncomplete(v, f, e) THEN v ELSE NoView
       /\ stage' \in {"status"} \cup IF IdleIncomplete(v, f, e) /\ candidate = v THEN {"again"} ELSE {}

Observe ==
  /\ stage = "observe"
  /\ LET shared == IF boundary[current].failure # 0 THEN boundary[current].failure ELSE failure
         f == Advanced(shared, view)
         e == Observed(IF f = failure THEN evidence ELSE NoEvidence, view, Attempt(view, f)) IN
     /\ failure' = f /\ evidence' = e
     /\ boundary' = [boundary EXCEPT ![current] = [user |-> IF @.user = 0 THEN mine ELSE @.user,
                                                  failure |-> IF f = shared THEN @.failure ELSE f]]
     /\ Decided(view, f, e)
  /\ view' = NoView
  /\ UNCHANGED <<openCodeVars, current, prior, mine, installed, idle, released, watch, shown, authorities, reply, approvalVars>>

\* The grace of an idle session with an open message is over: one more look.
LookAgain ==
  /\ stage = "again"
  /\ IF work = 0 /\ log[mine] = candidate THEN EndsAs("incomplete") ELSE stage' = "status" /\ UNCHANGED endVars
  /\ candidate' = NoView
  /\ UNCHANGED <<openCodeVars, current, prior, mine, installed, idle, view, failure, evidence, released,
                 snapshotVars, reply, approvalVars>>

\* OpenCode is still ready and the session in its workspace.
Conclude ==
  /\ stage = "checking" /\ stage' = "close"
  /\ UNCHANGED <<openCodeVars, current, pollVars, endVars, released, snapshotVars, reply, approvalVars>>

\* The deadline, a stop of the turn, or an answer that is no use.
GiveUp ==
  /\ Polling \/ stage = "again"
  /\ EndsAs("stopped")
  /\ UNCHANGED <<openCodeVars, current, pollVars, released, snapshotVars, reply, approvalVars>>

\* The finally block takes the rules away, if it can.
CloseRules ==
  /\ stage = "close" /\ stage' = "over"
  /\ rules' \in {rules} \cup IF installed THEN {0} ELSE {}
  /\ UNCHANGED <<work, asked, log, current, pollVars, endVars, released, snapshotVars, reply, approvalVars>>

\* The caller gives everything back, and aborts a session that failed.
Release ==
  /\ stage = "over" /\ ~released
  /\ released' = TRUE /\ authorities' = {} /\ capability' = "revoked" /\ commitment' = NoInput
  /\ work' \in {work} \cup IF outcome[current] # "answered" THEN {0} ELSE {}
  /\ UNCHANGED <<asked, log, rules, current, stage, pollVars, endVars, boundary, watch, shown, reply, delivered, ran>>

\* Only a session whose prompt was answered is used again.
NextPrompt ==
  /\ stage = "over" /\ released /\ outcome[current] = "answered" /\ current < MaxPrompts
  /\ current' = current + 1 /\ stage' = "ready"
  /\ UNCHANGED <<openCodeVars, pollVars, endVars, released, snapshotVars, reply, approvalVars>>

PromptStep ==
  \/ ReadBefore \/ InstallRules \/ Submit \/ ReadStatus \/ ReadMessages \/ Observe \/ LookAgain
  \/ Conclude \/ GiveUp \/ CloseRules \/ Release \/ NextPrompt

-----------------------------------------------------------------------------
(* runtimeSnapshot *)

\* runtimePermissions: the requests of the current attempt that are pending.
PendingRequests(p, v, f) ==
  {id \in Ids : id.prompt = p /\ id.step \in Attempt(v, f) /\ Asks(v[id.step]) /\ v[id.step].input = id.input}
HasBoundary == stage # "ready" /\ ~released

\* A snapshot of p's boundary with the messages v moves the boundary and
\* replaces the authorities and what the user sees.
Snapshot(p, v) ==
  LET f == Advanced(boundary[p].failure, v)
      pending == IF boundary[p].user = 0 THEN {} ELSE PendingRequests(p, v, f) IN
  /\ boundary' = IF boundary[p].user = 0 THEN boundary ELSE [boundary EXCEPT ![p].failure = f]
  /\ authorities' = pending /\ shown' = pending
\* One that is taken in one moment.
Now == log[current]
PendingNow == IF boundary[current].user = 0 THEN {} ELSE PendingRequests(current, Now, Advanced(boundary[current].failure, Now))

WatchRead ==
  /\ ~watch.on /\ HasBoundary
  /\ watch' = [on |-> TRUE, of |-> current, view |-> Now]
  /\ UNCHANGED <<openCodeVars, current, stage, pollVars, endVars, released, boundary, shown, authorities, reply, approvalVars>>

\* Meanwhile the poll, the user and the turn's end have gone on.
WatchApply ==
  /\ watch.on /\ watch' = NoWatch
  /\ Snapshot(watch.of, watch.view)
  /\ UNCHANGED <<openCodeVars, current, stage, pollVars, endVars, released, reply, approvalVars>>

-----------------------------------------------------------------------------
(* resumeTurn and respondPermission *)

\* authorizeConsequentialOperation: a competing approval revokes the capability.
AuthorizeCall(i) ==
  /\ capability' = IF capability = "live" /\ commitment \notin {NoInput, i} THEN "revoked" ELSE capability
  /\ commitment' = IF capability # "live" THEN commitment ELSE IF commitment \in {NoInput, i} THEN i ELSE NoInput
  /\ UNCHANGED <<delivered, ran>>
Authorizable(i) == capability = "live" /\ commitment \in {NoInput, i}

\* An answer that cannot be given: an approval takes the turn's capability along.
RefusedOnly == reply' = NoReply /\ UNCHANGED approvalVars
Refused ==
  /\ reply' = NoReply
  /\ IF reply.once /\ reply.at # "open" /\ reply.id.prompt = current /\ ~released
       THEN capability' = "revoked" /\ commitment' = NoInput
       ELSE UNCHANGED <<capability, commitment>>
  /\ UNCHANGED <<delivered, ran>>

Goes(at) == reply' = [reply EXCEPT !.at = at] /\ UNCHANGED approvalVars
ReplyFrame == UNCHANGED <<current, stage, pollVars, endVars, released, watch>>

Respond(id, once) ==
  /\ reply.at = "none" /\ id \in shown /\ HasBoundary /\ outcome[current] = "none"
  /\ Snapshot(current, Now)
  /\ reply' = IF id \in PendingNow THEN [at |-> "open", id |-> id, once |-> once] ELSE reply
  /\ UNCHANGED <<openCodeVars, approvalVars>> /\ ReplyFrame

\* resolvePermissionAuthority, then the grant is told what the user approved.
ResolveAuthority ==
  /\ reply.at = "open"
  /\ IF HasBoundary THEN Snapshot(current, Now) ELSE UNCHANGED <<boundary, authorities, shown>>
  /\ IF HasBoundary /\ reply.id \in PendingNow
       THEN IF reply.once
              THEN /\ AuthorizeCall(reply.id.input)
                   /\ reply' = IF Authorizable(reply.id.input) THEN [reply EXCEPT !.at = "authorized"] ELSE NoReply
              ELSE Goes("authorized")
       ELSE Refused
  /\ UNCHANGED openCodeVars /\ ReplyFrame

\* respondPermission: the request is still visible, with its authority ...
ReadVisible ==
  /\ reply.at = "authorized"
  /\ IF HasBoundary THEN Snapshot(current, Now) ELSE UNCHANGED <<boundary, authorities, shown>>
  /\ IF HasBoundary /\ reply.id \in PendingNow THEN Goes("visible") ELSE Refused
  /\ UNCHANGED openCodeVars /\ ReplyFrame

\* ... and the call still is what the id commits to.
Reprove ==
  /\ reply.at = "visible"
  /\ IF HasBoundary /\ reply.id \in PendingNow
       THEN Goes("proved") /\ UNCHANGED <<boundary, authorities, shown>>
       ELSE /\ Refused
            /\ authorities' = authorities \ {reply.id} /\ UNCHANGED <<boundary, shown>>
  /\ UNCHANGED openCodeVars /\ ReplyFrame

\* OpenCode takes an answer to a request that is pending, whatever the call has become.
Taken(id, once) ==
  /\ work = id.prompt /\ work \in asked
  /\ Asks(log[work][id.step])
  /\ Write(id.step, [log[work][id.step] EXCEPT !.call = IF once THEN "allowed" ELSE "failed"])

SendReply ==
  /\ reply.at = "proved"
  /\ \/ /\ Taken(reply.id, reply.once)
        /\ reply' = NoReply
        /\ delivered' = IF reply.once THEN delivered \cup {reply.id} ELSE delivered
        /\ UNCHANGED <<capability, commitment, ran>>
     \/ (Taken(reply.id, reply.once) \/ UNCHANGED openCodeVars) /\ Refused
  /\ UNCHANGED <<boundary, authorities, shown>> /\ ReplyFrame

InteractionStep ==
  \/ WatchRead \/ WatchApply
  \/ \E id \in shown, once \in BOOLEAN : Respond(id, once)
  \/ ResolveAuthority \/ ReadVisible \/ Reprove \/ SendReply

-----------------------------------------------------------------------------
PromptsNext ==
  \/ (OpenCodeStep \/ \E s \in Steps : RunCall(s))
       /\ UNCHANGED <<current, stage, pollVars, endVars, released, snapshotVars, reply>>
  \/ PromptStep
  \/ InteractionStep

PromptsSpec == PromptsInit /\ [][PromptsNext]_promptVars
-----------------------------------------------------------------------------
(* Properties *)

Ended == {"none", "answered", "error", "toolFailed", "incomplete", "forbidden", "stopped"}

PromptTypes ==
  /\ work \in {0} \cup Prompts /\ asked \subseteq Prompts /\ log \in [Prompts -> Views] /\ rules \in {0} \cup Prompts
  /\ current \in Prompts
  /\ stage \in {"ready", "rules", "submit", "status", "messages", "observe", "again", "checking", "close", "over"}
  /\ prior \subseteq Prompts /\ mine \in {0} \cup Prompts /\ installed \in BOOLEAN /\ idle \in BOOLEAN /\ view \in Views
  /\ failure \in {0} \cup Steps /\ evidence \in [Steps -> {"none", "pending", "complete", "failed"}] /\ candidate \in Views
  /\ outcome \in [Prompts -> Ended] /\ answer \in [Prompts -> SUBSET Steps]
  /\ boundary \in [Prompts -> [user : {0} \cup Prompts, failure : {0} \cup Steps]] /\ released \in BOOLEAN
  /\ watch \in [on : BOOLEAN, of : Prompts, view : Views] /\ shown \subseteq Ids /\ authorities \subseteq Ids
  /\ reply.at \in {"none", "open", "authorized", "visible", "proved"} /\ reply.once \in BOOLEAN
  /\ reply.at # "none" => reply.id \in Ids
  /\ capability \in {"none", "live", "revoked", "consumed"} /\ commitment \in Inputs \cup {NoInput}
  /\ delivered \subseteq Ids /\ ran \subseteq Ids

\* What OpenCode has written for p after the last failure.
Final(p) == {s \in Written(log[p]) : s > LastFailure(log[p])}

\* An answer is all that OpenCode wrote for this prompt after the last failure of an
\* attempt, every message closed, every call complete, and OpenCode is done with it.
AnswersAreWhole ==
  \A p \in Prompts : outcome[p] = "answered" =>
    /\ work # p /\ answer[p] = Final(p)
    /\ \A s \in Final(p) : log[p][s].state \in Completed /\ log[p][s].call \in {"none", "complete"}
    /\ \E s \in Final(p) : log[p][s].state = "spoken"

\* A prompt that is reported failed did fail, and what an attempt before the last
\* failure had done is not held against the attempt that followed it.
FailuresAreReal ==
  \A p \in Prompts :
    /\ outcome[p] = "error" => work # p /\ Final(p) = {}
    /\ outcome[p] = "toolFailed" => work # p /\ \E s \in Final(p) : log[p][s].call = "failed"
    /\ outcome[p] = "incomplete" => work # p /\ \E s \in Final(p) : log[p][s].state = "open"
    /\ outcome[p] = "forbidden" => \E s \in Steps : log[p][s].input = Foreign

\* While the adapter waits, OpenCode works for no other prompt, and under its rules.
RulesAreOurs == Polling /\ work # 0 => work = current /\ rules = current

\* A capability that stands approved was approved by an answer OpenCode took, or by
\* one that is still on its way: an answer that failed leaves nothing behind.
ApprovalsAreAnswered ==
  capability = "live" /\ commitment # NoInput =>
    \/ reply.at \in {"authorized", "visible", "proved"} /\ reply.once
         /\ reply.id.prompt = current /\ reply.id.input = commitment
    \/ \E id \in delivered : id.prompt = current /\ id.input = commitment

\* Only what the user approved has run: the same prompt, the same input.
RanAsApproved ==
  \A id \in ran : \E d \in delivered : d.prompt = id.prompt /\ d.input = id.input

\* The outcome of a prompt is the outcome of what OpenCode did (promptWithModel).
PromptsEndAsTheyWent == PromptTypes /\ AnswersAreWhole /\ FailuresAreReal

\* OpenCode acts within what this turn allows (promptWithModel, respondPermission).
PromptsActAsAllowed == RulesAreOurs /\ ApprovalsAreAnswered /\ RanAsApproved
=============================================================================
