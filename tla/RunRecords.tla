------------------------------ MODULE RunRecords ------------------------------
(***************************************************************************)
(* What commands do to the Experiments and the Runs of one Project, as     *)
(* product-store-v2.ts records it: an Experiment is created and updated, a *)
(* Run is started, cancelled, moved to the trash and restored; a batch Run *)
(* may report its completion to a Conversation by a card.  On top of these *)
(* rows, milestone-a2-api.ts streams the outputs of a Run and pages its    *)
(* diagnostic events.                                                      *)
(*                                                                         *)
(* A command has an id, and a caller that got no answer sends it again at  *)
(* any later time.  What it committed is kept as a receipt; a repetition   *)
(* compares the receipt with the rows as they are now, and answers with it *)
(* or refuses.  Each command is one synchronous transaction.  How a Run    *)
(* gets from the queue to its end is the subject of DispatchedRuns.        *)
(***************************************************************************)
EXTENDS Naturals, Sequences

CONSTANTS
  Configurations,                                        \* what an Experiment may say
  Creates, Updates, Starts, Cancels, Trashes, Restores,  \* command ids
  ByAgent,       \* those that come from a tool of the Project's Agent
  MaxDownloads,  \* bound of the code: two at a time of one Run
  MaxTrashes,    \* bound: how often a Run is moved to the trash
  NoValue

\* The id of an Experiment and of a Run derives from the command that makes it.
ExperimentIds == Creates
RunIds == Starts

Asked == Creates \cup Updates \cup Starts \cup Cancels \cup Trashes \cup Restores

VARIABLES
  experiments,  \* what an Experiment says, and the command that wrote it (updated_at)
  runs,         \* a runs row: status, pre_trash_status, what was frozen, who cancelled it first
  trash,       \* its trash_entries, oldest first
  card,        \* completion_card_disposition
  messages,    \* Runs whose card is a message of the Conversation
  chat,        \* lifecycle_state of that Conversation ("active" also where it is "archived")
  receipts,     \* what a command committed
  seen,        \* what the caller of a command read before it sent it
  downloads,   \* open output streams of a Run
  fenced,      \* #outputDownloadsRevokedRuns
  cursor       \* the newest cursor for the diagnostic events of a Run

rows == <<runs, trash, card, messages>>
reads == <<downloads, fenced, cursor>>
recordVars == <<experiments, rows, chat, receipts, seen, reads>>

\* "failed" stands for "timed_out" too.
Verdicts == {"succeeded", "failed", "cancelled"}
Statuses == {"absent", "queued", "running", "trashed"} \cup Verdicts

\* The columns of the rows, what a command is answered, and what a cursor is bound to.
ExperimentRows == [config : Configurations, by : Creates \cup Updates]
RunRows == [status : Statuses, prior : Verdicts \cup {NoValue}, config : Configurations \cup {NoValue},
            reports : BOOLEAN, first : Cancels \cup {NoValue}]
Entries == [prior : Verdicts, by : Trashes, restored : Restores \cup {NoValue}]
Revisions == [experiment : ExperimentIds, from : Creates \cup Updates, to : Configurations]
Plans == [config : Configurations, reports : BOOLEAN]
Requests == [run : RunIds, applied : BOOLEAN, first : Cancels \cup {NoValue}]
Moves == [run : RunIds, entry : Nat, verdict : Verdicts]
Positions == [status : Statuses, entries : Nat]
Dispositions == {"not_requested", "pending", "published", "conversation_unavailable"}

\* A receipt is looked up by the kind of its command, and what is missing is NULL.
ASSUME CommandsAssumption ==
  /\ Creates \cap Updates = {} /\ Trashes \cap Restores = {}
  /\ (Creates \cup Updates) \cap (Starts \cup Cancels \cup Trashes \cup Restores) = {}
  /\ Starts \cap (Cancels \cup Trashes \cup Restores) = {}
  /\ Cancels \cap (Trashes \cup Restores) = {}
  /\ NoValue \notin Asked \cup Configurations \cup Verdicts \cup Dispositions
  /\ NoValue \notin ExperimentRows \cup Revisions \cup Plans \cup Requests \cup Positions
  /\ NoValue \notin {[config |-> c] : c \in Configurations}

NoRun == [status |-> "absent", prior |-> NoValue, config |-> NoValue, reports |-> FALSE, first |-> NoValue]

RecordsInit ==
  /\ experiments = [e \in ExperimentIds |-> NoValue]
  /\ runs = [r \in RunIds |-> NoRun] /\ trash = [r \in RunIds |-> <<>>]
  /\ card = [r \in RunIds |-> NoValue] /\ messages = {} /\ chat = "active"
  /\ receipts = [x \in Asked |-> NoValue]
  /\ seen = [x \in Updates \cup Trashes \cup Restores |-> NoValue]
  /\ downloads = [r \in RunIds |-> 0] /\ fenced = {} /\ cursor = [r \in RunIds |-> NoValue]

Verdict(r) == IF runs[r].status = "trashed" THEN runs[r].prior ELSE runs[r].status
Ended(r) == Verdict(r) \in Verdicts

\* currentRunLifecycleBinding: what the lifecycle digest stands for.
Lifecycle(r) == [status |-> runs[r].status, verdict |-> Verdict(r), history |-> trash[r]]

Commits(x, answer) == receipts[x] = NoValue /\ receipts' = [receipts EXCEPT ![x] = answer]
-----------------------------------------------------------------------------
(* Experiments. *)

CreateExperiment(x, config) ==
  /\ Commits(x, [config |-> config])
  /\ experiments' = [experiments EXCEPT ![x] = [config |-> config, by |-> x]]
  /\ UNCHANGED <<rows, chat, seen, reads>>

\* A caller reads an Experiment and decides what it should say.
ReadExperiment(x, e, config) ==
  /\ receipts[x] = NoValue /\ experiments[e] # NoValue
  /\ seen' = [seen EXCEPT ![x] = [experiment |-> e, from |-> experiments[e].by, to |-> config]]
  /\ UNCHANGED <<experiments, rows, chat, receipts, reads>>

\* stale_configuration, stale_record: the record is not the one its caller read.
SaveExperiment(x) ==
  /\ seen[x] # NoValue /\ experiments[seen[x].experiment].by = seen[x].from
  /\ Commits(x, seen[x])
  /\ experiments' = [experiments EXCEPT ![seen[x].experiment] = [config |-> seen[x].to, by |-> x]]
  /\ UNCHANGED <<rows, chat, seen, reads>>
-----------------------------------------------------------------------------
(* Runs. *)

\* An Agent's Run always reports to the Conversation of its turn.
Reports(x) == IF x \in ByAgent THEN {TRUE} ELSE BOOLEAN

StartRun(x, e, reports) ==
  /\ experiments[e] # NoValue
  /\ reports \in Reports(x) /\ (reports => chat # "deleted")
  /\ Commits(x, [config |-> experiments[e].config, reports |-> reports])
  /\ runs' = [runs EXCEPT ![x] =
       [NoRun EXCEPT !.status = "queued", !.config = experiments[e].config, !.reports = reports]]
  /\ card' = [card EXCEPT ![x] = IF reports THEN "pending" ELSE "not_requested"]
  /\ UNCHANGED <<experiments, trash, messages, chat, seen, reads>>

ClaimRun(r) ==
  /\ runs[r].status = "queued" /\ runs[r].first = NoValue
  /\ runs' = [runs EXCEPT ![r].status = "running"]
  /\ UNCHANGED <<experiments, trash, card, messages, chat, receipts, seen, reads>>

\* #completionCardPlan: the card goes to a Conversation that is not in the trash.
Disposition(r) ==
  IF ~runs[r].reports THEN "not_requested"
  ELSE IF chat = "active" THEN "published" ELSE "conversation_unavailable"

LateCard(r, verdict) ==
  /\ runs' = [runs EXCEPT ![r].status = verdict]
  /\ messages' = IF Disposition(r) = "published" THEN messages \cup {r} ELSE messages
  /\ UNCHANGED card

\* Every end of a Run plans its card in the same transaction.
WithCard(r, verdict) ==
  /\ runs' = [runs EXCEPT ![r].status = verdict]
  /\ card' = [card EXCEPT ![r] = Disposition(r)]
  /\ messages' = IF Disposition(r) = "published" THEN messages \cup {r} ELSE messages

\* A cancellation that was requested wins; who was never claimed can only be cancelled.
RunEnds(r, verdict) ==
  /\ runs[r].status \in {"queued", "running"}
  /\ runs[r].status = "queued" => runs[r].first # NoValue
  /\ runs[r].first # NoValue => verdict = "cancelled"
  /\ WithCard(r, verdict)
  /\ UNCHANGED <<experiments, trash, chat, receipts, seen, reads>>

LastCancel(r, x) == x
FirstCancel(r, x) == IF runs[r].first = NoValue THEN x ELSE runs[r].first

\* The request of the first caller stands; whoever comes too late is told so.
RequestCancel(x, r) ==
  /\ runs[r].status # "absent"
  /\ IF Ended(r)
       THEN /\ Commits(x, [run |-> r, applied |-> FALSE, first |-> runs[r].first])
            /\ UNCHANGED runs
       ELSE /\ Commits(x, [run |-> r, applied |-> runs[r].first = NoValue, first |-> FirstCancel(r, x)])
            /\ runs' = [runs EXCEPT ![r].first = FirstCancel(r, x)]
  /\ UNCHANGED <<experiments, trash, card, messages, chat, seen, reads>>

\* A user or an Agent reads where a Run stands, to move it from there: a command to the
\* trash names the verdict that it read, and only what is in the trash is restored.
ReadLifecycle(x, r) ==
  /\ receipts[x] = NoValue
  /\ runs[r].status \in IF x \in Trashes THEN Verdicts ELSE {"trashed"}
  /\ seen' = [seen EXCEPT ![x] = [run |-> r, lifecycle |-> Lifecycle(r)]]
  /\ UNCHANGED <<experiments, rows, chat, receipts, reads>>

AsRead(x) == seen[x] # NoValue /\ seen[x].lifecycle = Lifecycle(seen[x].run)

Trashable(r) == runs[r].status \in Verdicts /\ card[r] # "pending"

\* beforeCommit of the HTTP route; the tool of an Agent passes none.
Fence(x, r) ==
  IF x \in ByAgent THEN UNCHANGED <<downloads, fenced>>
  ELSE downloads' = [downloads EXCEPT ![r] = 0] /\ fenced' = fenced \cup {r}

TrashRun(x) ==
  LET r == seen[x].run IN
  /\ AsRead(x) /\ Trashable(r) /\ Len(trash[r]) < MaxTrashes
  /\ Commits(x, [run |-> r, entry |-> Len(trash[r]) + 1, verdict |-> runs[r].status])
  /\ runs' = [runs EXCEPT ![r].status = "trashed", ![r].prior = runs[r].status]
  /\ trash' = [trash EXCEPT ![r] = Append(@, [prior |-> runs[r].status, by |-> x, restored |-> NoValue])]
  /\ Fence(x, r)
  /\ UNCHANGED <<experiments, card, messages, chat, seen, cursor>>

\* The transaction fails after its streams were cut; the route lifts the fence if it
\* can read that the Run is not in the trash.
TrashFails(x) ==
  LET r == seen[x].run IN
  /\ receipts[x] = NoValue /\ AsRead(x) /\ Trashable(r) /\ x \notin ByAgent
  /\ downloads' = [downloads EXCEPT ![r] = 0]
  /\ fenced' \in {fenced \ {r}, fenced \cup {r}}
  /\ UNCHANGED <<experiments, rows, chat, receipts, seen, cursor>>

\* Only the HTTP route lifts the fence.
Unfence(x, r) == fenced' = IF x \in ByAgent THEN fenced ELSE fenced \ {r}

Closed(r, x) == [trash[r] EXCEPT ![Len(trash[r])].restored = x]

RestoreRun(x) ==
  LET r == seen[x].run IN
  /\ AsRead(x) /\ runs[r].status = "trashed"
  /\ Commits(x, [run |-> r, entry |-> Len(trash[r]), verdict |-> runs[r].prior])
  /\ runs' = [runs EXCEPT ![r].status = runs[r].prior, ![r].prior = NoValue]
  /\ trash' = [trash EXCEPT ![r] = Closed(r, x)]
  /\ Unfence(x, r)
  /\ UNCHANGED <<experiments, card, messages, chat, seen, downloads, cursor>>

\* The route of a restoration looks at the Run after a repetition, too.
RestoreAgain(x) ==
  /\ receipts[x] # NoValue /\ x \notin ByAgent
  /\ runs[receipts[x].run].status # "trashed"
  /\ fenced' = fenced \ {receipts[x].run}
  /\ UNCHANGED <<experiments, rows, chat, receipts, seen, downloads, cursor>>
-----------------------------------------------------------------------------
(* The Conversation; a preview finds the Runs that report to it. *)

MoveChat(from, to) ==
  /\ chat = from /\ chat' = to
  /\ UNCHANGED <<experiments, rows, receipts, seen, reads>>

DeleteChat ==
  /\ chat = "trashed" /\ ~\E r \in RunIds : runs[r].reports
  /\ chat' = "deleted" /\ messages' = {}
  /\ UNCHANGED <<experiments, runs, trash, card, receipts, seen, reads>>
-----------------------------------------------------------------------------
(* Outputs and diagnostic events. *)

Downloadable(r) == runs[r].status = "succeeded"

DownloadOutput(r) ==
  /\ r \notin fenced /\ Downloadable(r) /\ downloads[r] < MaxDownloads
  /\ downloads' = [downloads EXCEPT ![r] = @ + 1]
  /\ UNCHANGED <<experiments, rows, chat, receipts, seen, fenced, cursor>>

DownloadEnds(r) ==
  /\ downloads[r] > 0
  /\ downloads' = [downloads EXCEPT ![r] = @ - 1]
  /\ UNCHANGED <<experiments, rows, chat, receipts, seen, fenced, cursor>>

StatusOnly(r) == [status |-> runs[r].status, entries |-> 0]

\* The lifecycle that a cursor is bound to names the trash entries, not what they say.
EventLifecycle(r) == [status |-> runs[r].status, entries |-> Len(trash[r])]

\* A first page needs no cursor, each further one the cursor of the page before it.
ReadEvents(r, first) ==
  /\ runs[r].status = "succeeded"
  /\ first \/ cursor[r] = EventLifecycle(r)
  /\ cursor' = [cursor EXCEPT ![r] = EventLifecycle(r)]
  /\ UNCHANGED <<experiments, rows, chat, receipts, seen, downloads, fenced>>
-----------------------------------------------------------------------------
(* The Store is opened again. *)

Settles(r) == Ended(r) /\ card[r] = "pending"

\* reconcileRunCompletionCards
Reopen ==
  /\ card' = [r \in RunIds |-> IF Settles(r) THEN Disposition(r) ELSE card[r]]
  /\ messages' = messages \cup {r \in RunIds : Settles(r) /\ Disposition(r) = "published"}
  /\ downloads' = [r \in RunIds |-> 0] /\ fenced' = {}
  /\ UNCHANGED <<experiments, runs, trash, chat, receipts, seen, cursor>>
-----------------------------------------------------------------------------
RecordsNext ==
  \/ \E x \in Creates, c \in Configurations : CreateExperiment(x, c)
  \/ \E x \in Updates, e \in ExperimentIds, c \in Configurations : ReadExperiment(x, e, c)
  \/ \E x \in Updates : SaveExperiment(x)
  \/ \E x \in Starts, e \in ExperimentIds, reports \in BOOLEAN : StartRun(x, e, reports)
  \/ \E r \in RunIds : ClaimRun(r)
  \/ \E r \in RunIds, verdict \in Verdicts : RunEnds(r, verdict)
  \/ \E x \in Cancels, r \in RunIds : RequestCancel(x, r)
  \/ \E x \in Trashes \cup Restores, r \in RunIds : ReadLifecycle(x, r)
  \/ \E x \in Trashes : TrashRun(x) \/ TrashFails(x)
  \/ \E x \in Restores : RestoreRun(x) \/ RestoreAgain(x)
  \/ MoveChat("active", "trashed") \/ MoveChat("trashed", "active") \/ DeleteChat
  \/ \E r \in RunIds : DownloadOutput(r) \/ DownloadEnds(r)
  \/ \E r \in RunIds, first \in BOOLEAN : ReadEvents(r, first)
  \/ Reopen

RecordsSpec == RecordsInit /\ [][RecordsNext]_recordVars
-----------------------------------------------------------------------------
(* Properties. *)

RecordTypes ==
  /\ experiments \in [ExperimentIds -> ExperimentRows \cup {NoValue}]
  /\ runs \in [RunIds -> RunRows] /\ trash \in [RunIds -> Seq(Entries)]
  /\ card \in [RunIds -> Dispositions \cup {NoValue}]
  /\ messages \subseteq RunIds /\ chat \in {"active", "trashed", "deleted"}
  /\ downloads \in [RunIds -> Nat] /\ fenced \subseteq RunIds

\* A Run is in the trash exactly while its newest entry is open.
TrashAgrees(r) ==
  LET open == {i \in 1..Len(trash[r]) : trash[r][i].restored = NoValue} IN
  /\ open = IF runs[r].status = "trashed" THEN {Len(trash[r])} ELSE {}
  /\ \A i \in open : trash[r][i].prior = runs[r].prior
  /\ runs[r].prior # NoValue <=> runs[r].status = "trashed"

\* auditRunCompletionCards: a card waits for the end of its Run and no longer.
CardAgrees(r) ==
  /\ card[r] = "pending" <=> runs[r].status \in {"queued", "running"} /\ runs[r].reports
  /\ card[r] \in {"published", "conversation_unavailable"} <=> Ended(r) /\ runs[r].reports
  /\ r \in messages <=> card[r] = "published"

\* The HTTP route cuts the streams of what it moves to the trash; the tool of an Agent does not.
StreamsAgree(r) ==
  /\ r \in fenced => downloads[r] = 0
  /\ downloads[r] > 0 => runs[r].status = "succeeded" \/
       (runs[r].status = "trashed" /\ runs[r].prior = "succeeded" /\ trash[r][Len(trash[r])].by \in ByAgent)

\* What the Store is opened with passes its own audit: the trash, the cards and the
\* streams of outputs agree with where each Run stands.
RecordsAgree == RecordTypes /\ \A r \in RunIds : TrashAgrees(r) /\ CardAgrees(r) /\ StreamsAgree(r)

\* #frozenRunStartReceipt, #frozenRunCancelReceipt, #runLifecycleCommandReceipt: what a
\* repetition compares before it answers.
StartStands(x) ==
  /\ runs[x].status # "absent"
  /\ runs[x].config = receipts[x].config /\ runs[x].reports = receipts[x].reports

CancelStands(x) ==
  LET first == runs[receipts[x].run].first IN
  /\ runs[receipts[x].run].status # "absent" /\ receipts[x].first = first
  /\ receipts[x].applied <=> first = x

MoveStands(x) ==
  LET r == receipts[x].run  e == trash[r][receipts[x].entry] IN
  /\ receipts[x].entry \in 1..Len(trash[r])
  /\ e.prior = receipts[x].verdict /\ Verdict(r) = receipts[x].verdict
  /\ IF x \in Trashes THEN e.by = x ELSE e.restored = x

\* An update is answered with what it wrote; nobody else wrote over what it had read.
UpdateStands(x) ==
  /\ experiments[receipts[x].experiment] # NoValue
  /\ \A y \in Updates \ {x} :
       receipts[y] # NoValue => receipts[y].experiment # receipts[x].experiment \/ receipts[y].from # receipts[x].from

\* A command that committed, as it is looked up for a repetition or for the evidence of an
\* Agent's action.
Stands(x) ==
  /\ x \in Updates => UpdateStands(x)
  /\ x \in Starts => StartStands(x)
  /\ x \in Cancels => CancelStands(x)
  /\ x \in Trashes \cup Restores => MoveStands(x)

\* A repetition never finds its receipt corrupt, however late it comes and whatever other
\* commands did to the Run in between: it is answered with what was committed.
ReceiptsStandUp == \A x \in Asked : receipts[x] # NoValue => Stands(x)

\* How a Run ended and what its Conversation was told of it.
VerdictStands(r) ==
  Ended(r) => /\ Verdict(r)' = Verdict(r) /\ card[r]' = card[r]
                 /\ r \in messages <=> r \in messages'

Usable(r) == runs[r].status = "succeeded" /\ cursor[r] = EventLifecycle(r)

\* A cursor that the trash made invalid does not become valid by a restoration.
CursorsStayDead(r) == cursor'[r] = cursor[r] /\ Usable(r)' => Usable(r)

\* A Run's end is settled once: no repeated command, restart, trash or restoration gives it
\* another verdict, another card or its old cursors back.
HistoryStands == [][\A r \in RunIds : VerdictStands(r) /\ CursorsStayDead(r)]_recordVars
=============================================================================
