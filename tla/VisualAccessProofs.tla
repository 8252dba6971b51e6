------------------------- MODULE VisualAccessProofs -------------------------
(***************************************************************************)
(* Proofs about what browser frames and Agents see of a visual Run.        *)
(***************************************************************************)
EXTENDS VisualAccess, FiniteSetTheorems, TLAPS

(* What every use of a frame knows of its Run. *)

\* A frame that was ever issued is for a Run whose process had been seen to listen.
Known(f) == frame[f].at # "unused" => RunOf(f) \in Runs /\ row[RunOf(f)] # "queued"

RouteOK(f) ==
  frame[f].at # "unused" /\ frame[f].gen = app /\ row[RunOf(f)] \in StillGoing

FramesAgree == (\A f \in Frames : Known(f)) /\ (\A f \in routed : RouteOK(f))

\* Whoever answered is the target's process, or that process has stopped for good.
RequestOK(q) ==
  LET r == RunOf(request[q].frame)
  IN  /\ request[q].at # "idle" => frame[request[q].frame].at # "unused"
      /\ request[q].at = "after" => request[q].by = r \/ listener # r
      /\ request[q].at = "delivered" \/ (request[q].at = "after" /\ q \in seen) => request[q].by = r

SocketOK(s) ==
  /\ Registered(s) => frame[socket[s].frame].at = "open" /\ socket[s].frame \in routed \cup dropped
  /\ socket[s].at \in {"checking", "open"} \/ (socket[s].at = "peering" /\ s \in seen)
       => socket[s].by = RunOf(socket[s].frame)

(* What every call knows. *)

Seen == {"asking", "rendering", "acting", "delivered"}

CallOK(c) ==
  /\ look[c].at \in Seen => look[c].by = look[c].run
  /\ look[c].at \in Busy => look[c].run \in Runs
  /\ c \in grants => look[c].at \in Busy /\ row[look[c].run] \in StillGoing
                     /\ scope[look[c].turn] # "released"

FramesOK == TargetTypes /\ FrameTypes /\ FramesAgree
            /\ (\A q \in Requests : RequestOK(q)) /\ (\A s \in Sockets : SocketOK(s))
CallsOK == TargetTypes /\ AgentTypes /\ (\A c \in Calls : CallOK(c))

(* What the facts tell of a call. *)

FactOK(c) ==
  /\ look[c].at = "idle" => facts[c] = {}
  /\ facts[c] # {} =>
       /\ "mint" \in facts[c]
       /\ look[c].at = "delivered" <=> "outcome" \in facts[c]
       /\ look[c].at = "delivered" \/ look[c].at \in Busy => "consume" \in facts[c]
       /\ \A a, b \in facts[c] \cap Ends : a = b
       /\ look[c].at \in Busy => facts[c] \cap Ends \subseteq {"revoked"}
       /\ c \in grants => facts[c] \cap Ends = {}
       /\ failures = 0 /\ c \notin grants => Ended(c)
  /\ facts[c] = {} => c \notin grants

FactsOK == \A c \in Calls : FactOK(c)

IInv == FramesOK /\ CallsOK /\ FactsOK
-----------------------------------------------------------------------------
(* The frames' own steps. *)

RequestTypes ==
  [Requests -> [at : {"idle", "before", "asking", "after", "delivered", "denied"},
                frame : Frames, by : Runs \cup {Nobody, Stranger}]]
SocketTypes ==
  [Sockets -> [at : {"idle", "open", "closed"} \cup Pending,
               frame : Frames, by : Runs \cup {Nobody, Stranger}]]

LEMMA ChildAnswersTypes ==
  ASSUME request \in RequestTypes, NEW q \in Requests, NEW p \in Runs \cup {Nobody, Stranger}
  PROVE  [request EXCEPT ![q].at = "after", ![q].by = p] \in RequestTypes
BY DEF RequestTypes

LEMMA SocketTyped ==
  ASSUME socket \in SocketTypes, NEW s \in Sockets, NEW p \in Runs \cup {Nobody, Stranger},
         NEW st \in {"idle", "open", "closed"} \cup Pending
  PROVE  /\ [socket EXCEPT ![s].at = st] \in SocketTypes
         /\ [socket EXCEPT ![s].at = st, ![s].by = p] \in SocketTypes
BY DEF SocketTypes, Pending

\* Sockets that are closed, requests that are denied.
LEMMA ClosedTyped ==
  ASSUME socket \in SocketTypes, NEW S
  PROVE  [s \in Sockets |-> IF s \in S THEN [socket[s] EXCEPT !.at = "closed"] ELSE socket[s]] \in SocketTypes
BY DEF SocketTypes

LEMMA DeniedTyped ==
  ASSUME request \in RequestTypes, NEW S
  PROVE  [q \in Requests |-> IF q \in S THEN [request[q] EXCEPT !.at = "denied"] ELSE request[q]] \in RequestTypes
BY DEF RequestTypes

LEMMA FrameSteps ==
  ASSUME FramesOK, FrameStep, UNCHANGED targetVars
  PROVE  FramesOK'
<1> USE ListenersDiffer, UsesDiffer, SessionsAssumption
<1> USE DEF FramesOK, FramesAgree, Known, RouteOK, RequestOK, SocketOK, StillGoing, RunOf, Live, FrameUsable,
        FrameGoes, RequestGoes, SocketGoes, Pending, Registered, Inspecting, Passed, Failed, TargetOf,
        CurrentHealthyTarget, ListenerIs, TargetTypes, FrameTypes, Rows, targetVars
<1>1. ASSUME NEW i \in Frames \cup Requests \cup Sockets, Look(i)
     PROVE  FramesOK'
  BY <1>1 DEF Look, PeerIs
<1>2. ASSUME NEW f \in Frames, NEW r \in Runs, IssueFrameSession(f, r)
     PROVE  FramesOK'
  BY <1>2 DEF IssueFrameSession
<1>3. ASSUME NEW f \in Frames, Issued(f)
     PROVE  FramesOK'
  BY <1>3 DEF Issued
<1>4. ASSUME NEW f \in Frames, NotIssued(f)
     PROVE  FramesOK'
  BY <1>4 DEF NotIssued
<1>5. ASSUME NEW f \in Frames, Redeem(f)
     PROVE  FramesOK'
  BY <1>5 DEF Redeem
<1>6. ASSUME NEW f \in Frames, Redeemed(f)
     PROVE  FramesOK'
  BY <1>6 DEF Redeemed
<1>7. ASSUME NEW f \in Frames, NotRedeemed(f)
     PROVE  FramesOK'
  BY <1>7 DEF NotRedeemed
<1>8. ASSUME NEW f \in Frames, Expire(f)
     PROVE  FramesOK'
  BY <1>8 DEF Expire
<1>9. ASSUME NEW q \in Requests, Proxy(q)
     PROVE  FramesOK'
  BY <1>9 DEF Proxy
<1>10. ASSUME NEW q \in Requests, AskChild(q)
     PROVE  FramesOK'
  <2>1. TargetTypes' /\ FrameTypes' /\ FramesAgree'
    BY <1>10 DEF AskChild
  <2>2. \A x \in Requests : RequestOK(x)'
    BY <1>10 DEF AskChild
  <2>3. \A x \in Sockets : SocketOK(x)'
    BY <1>10 DEF AskChild
  <2>4. QED
    BY <2>1, <2>2, <2>3
<1>11. ASSUME NEW q \in Requests, ChildAnswers(q)
     PROVE  FramesOK'
  <2>0. FrameTypes'
    <3>1. request' \in RequestTypes
      <4>1. request \in RequestTypes /\ listener \in Runs \cup {Nobody, Stranger}
        BY DEF RequestTypes
      <4>2. request' = [request EXCEPT ![q].at = "after", ![q].by = listener]
        BY <1>11 DEF ChildAnswers
      <4> HIDE DEF FramesOK, FrameTypes
      <4>3. QED
        BY <4>1, <4>2, ChildAnswersTypes DEF Pending
    <3>2. seen' \subseteq Inspecting'
      BY <1>11 DEF ChildAnswers
    <3>3. QED
      BY <1>11, <3>1, <3>2 DEF ChildAnswers, RequestTypes
  <2>1. TargetTypes' /\ FrameTypes' /\ FramesAgree'
    BY <1>11, <2>0 DEF ChildAnswers
  <2>2. \A x \in Requests : RequestOK(x)'
    BY <1>11 DEF ChildAnswers
  <2>3. \A x \in Sockets : SocketOK(x)'
    BY <1>11 DEF ChildAnswers
  <2>4. QED
    BY <2>1, <2>2, <2>3
<1>12. ASSUME NEW q \in Requests, Deliver(q)
     PROVE  FramesOK'
  <2>1. TargetTypes' /\ FrameTypes' /\ FramesAgree'
    BY <1>12 DEF Deliver
  <2>2. \A x \in Requests : RequestOK(x)'
    BY <1>12 DEF Deliver
  <2>3. \A x \in Sockets : SocketOK(x)'
    BY <1>12 DEF Deliver
  <2>4. QED
    BY <2>1, <2>2, <2>3
<1>13. ASSUME NEW q \in Requests, InspectionFails(q)
     PROVE  FramesOK'
  BY <1>13 DEF InspectionFails
<1>14. ASSUME NEW q \in Requests, ProxyDenied(q)
     PROVE  FramesOK'
  <2>0. FrameTypes'
    <3>1. request' \in [Requests -> [at : {"idle", "before", "asking", "after", "delivered", "denied"},
                     frame : Frames, by : Runs \cup {Nobody, Stranger}]]
      BY <1>14 DEF ProxyDenied
    <3>2. seen' \subseteq Inspecting'
      BY <1>14 DEF ProxyDenied
    <3>3. QED
      BY <1>14, <3>1, <3>2 DEF ProxyDenied
  <2>1. TargetTypes' /\ FrameTypes' /\ FramesAgree'
    BY <1>14, <2>0 DEF ProxyDenied
  <2>2. \A x \in Requests : RequestOK(x)'
    BY <1>14 DEF ProxyDenied
  <2>3. \A x \in Sockets : SocketOK(x)'
    BY <1>14 DEF ProxyDenied
  <2>4. QED
    BY <2>1, <2>2, <2>3
<1>15. ASSUME NEW s \in Sockets, AdmitWebSocket(s)
     PROVE  FramesOK'
  <2>1. TargetTypes' /\ FrameTypes' /\ FramesAgree'
    BY <1>15 DEF AdmitWebSocket
  <2>2. \A x \in Requests : RequestOK(x)'
    BY <1>15 DEF AdmitWebSocket
  <2>3. \A x \in Sockets : SocketOK(x)'
    BY <1>15 DEF AdmitWebSocket
  <2>4. QED
    BY <2>1, <2>2, <2>3
<1>16. ASSUME NEW s \in Sockets, Admitted(s)
     PROVE  FramesOK'
  <2>0. FrameTypes'
    <3>1. socket' \in SocketTypes
      <4>1. socket \in SocketTypes /\ listener \in Runs \cup {Nobody, Stranger}
        BY DEF SocketTypes
      <4>2. socket' = [socket EXCEPT ![s].at = "dialing"]
        BY <1>16 DEF Admitted
      <4> HIDE DEF FramesOK, FrameTypes
      <4>3. QED
        BY <4>1, <4>2, SocketTyped DEF Pending
    <3>2. seen' \subseteq Inspecting'
      BY <1>16 DEF Admitted
    <3>3. QED
      BY <1>16, <3>1, <3>2 DEF Admitted, SocketTypes
  <2>1. TargetTypes' /\ FrameTypes' /\ FramesAgree'
    BY <1>16, <2>0 DEF Admitted
  <2>2. \A x \in Requests : RequestOK(x)'
    BY <1>16 DEF Admitted
  <2>3. \A x \in Sockets : SocketOK(x)'
    BY <1>16 DEF Admitted
  <2>4. QED
    BY <2>1, <2>2, <2>3
<1>17. ASSUME NEW s \in Sockets, ConnectChild(s)
     PROVE  FramesOK'
  <2>0. FrameTypes'
    <3>1. socket' \in SocketTypes
      <4>1. socket \in SocketTypes /\ listener \in Runs \cup {Nobody, Stranger}
        BY DEF SocketTypes
      <4>2. socket' = [socket EXCEPT ![s].at = "peering", ![s].by = listener]
        BY <1>17 DEF ConnectChild
      <4> HIDE DEF FramesOK, FrameTypes
      <4>3. QED
        BY <4>1, <4>2, SocketTyped DEF Pending
    <3>2. seen' \subseteq Inspecting'
      BY <1>17 DEF ConnectChild
    <3>3. QED
      BY <1>17, <3>1, <3>2 DEF ConnectChild, SocketTypes
  <2>1. TargetTypes' /\ FrameTypes' /\ FramesAgree'
    BY <1>17, <2>0 DEF ConnectChild
  <2>2. \A x \in Requests : RequestOK(x)'
    BY <1>17 DEF ConnectChild
  <2>3. \A x \in Sockets : SocketOK(x)'
    BY <1>17 DEF ConnectChild
  <2>4. QED
    BY <2>1, <2>2, <2>3
<1>18. ASSUME NEW s \in Sockets, PeerInspected(s)
     PROVE  FramesOK'
  BY <1>18 DEF PeerInspected
<1>19. ASSUME NEW s \in Sockets, MarkOpen(s)
     PROVE  FramesOK'
  BY <1>19 DEF MarkOpen
<1>20. ASSUME NEW s \in Sockets, SocketCloses(s)
     PROVE  FramesOK'
  BY <1>20 DEF SocketCloses
<1>21. QED
  BY <1>1, <1>2, <1>3, <1>4, <1>5, <1>6, <1>7, <1>8, <1>9, <1>10, <1>11, <1>12, <1>13, <1>14, <1>15, <1>16, <1>17, <1>18, <1>19, <1>20 DEF FrameStep

-----------------------------------------------------------------------------
(* The steps of the Runs, and what they revoke. *)

\* A Run begins and its time passes, and the machine's processes come and go.
LEMMA FramesStay ==
  ASSUME FramesOK, UNCHANGED frameVars, Machine \/ \E r \in Runs : RecordHealth(r) \/ Lapse(r)
  PROVE  FramesOK'
<1> USE ListenersDiffer, UsesDiffer
<1> USE DEF FramesOK, FramesAgree, Known, RouteOK, RequestOK, SocketOK, StillGoing, RunOf, Pending,
        Registered, Inspecting, TargetTypes, FrameTypes, Rows, frameVars
<1>1. CASE Machine
  BY <1>1 DEF Machine, ProcessEnds, StrangerListens, StrangerLeaves
<1>2. ASSUME NEW r \in Runs, RecordHealth(r)
     PROVE  FramesOK'
  BY <1>2 DEF RecordHealth, Goes, Unfinished
<1>3. ASSUME NEW r \in Runs, Lapse(r)
     PROVE  FramesOK'
  BY <1>3 DEF Lapse, Goes
<1>4. QED
  BY <1>1, <1>2, <1>3

\* The Run ends for whoever looks at it, and its frames are revoked with it.
LEMMA RunStops ==
  ASSUME FramesOK, NEW r \in Runs, CancelRow(r) \/ FinalizeRow(r) \/ TrashRow(r), RevokeRun(r)
  PROVE  FramesOK'
<1> USE ListenersDiffer, UsesDiffer
<1> USE DEF FramesOK, FramesAgree, Known, RouteOK, RequestOK, SocketOK, StillGoing, RunOf, Pending,
        Registered, Inspecting, TargetTypes, FrameTypes, Rows
<1>1. UNCHANGED listener /\ \E s \in {"cancelled", "over", "trashed"} : row' = [row EXCEPT ![r] = s]
  BY DEF CancelRow, FinalizeRow, TrashRow, Goes
<1>2. TargetTypes'
  BY <1>1
<1>3. \A s \in Sockets : socket'[s] = socket[s] \/ socket'[s] = [socket[s] EXCEPT !.at = "closed"]
  BY DEF RevokeRun, Revoked
<1>4. seen' \subseteq Inspecting'
  BY DEF RevokeRun, Revoked, ForRun
<1>5. FrameTypes'
  <2>1. socket' \in SocketTypes
    BY <1>3 DEF SocketTypes, RevokeRun, Revoked
  <2>2. QED
    BY <1>4, <2>1 DEF SocketTypes, RevokeRun, Revoked
<1>6. FramesAgree'
  BY <1>1 DEF RevokeRun, Revoked, ForRun
<1>7. \A q \in Requests : RequestOK(q)'
  BY <1>1 DEF RevokeRun, Revoked
<1>8. \A s \in Sockets : SocketOK(s)'
  BY <1>1, <1>3 DEF RevokeRun, Revoked, ForRun
<1>9. QED
  BY <1>2, <1>5, <1>6, <1>7, <1>8

\* A deletion finds no frame in use.
LEMMA FramesDeleted ==
  ASSUME FramesOK, PermanentDelete
  PROVE  FramesOK'
BY DEF PermanentDelete, DeleteRows, Unfinished, frameVars, FramesOK, FramesAgree, Known, RouteOK, RequestOK, SocketOK, StillGoing, RunOf, Pending,
        Registered, Inspecting, TargetTypes, FrameTypes, Rows

\* A new app session takes over no frame.
LEMMA FramesCleared ==
  ASSUME FramesOK, Bootstrap, UNCHANGED targetVars
  PROVE  FramesOK'
<1> USE DEF FramesOK, FramesAgree, Known, RouteOK, RequestOK, SocketOK, StillGoing, RunOf, Pending,
        Registered, Inspecting, TargetTypes, FrameTypes, Rows, Bootstrap, Revoked, targetVars
<1>1. \A s \in Sockets : socket'[s] = socket[s] \/ socket'[s] = [socket[s] EXCEPT !.at = "closed"]
  OBVIOUS
<1>2. FrameTypes'
  <2>1. socket' \in SocketTypes
    BY <1>1 DEF SocketTypes
  <2>2. seen' \subseteq Inspecting'
    BY UsesDiffer
  <2>3. app' \in 1..MaxSessions
    BY SessionsAssumption
  <2>4. QED
    BY <2>1, <2>2, <2>3 DEF SocketTypes
<1>3. TargetTypes' /\ FramesAgree'
  OBVIOUS
<1>4. \A q \in Requests : RequestOK(q)'
  BY UsesDiffer
<1>5. \A s \in Sockets : SocketOK(s)'
  BY <1>1
<1>6. QED
  BY <1>2, <1>3, <1>4, <1>5

LEMMA FramesRestart ==
  ASSUME FramesOK, RecoverRows, FramesForgotten
  PROVE  FramesOK'
<1> USE ListenersDiffer
<1> USE DEF FramesOK, FramesAgree, Known, RouteOK, RequestOK, SocketOK, StillGoing, RunOf, Pending,
        Registered, Inspecting, TargetTypes, FrameTypes, Rows, RecoverRows, FramesForgotten, Unfinished
<1>1. TargetTypes'
  OBVIOUS
<1>2. FrameTypes'
  <2>1. socket' \in SocketTypes
    <3> DEFINE closed == {s \in Sockets : Registered(s)}
    <3>1. socket' = [s \in Sockets |->
                       IF s \in closed THEN [socket[s] EXCEPT !.at = "closed"] ELSE socket[s]]
      OBVIOUS
    <3>2. socket \in SocketTypes
      BY DEF SocketTypes
    <3> HIDE DEF closed, FramesOK, FrameTypes, FramesForgotten
    <3>3. QED
      BY <3>1, <3>2, ClosedTyped
  <2>2. request' \in RequestTypes
    <3> DEFINE denied == {q \in Requests : request[q].at \in {"before", "asking", "after"}}
    <3>1. request' = [q \in Requests |->
                        IF q \in denied THEN [request[q] EXCEPT !.at = "denied"] ELSE request[q]]
      OBVIOUS
    <3>2. request \in RequestTypes
      BY DEF RequestTypes
    <3> HIDE DEF denied, FramesOK, FrameTypes, FramesForgotten
    <3>3. QED
      BY <3>1, <3>2, DeniedTyped
  <2>3. app' \in 1..MaxSessions
    BY SessionsAssumption
  <2>4. frame' \in [Frames -> [at : {"unused", "resolving", "issued", "redeeming", "open", "closed"},
                               run : Runs \cup {NoRun}, gen : 0..MaxSessions]]
    OBVIOUS
  <2>5. QED
    BY <2>1, <2>2, <2>3, <2>4 DEF SocketTypes, RequestTypes
<1>3. FramesAgree'
  OBVIOUS
<1>4. \A q \in Requests : RequestOK(q)'
  OBVIOUS
<1>5. \A s \in Sockets : SocketOK(s)'
  OBVIOUS
<1>6. QED
  BY <1>1, <1>2, <1>3, <1>4, <1>5

-----------------------------------------------------------------------------
(* The Agents' calls. *)

CallTypes ==
  [Calls -> [at : Busy \cup {"idle", "delivered", "denied"}, kind : {"observe", "interact"},
             turn : Speakers, run : Runs \cup {NoRun}, by : Runs \cup {Nobody, Stranger},
             aborted : BOOLEAN]]

\* Rows of any such table keep their type when two of their fields are set.
LEMMA RowSeen ==
  ASSUME NEW Ats, NEW Kinds, NEW Rs, NEW Bys, NEW c \in Calls, NEW st \in Ats, NEW p \in Bys,
         look \in [Calls -> [at : Ats, kind : Kinds, turn : Speakers, run : Rs, by : Bys, aborted : BOOLEAN]]
  PROVE  [look EXCEPT ![c].at = st, ![c].by = p]
           \in [Calls -> [at : Ats, kind : Kinds, turn : Speakers, run : Rs, by : Bys, aborted : BOOLEAN]]
OBVIOUS

LEMMA RowNamed ==
  ASSUME NEW Ats, NEW Kinds, NEW Rs, NEW Bys, NEW c \in Calls, NEW st \in Ats, NEW r \in Rs,
         look \in [Calls -> [at : Ats, kind : Kinds, turn : Speakers, run : Rs, by : Bys, aborted : BOOLEAN]]
  PROVE  [look EXCEPT ![c].run = r, ![c].at = st]
           \in [Calls -> [at : Ats, kind : Kinds, turn : Speakers, run : Rs, by : Bys, aborted : BOOLEAN]]
OBVIOUS

LEMMA CallTyped ==
  ASSUME look \in CallTypes, NEW c \in Calls, NEW st \in Busy \cup {"idle", "delivered", "denied"}
  PROVE  /\ [look EXCEPT ![c].at = st] \in CallTypes
         /\ \A r \in Runs : [look EXCEPT ![c].run = r, ![c].at = st] \in CallTypes
         /\ \A p \in Runs \cup {Nobody, Stranger} : [look EXCEPT ![c].at = st, ![c].by = p] \in CallTypes
         /\ [look EXCEPT ![c].aborted = TRUE] \in CallTypes
<1>1. [look EXCEPT ![c].at = st] \in CallTypes
  BY DEF CallTypes
<1>2. \A r \in Runs : [look EXCEPT ![c].run = r, ![c].at = st] \in CallTypes
  <2>1. \A r \in Runs : r \in Runs \cup {NoRun}
    OBVIOUS
  <2>2. QED  BY <2>1, RowNamed DEF CallTypes
<1>3. \A p \in Runs \cup {Nobody, Stranger} : [look EXCEPT ![c].at = st, ![c].by = p] \in CallTypes
  BY RowSeen DEF CallTypes
<1>4. [look EXCEPT ![c].aborted = TRUE] \in CallTypes
  BY DEF CallTypes
<1>5. QED
  BY <1>1, <1>2, <1>3, <1>4

\* A call that goes on, with its grant and its facts as they were.
LEMMA CallStays ==
  ASSUME CallsOK, FactsOK, UNCHANGED <<targetVars, scope, grants, facts, failures>>,
         NEW c \in Calls, look[c].at \in Busy, look' \in CallTypes,
         \A d \in Calls : d # c => look'[d] = look[d],
         look'[c].at \in Busy, look'[c].run = look[c].run, look'[c].turn = look[c].turn,
         look'[c].at \in Seen => look'[c].by = look[c].run
  PROVE  CallsOK' /\ FactsOK'
<1>1. AgentTypes'
  BY DEF CallsOK, AgentTypes, CallTypes
<1>2. \A d \in Calls : CallOK(d)'
  BY DEF CallsOK, CallOK, targetVars
<1>3. FactsOK'
  <2> SUFFICES ASSUME NEW d \in Calls PROVE FactOK(d)'
    BY DEF FactsOK
  <2>1. FactOK(d)
    BY DEF FactsOK
  <2>2. CASE d # c
    BY <2>1, <2>2 DEF FactOK, Ended
  <2>3. CASE d = c
    BY <2>1, <2>3 DEF FactOK, Ended, Busy
  <2>4. QED  BY <2>2, <2>3
<1>4. QED
  BY <1>1, <1>2, <1>3 DEF CallsOK, TargetTypes, targetVars

LEMMA CallMoves ==
  ASSUME CallsOK, FactsOK, UNCHANGED <<targetVars, scope, grants, facts, failures>>,
         NEW c \in Calls, NEW st \in Busy, look[c].at \in Busy, CallGoes(c, st),
         st \in Seen => look[c].by = look[c].run
  PROVE  CallsOK' /\ FactsOK'
<1>1. look \in CallTypes
  BY DEF CallsOK, AgentTypes, CallTypes
<1>2. look' \in CallTypes
  BY <1>1, CallTyped DEF CallGoes
<1>3. /\ \A d \in Calls : d # c => look'[d] = look[d]
      /\ look'[c].at = st /\ look'[c].run = look[c].run /\ look'[c].turn = look[c].turn
      /\ look'[c].by = look[c].by
  BY <1>1 DEF CallGoes, CallTypes
<1>4. QED
  BY <1>2, <1>3, CallStays

LEMMA CallGoesOn ==
  ASSUME CallsOK, FactsOK, UNCHANGED targetVars, NEW c \in Calls,
         \/ ListenerSeen(c) \/ Connect(c) \/ PeerSeen(c) \/ PageShown(c) \/ Act(c) \/ TimerAborts(c)
  PROVE  CallsOK' /\ FactsOK'
<1>1. look \in CallTypes
  BY DEF CallsOK, AgentTypes, CallTypes
<1>2. look[c].at \in Seen => look[c].by = look[c].run
  BY DEF CallsOK, CallOK
<1>3. CASE ListenerSeen(c)
  BY <1>3, CallMoves DEF ListenerSeen, Busy, Seen
<1>4. CASE PeerSeen(c)
  BY <1>4, CallMoves DEF PeerSeen, Busy, Seen
<1>5. CASE PageShown(c)
  BY <1>2, <1>5, CallMoves DEF PageShown, Busy, Seen
<1>6. CASE Act(c)
  BY <1>2, <1>6, CallMoves DEF Act, Busy, Seen
<1>7. CASE Connect(c)
  <2>1. listener \in Runs \cup {Nobody, Stranger}
    BY DEF CallsOK, TargetTypes
  <2>2. look' = [look EXCEPT ![c].at = "peering", ![c].by = listener] /\ look[c].at = "connecting"
    BY <1>7 DEF Connect
  <2>3. look' \in CallTypes
    BY <1>1, <2>1, <2>2, CallTyped, "peering" \in Busy DEF Busy
  <2>4. /\ \A d \in Calls : d # c => look'[d] = look[d]
        /\ look'[c].at = "peering" /\ look'[c].run = look[c].run /\ look'[c].turn = look[c].turn
    BY <1>1, <2>2 DEF CallTypes
  <2>5. QED
    BY <1>7, <2>2, <2>3, <2>4, CallStays DEF Connect, Busy, Seen
<1>8. CASE TimerAborts(c)
  <2>1. look' = [look EXCEPT ![c].aborted = TRUE] /\ look[c].at \in Busy
    BY <1>8 DEF TimerAborts
  <2>2. look' \in CallTypes
    BY <1>1, <2>1, CallTyped, "denied" \in Busy \cup {"idle", "delivered", "denied"}
  <2>3. /\ \A d \in Calls : d # c => look'[d] = look[d]
        /\ look'[c].at = look[c].at /\ look'[c].run = look[c].run /\ look'[c].turn = look[c].turn
        /\ look'[c].by = look[c].by
    BY <1>1, <2>1 DEF CallTypes
  <2>4. QED
    BY <1>2, <1>8, <2>1, <2>2, <2>3, CallStays DEF TimerAborts
<1>9. QED
  BY <1>3, <1>4, <1>5, <1>6, <1>7, <1>8

\* A call that ends: its grant goes, and a fact may be added to what is known of it.
LEMMA CallEnds ==
  ASSUME CallsOK, FactsOK, UNCHANGED targetVars, NEW c \in Calls, look[c].at \in Busy,
         NEW to \in {"delivered", "denied"}, EndsAs(c, to),
         failures' \in 0..MaxIoFailures, failures <= failures',
         NEW added \in SUBSET Ends, facts' = [facts EXCEPT ![c] = @ \cup added],
         to = "delivered" => look[c].by = look[c].run,
         FactOK(c)'
  PROVE  CallsOK' /\ FactsOK'
<1>1. look \in CallTypes /\ failures \in Nat
  BY CallsAssumption DEF CallsOK, AgentTypes, CallTypes
<1>2. look' \in CallTypes
  BY <1>1, CallTyped DEF EndsAs, CallGoes
<1>3. /\ \A d \in Calls : d # c => look'[d] = look[d]
      /\ look'[c].at = to /\ look'[c].run = look[c].run /\ look'[c].by = look[c].by
  BY <1>1 DEF EndsAs, CallGoes, CallTypes
<1>4. facts' \in [Calls -> SUBSET ({"mint", "consume"} \cup Ends)]
  BY DEF CallsOK, AgentTypes
<1>5. AgentTypes'
  BY <1>2, <1>3, <1>4 DEF CallsOK, AgentTypes, CallTypes, EndsAs
<1>6. \A d \in Calls : CallOK(d)'
  BY <1>3 DEF CallsOK, CallOK, EndsAs, targetVars, Seen, Busy
<1>7. FactsOK'
  <2> SUFFICES ASSUME NEW d \in Calls, d # c PROVE FactOK(d)'
    BY DEF FactsOK
  <2>1. FactOK(d) /\ look'[d] = look[d] /\ (d \in grants <=> d \in grants')
    BY <1>3 DEF FactsOK, EndsAs
  <2>2. facts'[d] = facts[d]
    BY DEF CallsOK, AgentTypes
  <2>3. failures' = 0 => failures = 0
    BY <1>1
  <2>4. QED
    BY <2>1, <2>2, <2>3 DEF FactOK, Ended
<1>8. QED
  BY <1>5, <1>6, <1>7 DEF CallsOK, TargetTypes, targetVars

LEMMA CallFinishes ==
  ASSUME CallsOK, FactsOK, UNCHANGED targetVars, NEW c \in Calls,
         Completes(c) \/ OutcomeRefused(c) \/ Denied(c)
  PROVE  CallsOK' /\ FactsOK'
<1>1. /\ look \in CallTypes /\ facts \in [Calls -> SUBSET ({"mint", "consume"} \cup Ends)]
      /\ failures \in 0..MaxIoFailures /\ failures \in Nat
  BY CallsAssumption DEF CallsOK, AgentTypes, CallTypes
<1>2. look[c].at \in Seen => look[c].by = look[c].run
  BY DEF CallsOK, CallOK
<1>3. FactOK(c)
  BY DEF FactsOK
<1>4. ASSUME NEW to, EndsAs(c, to)
      PROVE  look'[c].at = to /\ grants' = grants \ {c}
  BY <1>1, <1>4 DEF EndsAs, CallGoes, CallTypes
<1>5. CASE Completes(c)
  <2>1. look[c].at \in {"rendering", "acting"} /\ EndsAs(c, "delivered") /\ c \in grants
    BY <1>5 DEF Completes, Answered, CallLives
  <2>2. /\ "consume" \in facts[c] /\ facts[c] \cap Ends = {} /\ failures' = failures
        /\ facts' = [facts EXCEPT ![c] = @ \cup {"outcome"}] /\ "outcome" \in Ends
    BY <1>5 DEF Completes, Records, Ended, Ends
  <2>3. facts'[c] = facts[c] \cup {"outcome"}
    BY <1>1, <2>2
  <2>4. FactOK(c)'
    <3>1. Ended(c)' /\ \A a, b \in facts'[c] \cap Ends : a = b
      BY <2>2, <2>3 DEF Ended
    <3>2. "mint" \in facts'[c] /\ look'[c].at = "delivered" /\ c \notin grants'
      BY <1>3, <1>4, <2>1, <2>2, <2>3 DEF FactOK
    <3>3. QED
      BY <2>2, <2>3, <3>1, <3>2 DEF FactOK, Busy
  <2>5. look[c].at \in Busy /\ look[c].by = look[c].run
    BY <1>2, <2>1 DEF Busy, Seen
  <2> DEFINE added == {"outcome"}
  <2>6. added \in SUBSET Ends /\ facts' = [facts EXCEPT ![c] = @ \cup added]
    BY <2>2
  <2>7. failures' \in 0..MaxIoFailures /\ failures <= failures'
    BY <1>1, <2>2
  <2> HIDE DEF added
  <2>8. QED
    BY <2>1, <2>4, <2>5, <2>6, <2>7, CallEnds
<1>6. FailureCode(c) \in {"unknown", "failed"}
  BY DEF FailureCode
<1>7. CASE OutcomeRefused(c)
  <2>1. /\ look[c].at \in {"rendering", "acting"} /\ EndsAs(c, "denied") /\ c \in grants
        /\ failures' \in 0..MaxIoFailures /\ failures < failures'
    BY <1>1, <1>7, CallsAssumption DEF OutcomeRefused, Answered, CallLives, StoreFails
  <2>2. PICK added \in {{FailureCode(c)}, {}} : facts' = [facts EXCEPT ![c] = @ \cup added]
    BY <1>1, <1>7 DEF OutcomeRefused
  <2>3. facts'[c] = facts[c] \cup added /\ added \subseteq Ends \ {"outcome"}
    BY <1>1, <1>6, <2>2 DEF Ends
  <2>4. facts[c] \cap Ends = {} /\ failures' # 0 /\ \A a, b \in added : a = b
    BY <1>1, <1>3, <2>1, <2>2 DEF FactOK
  <2>5. FactOK(c)'
    BY <1>3, <1>4, <2>1, <2>3, <2>4 DEF FactOK, Ended, Busy, Ends
  <2>6. added \in SUBSET Ends /\ failures <= failures' /\ look[c].at \in Busy
    BY <1>1, <1>6, <2>1, <2>2, CallsAssumption DEF Ends, Busy
  <2>7. QED
    BY <2>1, <2>2, <2>5, <2>6, CallEnds
<1>8. CASE Denied(c)
  <2>1. look[c].at \in Busy /\ EndsAs(c, "denied")
    BY <1>8 DEF Denied
  <2>2. CASE ~Ended(c) /\ Records(c, FailureCode(c))
    <3>1. /\ "consume" \in facts[c] /\ facts[c] \cap Ends = {} /\ failures' = failures
          /\ facts' = [facts EXCEPT ![c] = @ \cup {FailureCode(c)}] /\ FailureCode(c) \in Ends \ {"outcome"}
      BY <1>6, <2>2 DEF Records, Ended, Ends
    <3>2. facts'[c] = facts[c] \cup {FailureCode(c)}
      BY <1>1, <3>1
    <3>3. FactOK(c)'
      <4>1. Ended(c)' /\ \A a, b \in facts'[c] \cap Ends : a = b
        BY <3>1, <3>2 DEF Ended
      <4>2. /\ "mint" \in facts'[c] /\ look'[c].at = "denied" /\ c \notin grants'
            /\ "outcome" \notin facts'[c]
        BY <1>3, <1>4, <2>1, <3>1, <3>2 DEF FactOK, Ends
      <4>3. QED
        BY <4>1, <4>2 DEF FactOK, Busy
    <3> DEFINE added == {FailureCode(c)}
    <3>4. added \in SUBSET Ends /\ facts' = [facts EXCEPT ![c] = @ \cup added]
      BY <3>1
    <3>5. failures' \in 0..MaxIoFailures /\ failures <= failures'
      BY <1>1, <3>1
    <3> HIDE DEF added
    <3>6. QED
      BY <2>1, <3>3, <3>4, <3>5, CallEnds
  <2>3. CASE UNCHANGED facts /\ (StoreFails(1) \/ ((Ended(c) \/ facts[c] = {}) /\ UNCHANGED failures))
    <3>1. failures' \in 0..MaxIoFailures /\ failures <= failures' /\ (failures' = 0 => UNCHANGED failures)
      BY <1>1, <2>3, CallsAssumption DEF StoreFails
    <3>2. failures' = 0 => Ended(c) \/ facts[c] = {}
      BY <1>1, <2>3, CallsAssumption DEF StoreFails
    <3>3. FactOK(c)'
      BY <1>3, <1>4, <2>1, <2>3, <3>2 DEF FactOK, Ended, Busy, Ends
    <3> DEFINE added == {}
    <3>4. added \in SUBSET Ends /\ facts' = [facts EXCEPT ![c] = @ \cup added]
      BY <1>1, <2>3
    <3> HIDE DEF added
    <3>5. QED
      BY <1>1, <2>1, <3>1, <3>3, <3>4, CallEnds
  <2>4. QED
    BY <1>8, <2>2, <2>3 DEF Denied
<1>9. QED
  BY <1>5, <1>7, <1>8

LEMMA CallBegins ==
  ASSUME CallsOK, FactsOK, UNCHANGED targetVars, NEW c \in Calls, NEW r \in Runs, Begin(c, r)
  PROVE  CallsOK' /\ FactsOK'
<1>1. /\ look \in CallTypes /\ facts \in [Calls -> SUBSET ({"mint", "consume"} \cup Ends)]
      /\ failures \in 0..MaxIoFailures /\ failures \in Nat /\ look[c].at = "idle" /\ UNCHANGED scope
      /\ row[r] \in StillGoing /\ scope[look[c].turn] = "open" /\ facts[c] = {} /\ c \notin grants
  BY CallsAssumption DEF CallsOK, AgentTypes, CallTypes, Begin, FactsOK, FactOK, CurrentHealthyTarget, StillGoing
<1>2. PICK st \in {"denied", "looking"} :
        /\ look' = [look EXCEPT ![c].run = r, ![c].at = st]
        /\ grants' = IF st = "looking" THEN grants \cup {c} ELSE grants
        /\ failures' \in 0..MaxIoFailures /\ failures <= failures' /\ (st = "denied" => failures # failures')
        /\ \E kept \in {{}, {"mint"}, {"mint", "consume"}} :
             /\ facts' = [facts EXCEPT ![c] = kept]
             /\ st = "looking" <=> kept = {"mint", "consume"}
  <2>1. CASE StoreFails(1) /\ UNCHANGED grants /\ look' = [look EXCEPT ![c].run = r, ![c].at = "denied"]
             /\ \E kept \in {{}, {"mint"}} : facts' = [facts EXCEPT ![c] = kept]
    <3>1. PICK kept \in {{}, {"mint"}} : facts' = [facts EXCEPT ![c] = kept]
      BY <2>1
    <3>2. kept # {"mint", "consume"} /\ kept \in {{}, {"mint"}, {"mint", "consume"}}
      OBVIOUS
    <3>3. failures' \in 0..MaxIoFailures /\ failures <= failures' /\ failures # failures'
      BY <1>1, <2>1, CallsAssumption DEF StoreFails
    <3>4. QED
      BY <2>1, <3>1, <3>2, <3>3
  <2>2. CASE UNCHANGED failures /\ look' = [look EXCEPT ![c].run = r, ![c].at = "looking"]
             /\ grants' = grants \cup {c} /\ facts' = [facts EXCEPT ![c] = {"mint", "consume"}]
    BY <1>1, <2>2
  <2>3. QED
    BY <2>1, <2>2 DEF Begin
<1>3. PICK kept \in {{}, {"mint"}, {"mint", "consume"}} :
        facts' = [facts EXCEPT ![c] = kept] /\ (st = "looking" <=> kept = {"mint", "consume"})
  BY <1>2
<1>4. look' \in CallTypes
  BY <1>1, <1>2, CallTyped, "looking" \in Busy DEF Busy
<1>5. /\ \A d \in Calls : d # c => look'[d] = look[d]
      /\ look'[c].at = st /\ look'[c].run = r /\ look'[c].turn = look[c].turn
  BY <1>1, <1>2 DEF CallTypes
<1>6. facts'[c] = kept /\ \A d \in Calls : d # c => facts'[d] = facts[d]
  BY <1>1, <1>3
<1>7. AgentTypes'
  <2>1. facts' \in [Calls -> SUBSET ({"mint", "consume"} \cup Ends)]
    BY <1>1, <1>3
  <2>2. grants' \subseteq {d \in Calls : look'[d].at \in Busy}
    BY <1>1, <1>2, <1>5 DEF CallsOK, AgentTypes, Busy
  <2>3. QED
    BY <1>1, <1>2, <1>4, <2>1, <2>2 DEF CallsOK, AgentTypes, CallTypes
<1>8. \A d \in Calls : CallOK(d)'
  BY <1>1, <1>2, <1>5 DEF CallsOK, CallOK, targetVars, Seen, Busy
<1>9. FactsOK'
  <2> SUFFICES ASSUME NEW d \in Calls PROVE FactOK(d)'
    BY DEF FactsOK
  <2>1. CASE d # c
    <3>1. FactOK(d) /\ (d \in grants <=> d \in grants') /\ (failures' = 0 => failures = 0)
      BY <1>1, <1>2, <2>1 DEF FactsOK
    <3>2. QED  BY <1>5, <1>6, <2>1, <3>1 DEF FactOK, Ended
  <2>2. CASE d = c
    BY <1>1, <1>2, <1>3, <1>5, <1>6, <2>2 DEF FactOK, Ended, Busy, Ends
  <2>3. QED  BY <2>1, <2>2
<1>10. QED
  BY <1>7, <1>8, <1>9 DEF CallsOK, TargetTypes, targetVars

-----------------------------------------------------------------------------
(* Revocation. *)

\* A revocation leaves the grants that still stand.
LEMMA GrantsRevoked ==
  ASSUME CallsOK, FactsOK, NEW cs \in SUBSET Calls, RevokeMatching(cs), TargetTypes',
         scope' \in [Speakers -> {"open", "broken", "released"}],
         \A c \in grants \ cs : row'[look[c].run] \in StillGoing /\ scope'[look[c].turn] # "released"
  PROVE  CallsOK' /\ FactsOK'
<1>1. /\ look \in CallTypes /\ facts \in [Calls -> SUBSET ({"mint", "consume"} \cup Ends)]
      /\ failures \in 0..MaxIoFailures /\ failures \in Nat /\ grants \subseteq Calls
  BY CallsAssumption DEF CallsOK, AgentTypes, CallTypes
<1>2. PICK lost \in SUBSET (cs \cap grants) :
        /\ StoreFails(Cardinality(lost))
        /\ facts' = [c \in Calls |-> facts[c] \cup
                       (IF c \in (cs \cap grants) \ lost THEN {"revoked"} ELSE {})]
  BY DEF RevokeMatching
<1>3. Cardinality(lost) \in Nat /\ (Cardinality(lost) = 0 => lost = {})
  BY <1>1, CallsAssumption, FS_Subset, FS_EmptySet, FS_CardinalityType
<1>4. /\ failures' \in 0..MaxIoFailures
      /\ failures' = 0 => failures = 0 /\ lost = {}
  BY <1>1, <1>2, <1>3, CallsAssumption DEF StoreFails
<1>5. grants' = grants \ cs
  BY DEF RevokeMatching
<1>6. look' \in CallTypes
  <2> DEFINE dies(c) == look[c].aborted \/ c \in cs \cap grants
  <2>1. look' = [c \in Calls |-> [look[c] EXCEPT !.aborted = dies(c)]]
    BY DEF RevokeMatching
  <2>2. \A c \in Calls : dies(c) \in BOOLEAN
    OBVIOUS
  <2> HIDE DEF dies
  <2>3. ASSUME NEW c \in Calls
        PROVE  [look[c] EXCEPT !.aborted = dies(c)] \in
                 [at : Busy \cup {"idle", "delivered", "denied"}, kind : {"observe", "interact"},
                  turn : Speakers, run : Runs \cup {NoRun}, by : Runs \cup {Nobody, Stranger},
                  aborted : BOOLEAN]
    <3> DEFINE b == dies(c)
    <3>1. b \in BOOLEAN
      BY <2>2
    <3> HIDE DEF b
    <3>2. [look[c] EXCEPT !.aborted = b] \in
                 [at : Busy \cup {"idle", "delivered", "denied"}, kind : {"observe", "interact"},
                  turn : Speakers, run : Runs \cup {NoRun}, by : Runs \cup {Nobody, Stranger},
                  aborted : BOOLEAN]
      BY <1>1, <3>1 DEF CallTypes
    <3>3. QED  BY <3>2 DEF b
  <2>4. QED
    BY <2>1, <2>3, Zenon DEF CallTypes
<1>7. \A c \in Calls : /\ look'[c].at = look[c].at /\ look'[c].run = look[c].run
                       /\ look'[c].by = look[c].by /\ look'[c].turn = look[c].turn
  BY <1>1 DEF RevokeMatching, CallTypes
<1>8. AgentTypes'
  <2>1. facts' \in [Calls -> SUBSET ({"mint", "consume"} \cup Ends)]
    BY <1>1, <1>2 DEF Ends
  <2>2. grants' \subseteq {c \in Calls : look'[c].at \in Busy}
    BY <1>5, <1>7 DEF CallsOK, AgentTypes
  <2>3. QED
    BY <1>4, <1>6, <2>1, <2>2 DEF AgentTypes, CallTypes
<1>9. \A c \in Calls : CallOK(c)'
  BY <1>1, <1>5, <1>7 DEF CallsOK, CallOK
<1>10. FactsOK'
  <2> SUFFICES ASSUME NEW c \in Calls PROVE FactOK(c)'
    BY DEF FactsOK
  <2>1. FactOK(c) /\ (c \in grants => look[c].at \in Busy)
    BY DEF FactsOK, CallsOK, CallOK
  <2>2. CASE c \in (cs \cap grants) \ lost
    <3>1. facts'[c] = facts[c] \cup {"revoked"} /\ facts[c] \cap Ends = {} /\ facts[c] # {}
      BY <1>2, <2>1, <2>2 DEF FactOK
    <3>2. QED
      BY <1>5, <1>7, <2>1, <2>2, <3>1 DEF FactOK, Ended, Ends, Busy
  <2>3. CASE c \notin (cs \cap grants) \ lost
    <3>1. facts'[c] = facts[c]
      BY <1>2, <2>3
    <3>2. failures' = 0 => failures = 0 /\ (c \in grants <=> c \in grants')
      BY <1>4, <1>5, <2>3
    <3>3. QED
      BY <1>5, <1>7, <2>1, <3>1, <3>2 DEF FactOK, Ended
  <2>4. QED  BY <2>2, <2>3
<1>11. QED
  BY <1>8, <1>9, <1>10 DEF CallsOK

LEMMA TurnsLoseScope ==
  ASSUME CallsOK, FactsOK, UNCHANGED targetVars, NEW t \in Speakers, ReleaseTurn(t) \/ ScopeBreaks(t)
  PROVE  CallsOK' /\ FactsOK'
<1>1. TargetTypes' /\ UNCHANGED row /\ scope \in [Speakers -> {"open", "broken", "released"}]
  BY DEF CallsOK, TargetTypes, AgentTypes, targetVars
<1>2. \A c \in grants : c \in Calls /\ row[look[c].run] \in StillGoing /\ scope[look[c].turn] # "released"
  BY DEF CallsOK, AgentTypes, CallOK
<1>3. CASE ReleaseTurn(t)
  <2> DEFINE cs == {c \in Calls : look[c].turn = t}
  <2>1. RevokeMatching(cs) /\ scope' = [scope EXCEPT ![t] = "released"]
    BY <1>3 DEF ReleaseTurn
  <2>2. scope' \in [Speakers -> {"open", "broken", "released"}]
    BY <1>1, <2>1
  <2>3. \A c \in grants \ cs : row'[look[c].run] \in StillGoing /\ scope'[look[c].turn] # "released"
    BY <1>1, <1>2, <2>1
  <2>4. cs \in SUBSET Calls
    OBVIOUS
  <2> HIDE DEF cs
  <2>5. QED
    BY <1>1, <2>1, <2>2, <2>3, <2>4, GrantsRevoked
<1>4. CASE ScopeBreaks(t)
  BY <1>1, <1>4 DEF ScopeBreaks, CallsOK, AgentTypes, CallOK, FactsOK, FactOK, Ended, targetVars
<1>5. QED
  BY <1>3, <1>4

LEMMA AgentSteps ==
  ASSUME CallsOK, FactsOK, AgentStep, UNCHANGED targetVars
  PROVE  CallsOK' /\ FactsOK'
BY CallBegins, CallGoesOn, CallFinishes, TurnsLoseScope DEF AgentStep

\* What happens to the Runs without a revocation keeps the Run of a grant going.
LEMMA CallsStay ==
  ASSUME CallsOK, FactsOK, UNCHANGED agentVars,
         Machine \/ (\E r \in Runs : RecordHealth(r) \/ Lapse(r)) \/ UNCHANGED targetVars
  PROVE  CallsOK' /\ FactsOK'
<1>1. TargetTypes' /\ \A r \in Runs : row[r] \in StillGoing => row'[r] \in StillGoing
  BY DEF CallsOK, TargetTypes, Rows, Machine, ProcessEnds, StrangerListens, StrangerLeaves,
         RecordHealth, Lapse, Goes, StillGoing, targetVars
<1>2. AgentTypes' /\ FactsOK'
  BY DEF CallsOK, AgentTypes, FactsOK, FactOK, Ended, agentVars
<1>3. \A c \in Calls : CallOK(c)'
  BY <1>1 DEF CallsOK, CallOK, agentVars
<1>4. QED
  BY <1>1, <1>2, <1>3 DEF CallsOK

LEMMA CallsRevoked ==
  ASSUME CallsOK, FactsOK, NEW r \in Runs, CancelRow(r) \/ FinalizeRow(r) \/ TrashRow(r), RevokeVisualRun(r)
  PROVE  CallsOK' /\ FactsOK'
<1> DEFINE cs == {c \in Calls : look[c].run = r}
<1>1. RevokeMatching(cs) /\ UNCHANGED scope
  BY DEF RevokeVisualRun
<1>2. TargetTypes' /\ \A x \in Runs : x # r => row'[x] = row[x]
  BY DEF CallsOK, TargetTypes, Rows, CancelRow, FinalizeRow, TrashRow, Goes
<1>3. \A c \in grants \ cs : row'[look[c].run] \in StillGoing /\ scope'[look[c].turn] # "released"
  BY <1>1, <1>2 DEF CallsOK, AgentTypes, CallOK
<1>4. cs \in SUBSET Calls /\ scope' \in [Speakers -> {"open", "broken", "released"}]
  BY <1>1 DEF CallsOK, AgentTypes
<1> HIDE DEF cs
<1>5. QED
  BY <1>1, <1>2, <1>3, <1>4, GrantsRevoked

LEMMA CallsCleared ==
  ASSUME CallsOK, FactsOK, RevokeMatching(Calls), UNCHANGED <<scope, targetVars>>
  PROVE  CallsOK' /\ FactsOK'
BY GrantsRevoked DEF CallsOK, TargetTypes, AgentTypes, targetVars

LEMMA CallsDeleted ==
  ASSUME CallsOK, PermanentDelete
  PROVE  CallsOK' /\ FactsOK'
BY DEF PermanentDelete, DeleteRows, FactsDeleted, CallsOK, TargetTypes, Rows, AgentTypes, CallOK,
       FactsOK, FactOK

LEMMA CallsRestart ==
  ASSUME CallsOK, FactsOK, RecoverRows, GapsReconciled, CallsForgotten
  PROVE  CallsOK' /\ FactsOK'
<1>1. TargetTypes'
  BY DEF CallsOK, TargetTypes, Rows, RecoverRows
<1>2. look \in CallTypes
  BY DEF CallsOK, AgentTypes, CallTypes
<1>3. \A c \in Calls : /\ look'[c].at = (IF look[c].at \in Busy \cup {"idle"} THEN "denied" ELSE look[c].at)
                       /\ look'[c].run = look[c].run /\ look'[c].by = look[c].by
  BY <1>2 DEF CallsForgotten, CallTypes
<1>4. look' \in CallTypes
  <2> DEFINE lost == {c \in Calls : look[c].at \in Busy \cup {"idle"}}
  <2>1. look' = [c \in Calls |-> IF c \in lost THEN [look[c] EXCEPT !.at = "denied"] ELSE look[c]]
    BY DEF CallsForgotten
  <2> HIDE DEF lost
  <2>2. QED
    BY <1>2, <2>1 DEF CallTypes
<1>5. AgentTypes'
  <2>1. facts' \in [Calls -> SUBSET ({"mint", "consume"} \cup Ends)]
    BY DEF CallsOK, AgentTypes, GapsReconciled, Ends
  <2>2. QED
    BY <1>4, <2>1 DEF CallsOK, AgentTypes, CallTypes, CallsForgotten
<1>6. \A c \in Calls : CallOK(c)'
  BY <1>3 DEF CallsOK, CallOK, CallsForgotten, Seen, Busy
<1>7. FactsOK'
  <2> SUFFICES ASSUME NEW c \in Calls PROVE FactOK(c)'
    BY DEF FactsOK
  <2>1. FactOK(c) /\ c \notin grants' /\ look'[c].at \notin Busy \cup {"idle"} /\ UNCHANGED failures
    BY <1>3 DEF FactsOK, CallsForgotten, Busy
  <2>2. look'[c].at = "delivered" <=> look[c].at = "delivered"
    BY <1>3 DEF Busy
  <2>3. CASE "mint" \in facts[c] /\ ~Ended(c)
    <3>1. facts'[c] = facts[c] \cup {"crash_gap"} /\ facts[c] \cap Ends = {}
      BY <2>3 DEF GapsReconciled, Ended
    <3>2. look'[c].at # "delivered" /\ "outcome" \notin facts'[c]
      BY <2>1, <2>2, <2>3, <3>1 DEF FactOK, Ends
    <3>3. Ended(c)' /\ \A a, b \in facts'[c] \cap Ends : a = b
      BY <3>1 DEF Ended, Ends
    <3>4. QED
      BY <2>1, <2>3, <3>1, <3>2, <3>3 DEF FactOK
  <2>4. CASE ~("mint" \in facts[c] /\ ~Ended(c))
    <3>1. facts'[c] = facts[c]
      BY <2>4 DEF GapsReconciled
    <3>2. QED
      BY <2>1, <2>2, <2>4, <3>1 DEF FactOK, Ended, Busy
  <2>5. QED  BY <2>3, <2>4
<1>8. QED
  BY <1>1, <1>5, <1>6, <1>7 DEF CallsOK
-----------------------------------------------------------------------------
(* The invariant. *)

LEMMA VisualInitial == VisualInit => IInv
<1> SUFFICES ASSUME VisualInit PROVE IInv
  OBVIOUS
<1> USE ListenersDiffer, SessionsAssumption, CallsAssumption DEF VisualInit
<1>1. TargetTypes
  BY DEF TargetInit, TargetTypes, Rows
<1>2. FrameTypes
  BY DEF FrameInit, FrameTypes, Unused, Idle, Inspecting
<1>3. FramesOK
  BY <1>1, <1>2 DEF FramesOK, FrameInit, FramesAgree, Known, RequestOK, SocketOK, Unused, Idle, Registered, Pending
<1>4. AgentTypes
  <2> DEFINE fresh(k, t) == [at |-> "idle", kind |-> k, turn |-> t, run |-> NoRun,
                             by |-> Nobody, aborted |-> FALSE]
  <2>1. \A c \in Calls : \E k \in {"observe", "interact"}, t \in Speakers : look[c] = fresh(k, t)
    BY DEF AgentInit
  <2>2. \A k \in {"observe", "interact"}, t \in Speakers :
          fresh(k, t) \in [at : Busy \cup {"idle", "delivered", "denied"}, kind : {"observe", "interact"},
                          turn : Speakers, run : Runs \cup {NoRun}, by : Runs \cup {Nobody, Stranger},
                          aborted : BOOLEAN]
    OBVIOUS
  <2> HIDE DEF fresh
  <2>3. DOMAIN look = Calls /\ look = [c \in Calls |-> look[c]]
    BY DEF AgentInit
  <2>4. look \in CallTypes
    BY <2>1, <2>2, <2>3 DEF CallTypes
  <2>5. QED
    BY <2>4 DEF AgentInit, AgentTypes, CallTypes
<1>5. CallsOK /\ FactsOK
  BY <1>1, <1>4 DEF CallsOK, AgentInit, CallOK, FactsOK, FactOK, Seen, Busy
<1>6. QED
  BY <1>3, <1>5 DEF IInv

LEMMA VisualPreserved == IInv /\ [VisualNext]_visualVars => IInv'
<1> SUFFICES ASSUME FramesOK, CallsOK, FactsOK, [VisualNext]_visualVars
             PROVE  FramesOK' /\ CallsOK' /\ FactsOK'
  BY DEF IInv
<1>1. CASE FrameStep /\ UNCHANGED <<targetVars, agentVars>>
  BY <1>1, FrameSteps, CallsStay
<1>2. CASE AgentStep /\ UNCHANGED <<targetVars, frameVars>>
  <2>1. FramesOK'
    BY <1>2 DEF FramesOK, FramesAgree, Known, RouteOK, RequestOK, SocketOK, RunOf, Registered, Inspecting,
                TargetTypes, FrameTypes, targetVars, frameVars
  <2>2. QED  BY <1>2, <2>1, AgentSteps
<1>3. CASE (Machine \/ \E r \in Runs : RecordHealth(r) \/ Lapse(r)) /\ UNCHANGED <<frameVars, agentVars>>
  BY <1>3, FramesStay, CallsStay
<1>4. ASSUME NEW r \in Runs, RequestCancellation(r) \/ RunEnds(r) \/ TrashRun(r)
      PROVE  FramesOK' /\ CallsOK' /\ FactsOK'
  BY <1>4, RunStops, CallsRevoked DEF RequestCancellation, RunEnds, TrashRun, RevokeVisualAccess
<1>5. CASE PermanentDelete
  BY <1>5, FramesDeleted, CallsDeleted
<1>6. CASE BootstrapApp
  BY <1>6, FramesCleared, CallsCleared DEF BootstrapApp
<1>7. CASE Restart
  BY <1>7, FramesRestart, CallsRestart DEF Restart
<1>8. CASE UNCHANGED visualVars
  <2>1. FramesOK'
    BY <1>8 DEF FramesOK, FramesAgree, Known, RouteOK, RequestOK, SocketOK, RunOf, Registered, Inspecting,
                TargetTypes, FrameTypes, visualVars, targetVars, frameVars
  <2>2. QED  BY <1>8, <2>1, CallsStay DEF visualVars
<1>9. QED
  BY <1>1, <1>2, <1>3, <1>4, <1>5, <1>6, <1>7, <1>8 DEF VisualNext

LEMMA VisualInvariant == VisualSpec => []IInv
<1>1. QED
  BY VisualInitial, VisualPreserved, PTL DEF VisualSpec

\* Whatever process takes the port, and whatever the Runs that got it before: what
\* reaches the browser or the Agent comes from the process of the Run it was granted for.
THEOREM SeenIsTheTargetTheorem == VisualSpec => []SeenIsTheTarget
<1>1. IInv => SeenIsTheTarget
  BY DEF IInv, FramesOK, CallsOK, RequestOK, SocketOK, CallOK, Seen, SeenIsTheTarget
<1>2. QED
  BY <1>1, VisualInvariant, PTL

\* No route, grant or open WebSocket is left of a Run that ended, of an earlier app
\* session or of a released turn, for any number of frames, calls and sockets.
THEOREM NothingOutlivesItsRunTheorem == VisualSpec => []NothingOutlivesItsRun
<1>1. IInv => NothingOutlivesItsRun
  BY DEF IInv, FramesOK, CallsOK, AgentTypes, FrameTypes, FramesAgree, RouteOK, SocketOK, CallOK, VisualTypes,
         NothingOutlivesItsRun
<1>2. QED
  BY <1>1, VisualInvariant, PTL

LEMMA AtMostOne ==
  ASSUME NEW S, \A a, b \in S : a = b
  PROVE  Cardinality(S) <= 1
<1>1. CASE S = {}
  BY <1>1, FS_EmptySet
<1>2. CASE S # {}
  <2>1. PICK x : S = {x}
    BY <1>2
  <2>2. QED  BY <2>1, FS_Singleton
<1>3. QED  BY <1>1, <1>2

LEMMA NeverAPlainFailure ==
  ASSUME IInv, VisualNext
  PROVE  NoPlainFailure
<1>1. facts \in [Calls -> SUBSET ({"mint", "consume"} \cup Ends)]
  BY DEF IInv, CallsOK, AgentTypes
<1> SUFFICES ASSUME NEW c \in Calls, look[c].at = "acting", "failed" \notin facts[c] PROVE "failed" \notin facts'[c]
  BY DEF NoPlainFailure, MayHaveActed
<1>2. ASSUME NEW cs, RevokeMatching(cs)
      PROVE  "failed" \notin facts'[c]
  BY <1>1, <1>2 DEF RevokeMatching
<1>3. FailureCode(c) = "unknown"
  BY DEF FailureCode, MayHaveActed
<1>4. ASSUME NEW d \in Calls, NEW r \in Runs, Begin(d, r)
      PROVE  "failed" \notin facts'[c]
  BY <1>1, <1>4 DEF Begin
<1>5. ASSUME NEW d \in Calls, Completes(d) \/ OutcomeRefused(d) \/ Denied(d)
      PROVE  "failed" \notin facts'[c]
  <2>1. \/ facts' = [facts EXCEPT ![d] = @ \cup {"outcome"}]
        \/ facts' = [facts EXCEPT ![d] = @ \cup {FailureCode(d)}]
        \/ facts' = facts
    BY <1>5 DEF Completes, OutcomeRefused, Denied, Records
  <2>2. QED  BY <1>1, <1>3, <2>1
<1>6. CASE AgentStep
  <2>1. ASSUME NEW d \in Calls,
               ListenerSeen(d) \/ Connect(d) \/ PeerSeen(d) \/ PageShown(d) \/ Act(d) \/ TimerAborts(d)
        PROVE  UNCHANGED facts
    BY <2>1 DEF ListenerSeen, Connect, PeerSeen, PageShown, Act, TimerAborts
  <2>2. ASSUME NEW t \in Speakers, ReleaseTurn(t) \/ ScopeBreaks(t)
        PROVE  "failed" \notin facts'[c]
    BY <1>2, <2>2 DEF ReleaseTurn, ScopeBreaks
  <2>3. QED
    BY <1>4, <1>5, <1>6, <2>1, <2>2 DEF AgentStep
<1>7. CASE UNCHANGED agentVars
  BY <1>7 DEF agentVars
<1>8. ASSUME NEW r \in Runs, RequestCancellation(r) \/ RunEnds(r) \/ TrashRun(r)
      PROVE  "failed" \notin facts'[c]
  BY <1>2, <1>8 DEF RequestCancellation, RunEnds, TrashRun, RevokeVisualAccess, RevokeVisualRun
<1>9. CASE PermanentDelete
  BY <1>9 DEF PermanentDelete, FactsDeleted
<1>10. CASE BootstrapApp
  BY <1>2, <1>10 DEF BootstrapApp
<1>11. CASE Restart
  BY <1>1, <1>11 DEF Restart, GapsReconciled
<1>12. QED
  BY <1>6, <1>7, <1>8, <1>9, <1>10, <1>11 DEF VisualNext

\* The facts kept of a call tell what it did, whatever the Store failed to take, whenever
\* the backend died, and however many calls there were.
THEOREM AuditIsTrueTheorem == VisualSpec => AuditIsTrue
<1>1. IInv => FactsTellTheCall
  BY AtMostOne DEF IInv, FactsOK, FactOK, Busy, FactsTellTheCall
<1>2. IInv /\ [VisualNext]_visualVars => [NoPlainFailure]_visualVars
  BY NeverAPlainFailure
<1>3. QED
  BY <1>1, <1>2, VisualInvariant, PTL DEF VisualSpec, AuditIsTrue
=============================================================================
