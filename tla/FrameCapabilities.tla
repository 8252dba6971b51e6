-------------------------- MODULE FrameCapabilities --------------------------
(***************************************************************************)
(* browser-frame-capability.ts with the target resolver of server.ts and   *)
(* the relay of browser-websocket-bridge.ts: frame sessions that the app   *)
(* session of the one browser issues, redeems and uses, to proxy requests  *)
(* and WebSockets to the process of a visual Run.                          *)
(*                                                                         *)
(* Every use awaits an inspection: the Store has the target, the listener  *)
(* is the target's process, the Store still has it.  The code around the   *)
(* await must look again at all that can have changed meanwhile.           *)
(***************************************************************************)
EXTENDS VisualTargets, Naturals

CONSTANTS Frames, Requests, Sockets,
          MaxSessions    \* bound: app sessions

ASSUME UsesDiffer ==
  Frames \cap Requests = {} /\ Frames \cap Sockets = {} /\ Requests \cap Sockets = {}
ASSUME SessionsAssumption == MaxSessions \in Nat \ {0}

VARIABLES
  app,   \* #generation of the app session
  frame,     \* frame capabilities, with the Run and the session they are for,
  routed,    \* those in #routes,
  expired,   \* those whose nonce or broker session has expired,
  dropped,   \* those whose route a failed inspection took away (history)
  request,   \* proxied requests, and who answered the child's side of them
  socket,    \* WebSockets, and who accepted the child's side of them
  seen       \* inspections under way that have seen the target's process listen

frameVars == <<app, frame, routed, expired, dropped, request, socket, seen>>

Unused == [at |-> "unused", run |-> NoRun, gen |-> 0]
Idle(f) == [at |-> "idle", frame |-> f, by |-> Nobody]

FrameInit ==
  /\ app = 1
  /\ frame = [f \in Frames |-> Unused]
  /\ routed = {} /\ expired = {} /\ dropped = {} /\ seen = {}
  /\ request \in [Requests -> {Idle(f) : f \in Frames}]
  /\ socket \in [Sockets -> {Idle(f) : f \in Frames}]

RunOf(f) == frame[f].run
ForRun(r) == {f \in Frames : RunOf(f) = r}

\* #live: the capability's app session is the current one, its target's time not up.
Live(f) == frame[f].gen = app /\ row[RunOf(f)] # "lapsed" /\ f \notin expired

\* A capability whose cookie the browser has.
FrameUsable(f) == frame[f].at = "open" /\ f \in routed /\ Live(f)

FrameGoes(f, s) == frame' = [frame EXCEPT ![f].at = s]
RequestGoes(q, s) == request' = [request EXCEPT ![q].at = s]
SocketGoes(s, to) == socket' = [socket EXCEPT ![s].at = to]

Pending == {"admitting", "dialing", "peering", "checking"}
Registered(s) == socket[s].at \in Pending \cup {"open"}
-----------------------------------------------------------------------------
(* Inspections: the resolver carries out one at a time. *)

Inspecting ==
  {f \in Frames : frame[f].at \in {"resolving", "redeeming"}}
  \cup {q \in Requests : request[q].at \in {"before", "after"}}
  \cup {s \in Sockets : socket[s].at \in {"admitting", "peering", "checking"}}

TargetOf(i) == IF i \in Frames THEN RunOf(i)
               ELSE IF i \in Requests THEN RunOf(request[i].frame)
               ELSE RunOf(socket[i].frame)

\* A connected peer is the target's process if that process accepted the connection.
PeerIs(i, r) == i \in Sockets /\ socket[i].at = "peering" => socket[i].by = r

Look(i) ==
  /\ i \in Inspecting /\ seen = {}
  /\ CurrentHealthyTarget(TargetOf(i)) /\ ListenerIs(TargetOf(i)) /\ PeerIs(i, TargetOf(i))
  /\ seen' = {i}
  /\ UNCHANGED <<app, frame, routed, expired, dropped, request, socket>>

Passed(i) ==
  /\ i \in Inspecting \cap seen /\ CurrentHealthyTarget(TargetOf(i))
  /\ seen' = {}

\* Not the current target, not its process, too many inspections, or out of time.
Failed(i) == i \in Inspecting /\ seen' = seen \ {i}
-----------------------------------------------------------------------------
(* Revocation. *)

\* A revocation that leaves the sockets to their own timers.
RoutesRevoked(fs) == routed' = routed \ fs /\ UNCHANGED <<socket, seen>>

\* #revokeCapability: the sockets first, then route and nonce.
Revoked(fs) ==
  /\ routed' = routed \ fs
  /\ socket' = [s \in Sockets |->
       IF Registered(s) /\ socket[s].frame \in fs \cap routed
       THEN [socket[s] EXCEPT !.at = "closed"] ELSE socket[s]]
  /\ seen' = seen \ {s \in Sockets : socket[s].frame \in fs \cap routed}

RevokeRun(r) ==
  /\ Revoked(ForRun(r))
  /\ UNCHANGED <<app, frame, expired, dropped, request>>

\* clear, and a new app session.
Bootstrap ==
  /\ app < MaxSessions /\ app' = app + 1
  /\ Revoked(Frames)
  /\ UNCHANGED <<frame, expired, dropped, request>>

\* The next process has an app session of its own and nothing else.
FramesForgotten ==
  /\ app < MaxSessions /\ app' = app + 1
  /\ routed' = {} /\ seen' = {}
  /\ frame' = [f \in Frames |->
       IF frame[f].at = "unused" THEN frame[f] ELSE [frame[f] EXCEPT !.at = "closed"]]
  /\ request' = [q \in Requests |->
       IF request[q].at \in {"before", "asking", "after"}
       THEN [request[q] EXCEPT !.at = "denied"] ELSE request[q]]
  /\ socket' = [s \in Sockets |->
       IF Registered(s) THEN [socket[s] EXCEPT !.at = "closed"] ELSE socket[s]]
  /\ UNCHANGED <<expired, dropped>>

\* hasActiveScope
FramesActive ==
  \E f \in routed :
    \/ frame[f].at = "redeeming"
    \/ f \notin expired
    \/ \E q \in Requests : request[q].frame = f /\ request[q].at \in {"before", "asking", "after"}
    \/ \E s \in Sockets : socket[s].frame = f /\ Registered(s)

Expire(f) ==
  /\ f \in routed \ expired
  /\ expired' = expired \cup {f}
  /\ UNCHANGED <<app, frame, routed, dropped, request, socket, seen>>
-----------------------------------------------------------------------------
(* Frame sessions. *)

IssueFrameSession(f, r) ==
  /\ frame[f].at = "unused" /\ CurrentHealthyTarget(r)
  /\ frame' = [frame EXCEPT ![f] = [at |-> "resolving", run |-> r, gen |-> app]]
  /\ UNCHANGED <<app, routed, expired, dropped, request, socket, seen>>

Issued(f) ==
  /\ frame[f].at = "resolving" /\ Passed(f) /\ frame[f].gen = app
  /\ FrameGoes(f, "issued")
  /\ routed' = routed \cup {f}
  /\ UNCHANGED <<app, expired, dropped, request, socket>>

NotIssued(f) ==
  /\ frame[f].at = "resolving" /\ Failed(f)
  /\ FrameGoes(f, "closed")
  /\ UNCHANGED <<app, routed, expired, dropped, request, socket>>

\* The nonce is used up by the first attempt to redeem it.
Redeem(f) ==
  /\ frame[f].at = "issued" /\ f \in routed
  /\ FrameGoes(f, "redeeming")
  /\ UNCHANGED <<app, routed, expired, dropped, request, socket, seen>>

Redeemed(f) ==
  /\ frame[f].at = "redeeming" /\ Passed(f) /\ f \in routed /\ Live(f)
  /\ FrameGoes(f, "open")
  /\ UNCHANGED <<app, routed, expired, dropped, request, socket>>

NotRedeemed(f) ==
  /\ frame[f].at = "redeeming" /\ Failed(f)
  /\ FrameGoes(f, "closed")
  /\ routed' = routed \ {f}
  /\ UNCHANGED <<app, expired, dropped, request, socket>>
-----------------------------------------------------------------------------
(* Proxied requests. *)

Proxy(q) ==
  /\ request[q].at = "idle" /\ FrameUsable(request[q].frame)
  /\ RequestGoes(q, "before")
  /\ UNCHANGED <<app, frame, routed, expired, dropped, socket, seen>>

AskChild(q) ==
  /\ request[q].at = "before" /\ Passed(q) /\ FrameUsable(request[q].frame)
  /\ RequestGoes(q, "asking")
  /\ UNCHANGED <<app, frame, routed, expired, dropped, socket>>

\* Whoever listens at the port answers.
ChildAnswers(q) ==
  /\ request[q].at = "asking" /\ listener # Nobody
  /\ request' = [request EXCEPT ![q].at = "after", ![q].by = listener]
  /\ UNCHANGED <<app, frame, routed, expired, dropped, socket, seen>>

DeliverUnchecked(q) ==
  /\ request[q].at = "after" /\ FrameUsable(request[q].frame)
  /\ RequestGoes(q, "delivered") /\ seen' = seen \ {q}
  /\ UNCHANGED <<app, frame, routed, expired, dropped, socket>>

Deliver(q) ==
  /\ request[q].at = "after" /\ Passed(q) /\ FrameUsable(request[q].frame)
  /\ RequestGoes(q, "delivered")
  /\ UNCHANGED <<app, frame, routed, expired, dropped, socket>>

\* A failed inspection takes the route away, and leaves the frame's sockets alone.
InspectionFails(q) ==
  /\ request[q].at \in {"before", "after"} /\ Failed(q)
  /\ RequestGoes(q, "denied")
  /\ routed' = routed \ {request[q].frame}
  /\ dropped' = dropped \cup ({request[q].frame} \cap routed)
  /\ UNCHANGED <<app, frame, expired, socket>>

\* The route was revoked meanwhile, or the exchange with the child failed.
ProxyDenied(q) ==
  /\ \/ request[q].at \in {"before", "after"} /\ Passed(q) /\ ~FrameUsable(request[q].frame)
     \/ request[q].at = "asking" /\ UNCHANGED seen
  /\ RequestGoes(q, "denied")
  /\ UNCHANGED <<app, frame, routed, expired, dropped, socket>>
-----------------------------------------------------------------------------
(* WebSockets. *)

AdmitWebSocket(s) ==
  /\ socket[s].at = "idle" /\ FrameUsable(socket[s].frame)
  /\ SocketGoes(s, "admitting")
  /\ UNCHANGED <<app, frame, routed, expired, dropped, request, seen>>

\* recheck passes, and the bridge dials the child.
Admitted(s) ==
  /\ socket[s].at = "admitting" /\ Passed(s) /\ FrameUsable(socket[s].frame)
  /\ SocketGoes(s, "dialing")
  /\ UNCHANGED <<app, frame, routed, expired, dropped, request>>

ConnectChild(s) ==
  /\ socket[s].at = "dialing" /\ listener # Nobody /\ FrameUsable(socket[s].frame)
  /\ socket' = [socket EXCEPT ![s].at = "peering", ![s].by = listener]
  /\ UNCHANGED <<app, frame, routed, expired, dropped, request, seen>>

\* recheckConnected: the connected peer, then the listener once more.
PeerInspected(s) ==
  /\ socket[s].at = "peering" /\ Passed(s)
  /\ SocketGoes(s, "checking")
  /\ UNCHANGED <<app, frame, routed, expired, dropped, request>>

\* The browser's side is accepted, bound to the child's, and relayed.
MarkOpen(s) ==
  /\ socket[s].at = "checking" /\ Passed(s) /\ FrameUsable(socket[s].frame)
  /\ SocketGoes(s, "open")
  /\ UNCHANGED <<app, frame, routed, expired, dropped, request>>

\* A recheck fails, a side closes, nothing is sent for too long, or time is up.
SocketCloses(s) ==
  /\ Registered(s)
  /\ SocketGoes(s, "closed") /\ seen' = seen \ {s}
  /\ UNCHANGED <<app, frame, routed, expired, dropped, request>>

FrameStep ==
  \/ \E i \in Frames \cup Requests \cup Sockets : Look(i)
  \/ \E f \in Frames : \/ \E r \in Runs : IssueFrameSession(f, r)
                       \/ Issued(f) \/ NotIssued(f)
                       \/ Redeem(f) \/ Redeemed(f) \/ NotRedeemed(f) \/ Expire(f)
  \/ \E q \in Requests : \/ Proxy(q) \/ AskChild(q) \/ ChildAnswers(q) \/ Deliver(q)
                         \/ InspectionFails(q) \/ ProxyDenied(q)
  \/ \E s \in Sockets : \/ AdmitWebSocket(s) \/ Admitted(s) \/ ConnectChild(s)
                        \/ PeerInspected(s) \/ MarkOpen(s) \/ SocketCloses(s)

FrameTypes ==
  /\ app \in 1..MaxSessions
  /\ frame \in [Frames -> [at : {"unused", "resolving", "issued", "redeeming", "open", "closed"},
                           run : Runs \cup {NoRun}, gen : 0..MaxSessions]]
  /\ routed \subseteq Frames /\ expired \subseteq Frames /\ dropped \subseteq Frames
  /\ request \in [Requests -> [at : {"idle", "before", "asking", "after", "delivered", "denied"},
                               frame : Frames, by : Runs \cup {Nobody, Stranger}]]
  /\ socket \in [Sockets -> [at : {"idle", "open", "closed"} \cup Pending,
                             frame : Frames, by : Runs \cup {Nobody, Stranger}]]
  /\ seen \subseteq Inspecting
=============================================================================
