------------------------------- MODULE McpGrants -------------------------------
(***************************************************************************)
(* The capabilities of agent-mcp.ts: one per Agent turn, kept in memory,   *)
(* and the allow-once approval of the turn's one consequential operation.  *)
(* An operation is named by its arguments: "good" ones pass the validation *)
(* of the tool, "bad" ones are rejected before anything is executed.       *)
(***************************************************************************)
EXTENDS AgentJournal

Arguments == {"good", "bad"}

VARIABLES
  cap,        \* the capability of a turn: none, live or revoked
  capGen,     \* the session generation it was issued for
  approved,   \* its operationCommitment
  rejected,   \* #rejectedBeforeExecutionConsequential
  consumed    \* #consumedConsequential

grantVars == <<cap, capGen, approved, rejected, consumed>>

GrantsInit ==
  /\ cap = [t \in Turns |-> "none"] /\ capGen = [t \in Turns |-> 0]
  /\ approved = [t \in Turns |-> "none"]
  /\ rejected = [t \in Turns |-> FALSE] /\ consumed = [t \in Turns |-> FALSE]

Grant(t, issuedFor) ==
  /\ cap' = [cap EXCEPT ![t] = "live"]
  /\ capGen' = [capGen EXCEPT ![t] = issuedFor]
  /\ UNCHANGED <<approved, rejected, consumed>>

\* Revoking forgets everything about the capability.
RevokeAll(ts) ==
  LET gone == {t \in ts : cap[t] = "live"} IN
  /\ cap' = [t \in Turns |-> IF t \in gone THEN "revoked" ELSE cap[t]]
  /\ approved' = [t \in Turns |-> IF t \in gone THEN "none" ELSE approved[t]]
  /\ rejected' = [t \in Turns |-> rejected[t] /\ t \notin gone]
  /\ consumed' = [t \in Turns |-> consumed[t] /\ t \notin gone]
  /\ UNCHANGED capGen

Revoke(t) == RevokeAll({t})

\* Only an approval whose call was rejected before it ran may be replaced.
Replaceable(t) == approved[t] = "none" \/ rejected[t]

\* authorizeConsequentialOperation: repeating an approval changes nothing, a
\* competing one revokes the capability.
Authorize(t, args) ==
  /\ cap[t] = "live" /\ ~consumed[t]
  /\ IF approved[t] = args THEN UNCHANGED grantVars
     ELSE IF Replaceable(t)
       THEN /\ approved' = [approved EXCEPT ![t] = args]
            /\ rejected' = [rejected EXCEPT ![t] = FALSE]
            /\ UNCHANGED <<cap, capGen, consumed>>
       ELSE Revoke(t)

\* handle: a call runs only with exactly the approved arguments, once.
Callable(t, args) == cap[t] = "live" /\ approved[t] = args /\ ~consumed[t]

RejectCall(t) ==
  /\ Callable(t, "bad")
  /\ rejected' = [rejected EXCEPT ![t] = TRUE]
  /\ UNCHANGED <<cap, capGen, approved, consumed>>

RejectButKeep(t) ==
  /\ Callable(t, "good")
  /\ rejected' = [rejected EXCEPT ![t] = FALSE]
  /\ UNCHANGED <<cap, capGen, approved, consumed>>

Consume(t) ==
  /\ Callable(t, "good")
  /\ consumed' = [consumed EXCEPT ![t] = TRUE]
  /\ rejected' = [rejected EXCEPT ![t] = FALSE]
  /\ UNCHANGED <<cap, capGen, approved>>

\* A capability is forgotten with its turn, and all of them with the backend.
ForgetGrant(t) ==
  /\ cap[t] # "live"
  /\ capGen' = [capGen EXCEPT ![t] = 0]
  /\ UNCHANGED <<cap, approved, rejected, consumed>>

ForgetGrants ==
  /\ cap' = [t \in Turns |-> IF cap[t] = "live" THEN "revoked" ELSE cap[t]]
  /\ capGen' = [t \in Turns |-> 0]
  /\ approved' = [t \in Turns |-> "none"] /\ rejected' = [t \in Turns |-> FALSE]
  /\ consumed' = [t \in Turns |-> FALSE]
=============================================================================
