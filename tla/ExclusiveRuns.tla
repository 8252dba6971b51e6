---------------------------- MODULE ExclusiveRuns ----------------------------
(***************************************************************************)
(* What the Project-only backend promises about Runs, whatever processes,  *)
(* restarts and cancellations lie behind it: a Project's workspace belongs *)
(* to at most one open Run at a time and does not change while it does;    *)
(* a Run's verdict, its completion evidence and its outputs appear in one  *)
(* step, agree with each other, and never change again.                    *)
(***************************************************************************)
CONSTANTS Projects, Runs, Digests, None

Verdicts == {"succeeded", "failed", "cancelled", "timed_out", "interrupted"}

VARIABLES
  content,     \* the workspace of each Project
  holder,      \* the Run that has the Project to itself
  verdict,     \* "absent", "open", or a verdict
  evidence,    \* the verdict the completion evidence attests, or "none"
  published    \* Runs whose outputs can be read

vars == <<content, holder, verdict, evidence, published>>

Init ==
  /\ content \in [Projects -> Digests]
  /\ holder = [p \in Projects |-> None]
  /\ verdict = [r \in Runs |-> "absent"]
  /\ evidence = [r \in Runs |-> "none"]
  /\ published = {}

\* A new Run takes a free Project.
Begin(r, p) ==
  /\ verdict[r] = "absent"
  /\ holder[p] = None
  /\ verdict' = [verdict EXCEPT ![r] = "open"]
  /\ holder' = [holder EXCEPT ![p] = r]
  /\ UNCHANGED <<content, evidence, published>>

\* Open Runs get their verdict (a restart closes several at once).  Only a
\* success publishes outputs, and it always does.
Finish(R, v) ==
  /\ R # {}
  /\ \A r \in R : verdict[r] = "open"
  /\ verdict' = [r \in Runs |-> IF r \in R THEN v ELSE verdict[r]]
  /\ evidence' = [r \in Runs |-> IF r \in R THEN v ELSE evidence[r]]
  /\ published' = IF v = "succeeded" THEN published \cup R ELSE published
  /\ holder' = [p \in Projects |-> IF holder[p] \in R THEN None ELSE holder[p]]
  /\ UNCHANGED content

\* A free Project is edited.
Edit(p, d) ==
  /\ holder[p] = None
  /\ content' = [content EXCEPT ![p] = d]
  /\ UNCHANGED <<holder, verdict, evidence, published>>

Next ==
  \/ \E r \in Runs, p \in Projects : Begin(r, p)
  \/ \E R \in SUBSET Runs, v \in Verdicts : Finish(R, v)
  \/ \E p \in Projects, d \in Digests : Edit(p, d)

Spec == Init /\ [][Next]_vars
==============================================================================
