------------------------------ MODULE MCCommands ------------------------------
(***************************************************************************)
(* Commands that are sent again or come late, in the two profiles: the     *)
(* prepared writes of a Project-only Project (ProjectRuns), the commands   *)
(* on Experiments and Runs of the historical Store (RunRecords).  The two  *)
(* keep different rows, so a behaviour is of the one or of the other.      *)
(*                                                                         *)
(* One Project with three writes and a Run; an Experiment and its update,  *)
(* a Run, two cancellations, a user and an Agent who move the Run to the   *)
(* trash, and a restoration.                                               *)
(***************************************************************************)
EXTENDS ProjectRuns, RunRecords, TLC

CONSTANT d1

VARIABLE story  \* which instance this behaviour is of

MCRunMode == [d \in Digests |-> IF d = d1 THEN "both" ELSE "batch"]
MCConfigKind == [c \in Configs |-> c]

\* Writes have the same rights; so have cancellations of one Run, and configurations.
AnyCommand ==
  {p @@ q @@ r @@ u : p \in Permutations(Writes), q \in Permutations(Cancels), r \in Permutations(Configurations), u \in Permutations(Updates)}

MCInit ==
  /\ Init /\ RecordsInit /\ story \in {"writes", "records"}
  /\ story = "records" => workspace = [p \in Projects |-> d1] /\ experiment = [p \in Projects |-> "batch"]

MCNext ==
  \/ story = "writes" /\ Next /\ UNCHANGED <<story, recordVars>>
  \/ story = "records" /\ RecordsNext /\ UNCHANGED <<story, vars>>

MCSpec == MCInit /\ [][MCNext]_<<story, vars, recordVars>>
=============================================================================
