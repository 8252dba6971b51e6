---------------------------- MODULE MCProjectRuns ----------------------------
(***************************************************************************)
(* Small instances of ProjectRuns for TLC.                                 *)
(***************************************************************************)
EXTENDS ProjectRuns

CONSTANT d1

\* One workspace runs both kinds, the other only batch.
MCRunMode == [d \in Digests |-> IF d = d1 THEN "both" ELSE "batch"]

\* One configuration of each kind, named for it.
MCConfigKind == [c \in Configs |-> c]
==============================================================================
