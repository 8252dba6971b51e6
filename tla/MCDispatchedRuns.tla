--------------------------- MODULE MCDispatchedRuns ---------------------------
(* Small instances of DispatchedRuns. *)
EXTENDS DispatchedRuns
CONSTANTS b1, v1
OneBatch == {b1}
OneVisual == {v1}
OneSample == {0}
=============================================================================
