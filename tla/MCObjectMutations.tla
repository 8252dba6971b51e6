-------------------------- MODULE MCObjectMutations --------------------------
(* Two objects with two contents each, which are interchangeable, as every     *)
(* property of the run is a safety property; the processes are not.           *)
EXTENDS ObjectMutations, FiniteSets, TLC

Symmetry == Permutations(Objects) \union Permutations(Contents)

\* State constraint: failing preparations leave manifests of one object at most.
OneLeftBehind == Cardinality(left \cup contested) <= 1
=============================================================================
