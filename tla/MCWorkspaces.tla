----------------------------- MODULE MCWorkspaces -----------------------------
(***************************************************************************)
(* Small instances of ModelWorkspace and of GuidedWorkspaces, which keep   *)
(* different rows of one Store and never meet: a behaviour is of the one   *)
(* or of the other.                                                        *)
(*                                                                         *)
(* Two files and a description with two texts each; three kinds of edits.  *)
(* One Model, one Project, two Conversations; one workspace, and two guide *)
(* turns.                                                                  *)
(***************************************************************************)
EXTENDS ModelWorkspace, GuidedWorkspaces, TLC

CONSTANTS m1, p1, c1, c2, k1

VARIABLE story  \* which instance this behaviour is of

TwoFiles == {"code", "view"}
TwoTexts == {"a", "b"}
ThreeEdits == {"code" :> "b", ("code" :> "a") @@ ("description" :> "b"), "view" :> "b"}
OneModel == {m1}
OneProject == {p1}
TwoChats == {c1, c2}
OneKey == {k1}
ChatAndProject == {c1, p1}

\* What the theorems about guided workspaces suppose of the names.
ASSUME NamesAssumption == NamesDiffer /\ None \notin Guides

\* What is asked for twice, commands or guide turns, has the same two names.
AnyAsked == Permutations(Commands)

MCInit ==
  /\ ModelInit /\ Init
  /\ story \in {"model", "guides"}
  /\ parts = [p \in Parts |-> "a"]

MCNext ==
  \/ story = "model" /\ ModelNext /\ UNCHANGED <<story, vars>>
  \/ story = "guides" /\ Next /\ UNCHANGED <<story, workspaceVars>>

MCSpec == MCInit /\ [][MCNext]_<<story, vars, workspaceVars>>
=============================================================================
