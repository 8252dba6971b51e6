--------------------------- MODULE MCBrowserControl ---------------------------
(* BrowserControl on small instances: which Turns, calls and requests there   *)
(* are comes from the configurations; the operations of the Agent and the     *)
(* kinds of requests of each run from here. Turns, calls and requests are     *)
(* interchangeable, so the safety runs take them as symmetric.                *)
EXTENDS BrowserControl, TLC

MCAskers == Calls \union Requests \union Turns

Openings == {[tool |-> "open", argument |-> alias] : alias \in Aliases}
With(tools) == Openings \union {[tool |-> tool, argument |-> "x"] : tool \in tools}

MCOperations == With({"act", "back", "close"})
TakeoverOperations == With({"act"})

ControlKinds == {"open", "reload", "close", "takeHuman"}
PageKinds == {"open", "back", "restart", "reconnect", "takeHuman", "return"}

Symmetry ==
    Permutations(Turns) \union Permutations(Calls) \union Permutations(Requests)
=============================================================================
