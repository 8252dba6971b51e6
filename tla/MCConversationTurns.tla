------------------------ MODULE MCConversationTurns --------------------------
(***************************************************************************)
(* Instances of ConversationTurns for TLC.                                 *)
(***************************************************************************)
EXTENDS ConversationTurns, TLC

CONSTANTS k1, k2, c1, c2

TwoConversations == {c1, c2}

\* One turn within its reservation, one beyond it.
TwoEstimates == k1 :> 1 @@ k2 :> 5

\* Conversations are alike: the first turn may as well be in the first one.
FirstInFirst == k1 :> {c1} @@ k2 :> {c1, c2}
==============================================================================
