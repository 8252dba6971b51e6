---------------------------- MODULE AtomicObjects ----------------------------
(***************************************************************************)
(* What the mutation coordinator promises: a mutation that was asked for   *)
(* gives every object its new content in one step, or is refused and       *)
(* changes nothing.  Nothing else changes the contents.                    *)
(***************************************************************************)
CONSTANTS Objects, Contents

VARIABLES
  content,   \* of every object
  asked      \* the contents a mutation in progress asks for: a set of at most one

vars == <<content, asked>>

Absent == "absent"
Content == Contents \cup {Absent}

Init == content \in [Objects -> Content] /\ asked = {}

Ask(to) ==
  /\ asked = {}
  /\ asked' = {to}
  /\ UNCHANGED content

TakeEffect ==
  /\ asked = {content'}
  /\ asked' = {}

Refuse ==
  /\ asked # {} /\ asked' = {}
  /\ UNCHANGED content

Next == (\E to \in [Objects -> Content] : Ask(to)) \/ TakeEffect \/ Refuse

Spec == Init /\ [][Next]_vars
=============================================================================
