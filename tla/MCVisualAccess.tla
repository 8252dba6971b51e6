--------------------------- MODULE MCVisualAccess ---------------------------
(***************************************************************************)
(* Two visual Runs, one frame, a request and a WebSocket.                  *)
(***************************************************************************)
EXTENDS VisualAccess, TLC

CONSTANTS r1, r2, f1, q1, s1, c1, t1

TwoRuns == {r1, r2}
OneFrame == {f1}
OneRequest == {q1}
OneSocket == {s1}
OneCall == {c1}
OneTurn == {t1}
=============================================================================
