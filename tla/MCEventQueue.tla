----------------------------- MODULE MCEventQueue -----------------------------
(* Small instances of EventQueue for TLC.                                  *)
EXTENDS EventQueue, TLC

CONSTANTS d1, d2, i1

\* An event of an issue, and one (the CI of a release) of none.
OneOfNone == d1 :> i1 @@ d2 :> NoIssue
===============================================================================
