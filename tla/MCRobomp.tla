------------------------------- MODULE MCRobomp -------------------------------
(* Small instances of Robomp for TLC.                                      *)
EXTENDS Robomp, TLC

CONSTANTS d1, d2, i1

\* Two events of one issue: the question, and the reply of its author.
OneIssue == d1 :> i1 @@ d2 :> i1
===============================================================================
