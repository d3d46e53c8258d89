----------------------------- MODULE MCAsyncJobs -----------------------------
(* Small instances of AsyncJobs for TLC.                                   *)
EXTENDS AsyncJobs, TLC

CONSTANTS ida, j1, j2

\* One job under its id; two job objects registered one after the other under it.
OneId  == j1 :> ida
SameId == j1 :> ida @@ j2 :> ida

WaiterSymmetry == Permutations(Waiter)
=============================================================================
