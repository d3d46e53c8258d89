------------------------------- MODULE Drain --------------------------------
(***************************************************************************)
(* What an eval work pool promises the agent that owns it: items are       *)
(* accepted, each settles once and keeps its outcome, and one report is    *)
(* made, when everything accepted has settled; nothing is accepted after   *)
(* it.                                                                     *)
(***************************************************************************)
CONSTANTS Items, Outcomes

VARIABLES item, reported

drain == <<item, reported>>

Settled == \A i \in Items : item[i] # "accepted"

Init == item = [i \in Items |-> "new"] /\ reported = FALSE

Accept(i) ==
  /\ ~reported /\ item[i] = "new"
  /\ item' = [item EXCEPT ![i] = "accepted"]
  /\ UNCHANGED reported

\* A turn settles its batch, a close everything that had not started.
Settle ==
  /\ \A i \in Items : item'[i] # item[i] => item[i] = "accepted" /\ item'[i] \in Outcomes
  /\ UNCHANGED reported

Report ==
  /\ ~reported /\ Settled /\ \E i \in Items : item[i] # "new"
  /\ reported' = TRUE
  /\ UNCHANGED item

Next == Settle \/ Report \/ \E i \in Items : Accept(i)

Spec == Init /\ [][Next]_drain
=============================================================================
