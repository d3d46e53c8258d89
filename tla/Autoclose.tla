------------------------------- MODULE Autoclose -------------------------------
(***************************************************************************)
(* The pending closures of robomp (python/robomp/src): the rows of         *)
(* pending_closures (db.py), the scheduler that closes an answered         *)
(* question after a quiet window (autoclose.py), and what an answer        *)
(* (host_tools.py) and a webhook (server.py) do to a row.                  *)
(*                                                                         *)
(* The steps of this component; module Robomp runs them beside the event   *)
(* queue, in the same process.  GitHub is external: any of its answers may *)
(* come back, whatever became of the request there.                        *)
(***************************************************************************)
EXTENDS Naturals

CONSTANTS Issue,
          MaxAnswers   \* bound: answers posted on one issue

VARIABLES
  closure,  \* pending_closures
  closer,   \* the scheduler: where its tick is, and the rows it has claimed
  replied   \* history: whether the author replied after the answer that is watched:
            \* "no", "yes", or "late", with the row claimed already

\* answer: comment_id, the answer that is watched.
NoClosure == [state |-> "none", due |-> FALSE, answer |-> 0]

\* "reactions", "closing": the request for `issue` is under way.
CloserPc == {"off", "idle", "picking", "reactions", "closing"}
Off  == [pc |-> "off", rows |-> {}, issue |-> {}]
Idle == [Off EXCEPT !.pc = "idle"]

ClosingTypeOK ==
  /\ closure \in [Issue -> [state: {"none", "pending", "claimed", "closed", "cancelled"},
                            due: BOOLEAN, answer: 0..MaxAnswers]]
  /\ closer \in [pc: CloserPc, rows: SUBSET Issue, issue: SUBSET Issue]
  /\ replied \in [Issue -> {"no", "yes", "late"}]

ClosingInit ==
  /\ closure = [i \in Issue |-> NoClosure]
  /\ closer = Off
  /\ replied = [i \in Issue |-> "no"]

-----------------------------------------------------------------------------
(* The table.                                                              *)

\* upsert_pending_closure: the last answer is watched, whatever the row was.
Answer(i) ==
  /\ closure[i].answer < MaxAnswers
  /\ closure' = [closure EXCEPT ![i] = [state |-> "pending", due |-> FALSE,
                                        answer |-> closure[i].answer + 1]]
  /\ replied' = [replied EXCEPT ![i] = "no"]
  /\ UNCHANGED closer

\* Mutant: any closure is cancelled, a claimed one too.
CancelAny(i) == closure' = [closure EXCEPT ![i].state = IF @ = "none" THEN @ ELSE "cancelled"]

\* Mutant: a closure that is due already is not cancelled.
CancelPendingEarly(i) ==
  closure' = [closure EXCEPT ![i].state =
                IF closure[i].state = "pending" /\ ~closure[i].due THEN "cancelled" ELSE @]

\* cancel_pending_closure
CancelPending(i) ==
  closure' = [closure EXCEPT ![i].state =
                IF closure[i].state = "pending" THEN "cancelled" ELSE @]

\* requeue_claimed_closure
RequeueClaimed(i) ==
  closure' = [closure EXCEPT ![i].state = IF closure[i].state = "claimed" THEN "pending" ELSE @]

\* Mutant: the reason is stored as the state.
FinalizeWithReason(i, state) == closure' = [closure EXCEPT ![i].state = "author_downvoted"]

\* finalize_closure
Finalize(i, state) == closure' = [closure EXCEPT ![i].state = state]

-----------------------------------------------------------------------------
(* Webhooks.                                                               *)

\* The author replies: cancelled before the event is recorded, even if that is skipped.
Reply(i) ==
  /\ CancelPending(i)
  /\ replied' = [replied EXCEPT ![i] = IF closure[i].state = "claimed" THEN "late" ELSE "yes"]
  /\ UNCHANGED closer

\* Somebody closes the issue.
ClosedByUser(i) ==
  /\ CancelPending(i)
  /\ UNCHANGED <<closer, replied>>

-----------------------------------------------------------------------------
(* The scheduler.                                                          *)

WindowEnds(i) ==
  /\ closure[i].state = "pending" /\ ~closure[i].due
  /\ closure' = [closure EXCEPT ![i].due = TRUE]
  /\ UNCHANGED <<closer, replied>>

\* The UPDATE of claim_due_closures.
Claimed(D) == [i \in Issue |-> IF i \in D THEN [closure[i] EXCEPT !.state = "claimed"] ELSE closure[i]]

\* tick
Ticks ==
  LET due == {i \in Issue : closure[i].state = "pending" /\ closure[i].due} IN
  /\ closer.pc = "idle" /\ due # {}
  /\ closure' = Claimed(due)
  /\ closer' = [closer EXCEPT !.pc = "picking", !.rows = due]
  /\ UNCHANGED replied

\* The next claimed row: list_comment_reactions for the answer that is watched.
AsksReactions(i) ==
  /\ closer.pc = "picking" /\ i \in closer.rows
  /\ closer' = [pc |-> "reactions", rows |-> closer.rows \ {i}, issue |-> {i}]
  /\ UNCHANGED <<closure, replied>>

NextRow == closer' = [closer EXCEPT !.pc = "picking", !.issue = {}]

\* The request failed, the author voted it down, or the issue is to be closed.
ReactionsArrive(i) ==
  /\ closer.pc = "reactions" /\ i \in closer.issue
  /\ \/ RequeueClaimed(i) /\ NextRow
     \/ Finalize(i, "cancelled") /\ NextRow
     \/ closer' = [closer EXCEPT !.pc = "closing"] /\ UNCHANGED closure
  /\ UNCHANGED replied

\* close_issue failed, found no issue, or closed it.
CloseReturns(i) ==
  /\ closer.pc = "closing" /\ i \in closer.issue
  /\ \/ RequeueClaimed(i)
     \/ \E state \in {"cancelled", "closed"} : Finalize(i, state)
  /\ NextRow
  /\ UNCHANGED replied

TickEnds ==
  /\ closer.pc = "picking" /\ closer.rows = {}
  /\ closer' = Idle
  /\ UNCHANGED <<closure, replied>>

\* Only GitHubError is caught row by row: a request that fails below HTTP (the proxy is
\* away, a timeout that outlasts the retries) ends the tick, whatever is left of it.
TickRaises ==
  /\ closer.pc \in {"reactions", "closing"}
  /\ closer' = Idle
  /\ UNCHANGED <<closure, replied>>

CloserStep ==
  \/ Ticks \/ TickEnds \/ TickRaises
  \/ \E i \in Issue : WindowEnds(i) \/ AsksReactions(i) \/ ReactionsArrive(i) \/ CloseReturns(i)

\* The process ends, or stop() gives up on a tick after five seconds: claimed rows stay
\* claimed.
CloserEnds ==
  /\ closer' = Off
  /\ UNCHANGED <<closure, replied>>
===============================================================================
