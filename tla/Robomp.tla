-------------------------------- MODULE Robomp --------------------------------
(***************************************************************************)
(* The robomp process: the event queue and the autoclose scheduler.  They  *)
(* share the issue.  The agent of an event answers on it and so arms its   *)
(* closure; a webhook cancels the closure of the issue before it records   *)
(* the event; both components start, stop and crash together.              *)
(***************************************************************************)
EXTENDS EventQueue

CONSTANT MaxAnswers

ASSUME AnswerAssumption == MaxAnswers \in Nat

VARIABLES closure, closer, replied

Closures == INSTANCE Autoclose

closing == <<closure, closer, replied>>
allvars == <<vars, closing>>

RobompInit == Init /\ Closures!ClosingInit

\* A comment of the author, recorded as an event of the issue or skipped by the rate limit.
ReplyArrives(d, i) ==
  /\ IssueOf[d] = i /\ Record(d)
  /\ Closures!Reply(i)

\* Any other event about an issue.
EventArrives(d) == Record(d) /\ UNCHANGED closing

IssueIsClosed(d, i) ==
  /\ IssueOf[d] = i /\ Record(d)
  /\ Closures!ClosedByUser(i)

\* gh_post_comment of the agent of an event.
AgentAnswers(d, i) ==
  /\ IssueOf[d] = i /\ agent[d].pc = "armed" /\ phase # "down"
  /\ Closures!Answer(i)
  /\ UNCHANGED vars

CloserRuns == Closures!CloserStep /\ UNCHANGED vars

\* lifespan: the pool starts, then the scheduler; the scheduler stops, then the pool.
Boots == Start /\ closer' = Closures!Idle /\ UNCHANGED <<closure, replied>>

CloserStops ==
  /\ phase = "serving" /\ boots < MaxBoots /\ closer.pc # "off"
  /\ Closures!CloserEnds
  /\ UNCHANGED vars

PoolStops == BeginsStop /\ closer.pc = "off" /\ UNCHANGED closing

ProcessDies == (Exits \/ Crashes) /\ Closures!CloserEnds

RobompNext ==
  \/ \E d \in Delivery, i \in Issue : ReplyArrives(d, i) \/ IssueIsClosed(d, i) \/ AgentAnswers(d, i)
  \/ \E d \in Delivery : EventArrives(d)
  \/ CloserRuns
  \/ Boots \/ CloserStops \/ PoolStops \/ ProcessDies
  \/ /\ \/ \E d \in Delivery : \/ Replay(d) \/ ManualTriage(d) \/ Cancel(d)
                               \/ RetryIsDue(d) \/ RunStep(d) \/ Kills(d)
        \/ DispatchStep \/ Drained \/ DrainTimesOut \/ StopReturns
     /\ UNCHANGED closing

RobompSpec == RobompInit /\ [][RobompNext]_allvars

-----------------------------------------------------------------------------
RobompTypeOK == TypeOK /\ Closures!ClosingTypeOK

\* A reply that finds the closure pending, due or not, keeps the scheduler off the issue
\* until the next answer (server.py:421-425); it takes up each answer once at a time.
ClaimsQuietIssues ==
  [][\A i \in Issue : closure'[i].state = "claimed" /\ closure[i].state # "claimed"
        => replied[i] # "yes" /\ closer.pc = "idle"]_allvars

\* The scheduler is the only writer of the terminal states of a row it has claimed
\* (autoclose.py:13-15); an answer may arm the row again, and nothing else touches it.
OnlyCloserFinishesClaims ==
  [][\A i \in Issue : closure[i].state = "claimed" /\ closure'[i] # closure[i]
        => i \in closer.issue \/ closure'[i].answer > closure[i].answer]_allvars

\* While the scheduler runs, a claimed row is one its tick still has to resolve
\* (db.py:1281-1283): no other tick would ever look at it again.
ClaimIsResolved ==
  boots = 1 /\ closer.pc # "off" =>
    {i \in Issue : closure[i].state = "claimed"} \subseteq closer.rows \cup closer.issue
====
