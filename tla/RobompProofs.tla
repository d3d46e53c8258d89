----------------------------- MODULE RobompProofs -----------------------------
(***************************************************************************)
(* The whole process takes no step of the event queue that EventQueue does *)
(* not take, so that what is proved of the queue holds of Robomp too; and  *)
(* the two things the autoclose scheduler promises its users.              *)
(***************************************************************************)
EXTENDS Robomp, EventQueueProofs

LEMMA QueueStep ==
  ASSUME [RobompNext]_allvars
  PROVE  [Next]_vars
<1>1. CASE \E d \in Delivery, i \in Issue : ReplyArrives(d, i) \/ IssueIsClosed(d, i) \/ AgentAnswers(d, i)
  BY <1>1 DEF ReplyArrives, IssueIsClosed, AgentAnswers, Next
<1>2. CASE \E d \in Delivery : EventArrives(d)
  BY <1>2 DEF EventArrives, Next
<1>3. CASE CloserRuns \/ CloserStops
  BY <1>3 DEF CloserRuns, CloserStops
<1>4. CASE Boots \/ PoolStops \/ ProcessDies
  BY <1>4 DEF Boots, PoolStops, ProcessDies, Next, StopStep
<1>5. CASE \/ \E d \in Delivery : \/ Replay(d) \/ ManualTriage(d) \/ Cancel(d)
                                  \/ RetryIsDue(d) \/ RunStep(d) \/ Kills(d)
           \/ DispatchStep \/ Drained \/ DrainTimesOut \/ StopReturns
  BY <1>5 DEF Next, StopStep
<1>6. CASE UNCHANGED allvars
  BY <1>6 DEF allvars
<1> QED
  BY <1>1, <1>2, <1>3, <1>4, <1>5, <1>6 DEF RobompNext

\* What the process does with its queue is what EventQueue says: answers, replies and the
\* scheduler get into no step of it.
THEOREM RobompImplementsQueue == RobompSpec => Spec
<1>1. RobompInit => Init
  BY DEF RobompInit
<1> QED
  BY <1>1, QueueStep, PTL DEF RobompSpec, Spec

\* In the whole process, too, an issue has one run and one agent.
THEOREM RobompIssueHasOneRun == RobompSpec => []OneRunPerIssue
BY RobompImplementsQueue, IssueHasOneRun, PTL

\* In the whole process, too, a run finds its row as it left it.
THEOREM RobompRunKeepsItsRow == RobompSpec => RunOwnsItsRow
BY RobompImplementsQueue, RunKeepsItsRow, PTL

-----------------------------------------------------------------------------
(* The scheduler.                                                          *)

\* A closure whose author has replied in time is out of the scheduler's reach.
QuietInv == \A i \in Issue : replied[i] = "yes" => closure[i].state \notin {"pending", "claimed"}

ClosingInv == Closures!ClosingTypeOK /\ QuietInv

\* What a step does to a closure that was claimed, and to one that becomes so.
Orderly(i) ==
  /\ closure'[i].state = "claimed" /\ closure[i].state # "claimed"
       => replied[i] # "yes" /\ closer.pc = "idle"
  /\ closure[i].state = "claimed" /\ closure'[i] # closure[i]
       => i \in closer.issue \/ closure'[i].answer > closure[i].answer

LEMMA AnswerKeeps ==
  ASSUME ClosingInv, NEW i \in Issue, Closures!Answer(i)
  PROVE  ClosingInv' /\ \A j \in Issue : Orderly(j)
<1>1. [state |-> "pending", due |-> FALSE, answer |-> closure[i].answer + 1]
        \in [state: {"none", "pending", "claimed", "closed", "cancelled"},
             due: BOOLEAN, answer: 0..MaxAnswers]
  BY AnswerAssumption DEF ClosingInv, Closures!ClosingTypeOK, Closures!Answer
<1>2. Closures!ClosingTypeOK'
  BY <1>1 DEF ClosingInv, Closures!ClosingTypeOK, Closures!Answer
<1>3. QuietInv'
  BY DEF ClosingInv, Closures!ClosingTypeOK, QuietInv, Closures!Answer
<1>4. \A j \in Issue : Orderly(j)
  BY AnswerAssumption DEF ClosingInv, Closures!ClosingTypeOK, Closures!Answer, Orderly
<1> QED
  BY <1>2, <1>3, <1>4 DEF ClosingInv

LEMMA CancelKeepsClosures ==
  ASSUME ClosingInv, NEW i \in Issue, Closures!Reply(i) \/ Closures!ClosedByUser(i)
  PROVE  ClosingInv' /\ \A j \in Issue : Orderly(j)
<1>1. /\ closure' = [closure EXCEPT ![i].state = IF closure[i].state = "pending" THEN "cancelled" ELSE @]
      /\ UNCHANGED closer
  BY DEF Closures!Reply, Closures!ClosedByUser, Closures!CancelPending
<1>2. replied' = replied
      \/ replied' = [replied EXCEPT ![i] = IF closure[i].state = "claimed" THEN "late" ELSE "yes"]
  BY DEF Closures!Reply, Closures!ClosedByUser
<1>3. Closures!ClosingTypeOK'
  BY <1>1, <1>2 DEF ClosingInv, Closures!ClosingTypeOK
<1>4. QuietInv'
  BY <1>1, <1>2 DEF ClosingInv, Closures!ClosingTypeOK, QuietInv
<1>5. \A j \in Issue : Orderly(j)
  BY <1>1 DEF ClosingInv, Closures!ClosingTypeOK, Orderly
<1> QED
  BY <1>3, <1>4, <1>5 DEF ClosingInv

LEMMA CloserKeeps ==
  ASSUME ClosingInv, Closures!CloserStep
  PROVE  ClosingInv' /\ \A j \in Issue : Orderly(j)
<1> USE DEF ClosingInv, Closures!ClosingTypeOK, QuietInv, Orderly, Closures!CloserPc
<1>1. CASE Closures!Ticks
  BY <1>1 DEF Closures!Ticks, Closures!Claimed
<1>2. CASE Closures!TickEnds \/ Closures!TickRaises
  BY <1>2 DEF Closures!TickEnds, Closures!TickRaises, Closures!Idle, Closures!Off
<1>3. ASSUME NEW i \in Issue, Closures!WindowEnds(i)
      PROVE  ClosingInv' /\ \A j \in Issue : Orderly(j)
  <2>1. \A j \in Issue : [closure[j] EXCEPT !.due = TRUE]
          \in [state: {"none", "pending", "claimed", "closed", "cancelled"},
               due: BOOLEAN, answer: 0..MaxAnswers]
    OBVIOUS
  <2>2. Closures!ClosingTypeOK'
    BY <1>3, <2>1 DEF Closures!WindowEnds
  <2>3. QuietInv' /\ \A j \in Issue : Orderly(j)
    BY <1>3 DEF Closures!WindowEnds
  <2> QED
    BY <2>2, <2>3
<1>4. ASSUME NEW i \in Issue, Closures!AsksReactions(i)
      PROVE  ClosingInv' /\ \A j \in Issue : Orderly(j)
  <2>1. [pc |-> "reactions", rows |-> closer.rows \ {i}, issue |-> {i}]
          \in [pc: Closures!CloserPc, rows: SUBSET Issue, issue: SUBSET Issue]
    OBVIOUS
  <2>2. Closures!ClosingTypeOK'
    BY <1>4, <2>1 DEF Closures!AsksReactions
  <2>3. QuietInv' /\ \A j \in Issue : Orderly(j)
    BY <1>4 DEF Closures!AsksReactions
  <2> QED
    BY <2>2, <2>3
<1>5. ASSUME NEW i \in Issue, Closures!ReactionsArrive(i) \/ Closures!CloseReturns(i)
      PROVE  ClosingInv' /\ \A j \in Issue : Orderly(j)
  <2>1. i \in closer.issue /\ UNCHANGED replied
    BY <1>5 DEF Closures!ReactionsArrive, Closures!CloseReturns
  <2>2. closer' \in {[closer EXCEPT !.pc = "picking", !.issue = {}], [closer EXCEPT !.pc = "closing"]}
    BY <1>5 DEF Closures!ReactionsArrive, Closures!CloseReturns, Closures!NextRow
  <2>3. PICK st \in {closure[i].state, "cancelled", "closed", "pending"} :
          /\ closure' = [closure EXCEPT ![i].state = st]
          /\ st = "pending" => closure[i].state \in {"pending", "claimed"}
    BY <1>5 DEF Closures!ReactionsArrive, Closures!CloseReturns, Closures!RequeueClaimed,
                Closures!Finalize
  <2>4. Closures!ClosingTypeOK'
    <3>1. closer' \in [pc: Closures!CloserPc, rows: SUBSET Issue, issue: SUBSET Issue]
      BY <2>2
    <3>2. [closure[i] EXCEPT !.state = st]
            \in [state: {"none", "pending", "claimed", "closed", "cancelled"},
                 due: BOOLEAN, answer: 0..MaxAnswers]
      BY <2>3
    <3> QED
      BY <2>1, <2>3, <3>1, <3>2
  <2>5. QuietInv'
    BY <2>1, <2>3
  <2>6. \A j \in Issue : Orderly(j)
    BY <2>1, <2>3
  <2> QED
    BY <2>4, <2>5, <2>6
<1> QED
  BY <1>1, <1>2, <1>3, <1>4, <1>5 DEF Closures!CloserStep

LEMMA ClosingStep ==
  ASSUME ClosingInv, [RobompNext]_allvars
  PROVE  ClosingInv' /\ \A j \in Issue : Orderly(j)
<1>1. CASE \E i \in Issue : Closures!Reply(i) \/ Closures!ClosedByUser(i)
  BY <1>1, CancelKeepsClosures
<1>2. CASE \E i \in Issue : Closures!Answer(i)
  BY <1>2, AnswerKeeps
<1>3. CASE Closures!CloserStep
  BY <1>3, CloserKeeps
<1>4. CASE UNCHANGED <<closure, replied>> /\ closer' \in {closer, Closures!Idle, Closures!Off}
  BY <1>4 DEF ClosingInv, Closures!ClosingTypeOK, QuietInv, Orderly, Closures!Idle, Closures!Off,
              Closures!CloserPc
<1> QED
  BY <1>1, <1>2, <1>3, <1>4
  DEF RobompNext, ReplyArrives, IssueIsClosed, AgentAnswers, EventArrives, CloserRuns, Boots,
      CloserStops, PoolStops, ProcessDies, Closures!CloserEnds, closing, allvars

\* The closures of the process keep their types, and a reply in time keeps the scheduler
\* off its issue.
THEOREM ClosingInvariant == RobompSpec => []ClosingInv
<1>1. RobompInit => ClosingInv
  BY AnswerAssumption
  DEF RobompInit, Closures!ClosingInit, ClosingInv, Closures!ClosingTypeOK, QuietInv,
      Closures!NoClosure, Closures!Off, Closures!CloserPc
<1>2. ClosingInv /\ [RobompNext]_allvars => ClosingInv'
  BY ClosingStep
<1> QED
  BY <1>1, <1>2, PTL DEF RobompSpec

\* The variables of the whole process keep their types.
THEOREM RobompTypeCorrect == RobompSpec => []RobompTypeOK
<1>1. TypeOK /\ ClosingInv => RobompTypeOK
  BY DEF ClosingInv, RobompTypeOK
<1> QED
  BY <1>1, RobompImplementsQueue, QueueTypeCorrect, ClosingInvariant, PTL

\* The scheduler takes up no issue whose author has replied, and none twice at a time.
THEOREM QuietIssuesAreClaimed == RobompSpec => ClaimsQuietIssues
<1>1. ClosingInv /\ [RobompNext]_allvars =>
        [\A i \in Issue : closure'[i].state = "claimed" /\ closure[i].state # "claimed"
           => replied[i] # "yes" /\ closer.pc = "idle"]_allvars
  BY ClosingStep DEF Orderly
<1> QED
  BY <1>1, ClosingInvariant, PTL DEF RobompSpec, ClaimsQuietIssues

\* What the scheduler has claimed is changed by its own answer, or by a new one to watch.
THEOREM ClaimsAreTheSchedulers == RobompSpec => OnlyCloserFinishesClaims
<1>1. ClosingInv /\ [RobompNext]_allvars =>
        [\A i \in Issue : closure[i].state = "claimed" /\ closure'[i] # closure[i]
           => i \in closer.issue \/ closure'[i].answer > closure[i].answer]_allvars
  BY ClosingStep DEF Orderly
<1> QED
  BY <1>1, ClosingInvariant, PTL DEF RobompSpec, OnlyCloserFinishesClaims
===============================================================================
