--------------------------- MODULE EventQueueProofs ---------------------------
(***************************************************************************)
(* For any deliveries, issues and slots, and any bounds: the invariants of *)
(* EventQueue, what a run may do to its row, and that a cancel sticks.     *)
(* They rest on one picture of the queue: a row that a run works on is     *)
(* running; while the process serves, a running row has such a run or has  *)
(* just been claimed; and whatever still works for an issue, in the        *)
(* process or left behind by one that crashed, is one delivery's.          *)
(***************************************************************************)
EXTENDS EventQueue, TLAPS

\* A task before and in its finally.
Working   == {"slot", "preparing", "agent", "abandoned"}
Finishing == {"reclaiming", "releasing"}

\* What the dispatch loop holds is claimed, and no run works on it.
LoopInv ==
  /\ dispatcher.pc # "halted" => phase = "serving"
  /\ dispatcher.pc # "got" => dispatcher.row = {}
  /\ \A d \in dispatcher.row :
       dispatcher.row = {d} /\ row[d].state = "running" /\ task[d].pc \notin Working

\* A run works on a running row, and serves to the end what is running.
RowInv ==
  /\ \A d \in Delivery : task[d].pc \in Working => row[d].state = "running"
  /\ phase = "serving" =>
       \A d \in Delivery :
         row[d].state = "running" => task[d].pc \in Working \/ d \in dispatcher.row

OneTaskPerSlot ==
  \A d, e \in Delivery : task[d].slot = task[e].slot /\ task[d].slot # NoSlot => d = e

\* A task or a thread, with or without the other, keeps its issue to itself.
OnePerKey ==
  \A d, e \in Delivery :
    /\ task[d].pc # "none" \/ agent[d].pc # "none"
    /\ task[e].pc # "none" \/ agent[e].pc # "none"
    /\ Key(d) = Key(e)
    => d = e

ServingInv ==
  phase = "serving" =>
    /\ inflight = {Key(d) : d \in Active}
    /\ interrupted = {} /\ kill = {}
    /\ \A d \in Delivery :
         /\ task[d].pc # "abandoned"
         /\ agent[d].pc # "none" => task[d].pc = "agent" /\ agent[d].slot = task[d].slot

DownInv ==
  phase = "down" =>
    /\ inflight = {} /\ interrupted = {} /\ kill = {}
    /\ \A d \in Delivery : task[d].pc = "none"

IInv == TypeOK /\ LoopInv /\ RowInv /\ OneTaskPerSlot /\ OnePerKey /\ ServingInv /\ DownInv

-----------------------------------------------------------------------------
(* What the statements of the table and the end of the process write.      *)

RowType == [state: RowState, attempts: 0..(MaxRetries + 1), due: BOOLEAN]

\* Every way a field of a row is written gives a row.
LEMMA RowIsBuilt ==
  ASSUME NEW r \in [Delivery -> RowType], NEW d \in Delivery, NEW st \in RowState
  PROVE /\ [r EXCEPT ![d].state = st] \in [Delivery -> RowType]
        /\ [r EXCEPT ![d].state = st, ![d].due = TRUE] \in [Delivery -> RowType]
        /\ [r EXCEPT ![d].state = st, ![d].due = FALSE] \in [Delivery -> RowType]
        /\ [r EXCEPT ![d].state = st, ![d].attempts = Bump(@)] \in [Delivery -> RowType]
        /\ [r EXCEPT ![d] = [NoRow EXCEPT !.state = st]] \in [Delivery -> RowType]
        /\ [r EXCEPT ![d].due = TRUE] \in [Delivery -> RowType]
<1>1. [r EXCEPT ![d].state = st] \in [Delivery -> RowType] BY DEF RowType
<1>2. \A b \in BOOLEAN : [r EXCEPT ![d].state = st, ![d].due = b] \in [Delivery -> RowType]
  <2> TAKE b \in BOOLEAN
  <2>1. [r[d] EXCEPT !.state = st, !.due = b] \in RowType BY DEF RowType
  <2> QED BY <2>1
<1>3. [r EXCEPT ![d].state = st, ![d].attempts = Bump(@)] \in [Delivery -> RowType]
  <2>1. r[d].attempts \in 0..(MaxRetries + 1) BY DEF RowType
  <2>2. Bump(r[d].attempts) \in 0..(MaxRetries + 1) BY <2>1, BoundAssumption DEF Bump
  <2>3. [r[d] EXCEPT !.state = st, !.attempts = Bump(@)] \in RowType BY <2>2 DEF RowType
  <2> QED BY <2>3
<1>4. [r EXCEPT ![d] = [NoRow EXCEPT !.state = st]] \in [Delivery -> RowType]
  <2>1. NoRow \in RowType BY BoundAssumption DEF RowType, NoRow, RowState
  <2>2. [NoRow EXCEPT !.state = st] \in RowType BY <2>1 DEF RowType
  <2> QED BY <2>2
<1>5. [r EXCEPT ![d].due = TRUE] \in [Delivery -> RowType]
  <2>1. [r[d] EXCEPT !.due = TRUE] \in RowType BY DEF RowType
  <2> QED BY <2>1
<1>6. [r EXCEPT ![d].state = st, ![d].due = TRUE] \in [Delivery -> RowType]
  BY <1>2
<1>7. [r EXCEPT ![d].state = st, ![d].due = FALSE] \in [Delivery -> RowType]
  BY <1>2
<1> QED BY <1>1, <1>3, <1>4, <1>5, <1>6, <1>7

\* What the end of the process leaves of an agent.
LEMMA EndKeepsAgents ==
  ASSUME TypeOK, ProcessEnds
  PROVE  /\ agent' \in [Delivery -> [pc: AgentPc, slot: Slot \cup {NoSlot}]]
         /\ \A d \in Delivery : agent'[d].pc # "none" => agent[d].pc # "none"
<1>1. PICK S \in SUBSET {d \in Delivery : agent[d].pc \in Alive} :
        agent' = [d \in Delivery |-> IF d \in S THEN [agent[d] EXCEPT !.pc = "orphan"] ELSE NoAgent]
  BY DEF ProcessEnds
<1>2. \A d \in Delivery : [agent[d] EXCEPT !.pc = "orphan"]
                            \in [pc: AgentPc, slot: Slot \cup {NoSlot}]
  BY DEF TypeOK, AgentPc
<1>3. NoAgent \in [pc: AgentPc, slot: Slot \cup {NoSlot}]
  BY DEF NoAgent, AgentPc
<1> QED
  BY <1>1, <1>2, <1>3 DEF TypeOK, Alive, NoAgent

\* The end of the process leaves well-typed variables.
LEMMA EndKeepsTypes ==
  ASSUME TypeOK, ProcessEnds
  PROVE  TypeOK'
<1>1. /\ phase' = "down" /\ dispatcher' \in [pc: DispatcherPc, row: SUBSET Delivery]
      /\ wakeup' = FALSE /\ inflight' = {} /\ kill' = {}
      /\ cancelled' = {} /\ interrupted' = {} /\ hooks' = {}
      /\ task' \in [Delivery -> [pc: TaskPc, slot: Slot \cup {NoSlot}]]
      /\ UNCHANGED <<table, boots>>
  BY DEF ProcessEnds, Dispatcher, DispatcherPc, NoTask, TaskPc
<1> QED
  BY <1>1, EndKeepsAgents DEF TypeOK, table

\* The end of the process leaves only agents that were there.
LEMMA EndKeepsKeys ==
  ASSUME TypeOK, OnePerKey, ProcessEnds
  PROVE  OnePerKey'
<1>1. \A d \in Delivery : task'[d].pc = "none"
  BY DEF ProcessEnds, NoTask
<1> QED
  BY <1>1, EndKeepsAgents DEF OnePerKey, Key

\* A row written anew is a row.
LEMMA InsertTypes ==
  ASSUME TypeOK, NEW d \in Delivery, NEW st \in RowState, Insert(d, st)
  PROVE  row' \in [Delivery -> RowType] /\ older' \subseteq Delivery \X Delivery
<1>1. row \in [Delivery -> RowType]
  BY DEF TypeOK, RowType
<1>2. row' \in [Delivery -> RowType]
  BY <1>1, RowIsBuilt DEF Insert
<1>3. older' \subseteq Delivery \X Delivery
  BY DEF Insert, TypeOK
<1> QED
  BY <1>2, <1>3

\* So is one that is queued again, retried or marked.
LEMMA WriteTypes ==
  ASSUME TypeOK, NEW d \in Delivery,
         UNCHANGED row \/ Requeue(d) \/ ScheduleRetry(d) \/ \E st \in RowState : Mark(d, st)
  PROVE  row' \in [Delivery -> RowType]
<1>1. row \in [Delivery -> RowType]
  BY DEF TypeOK, RowType
<1>2. "queued" \in RowState
  BY DEF RowState
<1>3. CASE Requeue(d)
  <2>1. row' = [row EXCEPT ![d].state = "queued", ![d].due = TRUE]
    BY <1>3 DEF Requeue
  <2> QED
    BY <2>1, <1>1, <1>2, RowIsBuilt
<1>4. CASE ScheduleRetry(d)
  <2>1. row' = [row EXCEPT ![d].state = "queued", ![d].due = FALSE]
    BY <1>4 DEF ScheduleRetry
  <2> QED
    BY <2>1, <1>1, <1>2, RowIsBuilt
<1>5. CASE \E st \in RowState : Mark(d, st)
  <2>1. PICK st \in RowState : row' = [row EXCEPT ![d].state = st]
    BY <1>5 DEF Mark
  <2> QED
    BY <2>1, <1>1, RowIsBuilt
<1> QED
  BY <1>1, <1>3, <1>4, <1>5

-----------------------------------------------------------------------------
(* Requests: none touches a row a run works on.                            *)

LEMMA RecordKeeps ==
  ASSUME IInv, NEW d \in Delivery, Record(d)
  PROVE  IInv'
<1>1. UNCHANGED <<task, agent, phase, inflight, interrupted, kill>>
  BY DEF Record, life, runs, marks
<1>2. TypeOK'
  <2>1. row' \in [Delivery -> RowType] /\ older' \subseteq Delivery \X Delivery
    <3>1. PICK st \in {"queued", "skipped"} : Insert(d, st)
      BY DEF Record
    <3> QED
      BY <3>1, InsertTypes DEF IInv, RowState
  <2>2. wakeup' \in BOOLEAN
    BY Zenon DEF IInv, TypeOK, Record
  <2>3. UNCHANGED <<life, runs, marks, requests, dispatcher, agent>>
    BY DEF Record
  <2> QED
    BY <2>1, <2>2, <2>3 DEF IInv, TypeOK, RowType, life, runs, marks
<1>3. LoopInv'
  BY DEF IInv, TypeOK, LoopInv, Record, Insert, life, runs
<1>4. RowInv'
  <2>1. PICK st \in {"queued", "skipped"} : Insert(d, st)
    BY DEF Record
  <2>2. row[d].state = "absent" /\ UNCHANGED <<phase, task, dispatcher>>
    BY DEF Record, life, runs
  <2>3. row'[d].state = st /\ \A e \in Delivery \ {d} : row'[e] = row[e]
    BY <2>1 DEF Insert, NoRow, IInv, TypeOK
  <2> QED
    BY <2>1, <2>2, <2>3 DEF IInv, RowInv
<1> QED
  BY <1>1, <1>2, <1>3, <1>4 DEF IInv, OneTaskPerSlot, OnePerKey, ServingInv, DownInv, Key, Active

LEMMA ReplayKeeps ==
  ASSUME IInv, NEW d \in Delivery, Replay(d)
  PROVE  IInv'
<1>1. UNCHANGED <<task, agent, phase, inflight, interrupted, kill>>
  BY DEF Replay, life, runs, marks
<1>2. TypeOK'
  <2>1. Requeue(d) /\ UNCHANGED <<life, runs, marks, dispatcher, agent>>
    BY DEF Replay
  <2>2. row' \in [Delivery -> RowType] /\ older' \subseteq Delivery \X Delivery
    BY <2>1, WriteTypes DEF IInv, TypeOK, Replay
  <2>3. requests' \in 0..MaxRequests
    BY BoundAssumption DEF Replay, IInv, TypeOK
  <2>4. wakeup' \in BOOLEAN
    <3>1. Wakes
      BY DEF Replay
    <3> QED
      BY <3>1, Zenon DEF IInv, TypeOK, Wakes
  <2> QED
    BY <2>1, <2>2, <2>3, <2>4 DEF IInv, TypeOK, RowType, life, runs, marks, Replay
<1>3. LoopInv'
  BY DEF IInv, TypeOK, LoopInv, Replay, Requeue, Inactive, life, runs
<1>4. RowInv'
  BY DEF IInv, TypeOK, RowInv, Replay, Requeue, Inactive, life, runs
<1> QED
  BY <1>1, <1>2, <1>3, <1>4 DEF IInv, OneTaskPerSlot, OnePerKey, ServingInv, DownInv, Key, Active

LEMMA ManualTriageKeeps ==
  ASSUME IInv, NEW d \in Delivery, ManualTriage(d)
  PROVE  IInv'
<1>1. UNCHANGED <<task, agent, phase, inflight, interrupted, kill>>
  BY DEF ManualTriage, life, runs, marks
<1>2. TypeOK'
  <2>1. Insert(d, "queued") /\ UNCHANGED <<life, runs, marks, dispatcher, agent>>
    BY DEF ManualTriage
  <2>2. row' \in [Delivery -> RowType] /\ older' \subseteq Delivery \X Delivery
    BY <2>1, InsertTypes DEF IInv, RowState
  <2>3. requests' \in 0..MaxRequests
    BY BoundAssumption DEF ManualTriage, IInv, TypeOK
  <2>4. wakeup' \in BOOLEAN
    <3>1. Wakes
      BY DEF ManualTriage
    <3> QED
      BY <3>1, Zenon DEF IInv, TypeOK, Wakes
  <2> QED
    BY <2>1, <2>2, <2>3, <2>4 DEF IInv, TypeOK, RowType, life, runs, marks, ManualTriage
<1>3. LoopInv'
  BY DEF IInv, LoopInv, ManualTriage, Insert, Inactive, life, runs
<1>4. RowInv'
  BY DEF IInv, RowInv, ManualTriage, Insert, Inactive, life, runs
<1> QED
  BY <1>1, <1>2, <1>3, <1>4 DEF IInv, OneTaskPerSlot, OnePerKey, ServingInv, DownInv, Key, Active

LEMMA CancelKeeps ==
  ASSUME IInv, NEW d \in Delivery, Cancel(d)
  PROVE  IInv'
<1>1. UNCHANGED <<dispatcher, phase, row, task, inflight, interrupted, kill>>
  BY DEF Cancel, table, life, loop, runs
<1>2. TypeOK'
  <2>1. [agent[d] EXCEPT !.pc = "stopping"] \in [pc: AgentPc, slot: Slot \cup {NoSlot}]
    BY DEF IInv, TypeOK, AgentPc
  <2>2. agent' \in [Delivery -> [pc: AgentPc, slot: Slot \cup {NoSlot}]]
    BY <2>1 DEF IInv, TypeOK, Cancel, Fire
  <2>3. /\ cancelled' \subseteq Delivery /\ hooks' \subseteq Delivery
        /\ UNCHANGED <<table, life, loop, runs, interrupted, kill>>
    BY DEF Cancel, Fire, IInv, TypeOK
  <2> QED
    BY <2>2, <2>3 DEF IInv, TypeOK, table, life, loop, runs
<1>3. OnePerKey'
  BY DEF IInv, OnePerKey, Cancel, Fire, runs
<1>4. ServingInv'
  BY DEF IInv, ServingInv, Cancel, Fire, runs, Active
<1> QED
  BY <1>1, <1>2, <1>3, <1>4 DEF IInv, LoopInv, RowInv, OneTaskPerSlot, DownInv

LEMMA RetryIsDueKeeps ==
  ASSUME IInv, NEW d \in Delivery, RetryIsDue(d)
  PROVE  IInv'
<1>1. UNCHANGED <<task, agent, phase, inflight, interrupted, kill>>
  BY DEF RetryIsDue, life, runs, marks
<1>2. TypeOK'
  BY DEF IInv, TypeOK, RetryIsDue, life, loop, runs, marks
<1>3. LoopInv'
  BY DEF IInv, LoopInv, RetryIsDue, life, loop, runs
<1>4. RowInv'
  BY DEF IInv, RowInv, RetryIsDue, life, loop, runs
<1> QED
  BY <1>1, <1>2, <1>3, <1>4 DEF IInv, OneTaskPerSlot, OnePerKey, ServingInv, DownInv, Key, Active

-----------------------------------------------------------------------------
(* The dispatch loop.                                                      *)

LEMMA ClaimsKeeps ==
  ASSUME IInv, NEW d \in Delivery, Claims(d)
  PROVE  IInv'
<1>1. UNCHANGED <<task, agent, phase, inflight, interrupted, kill>>
  BY DEF Claims, life, runs, marks
<1>2. TypeOK'
  <2>1. row' \in [Delivery -> RowType]
    <3>1. row \in [Delivery -> RowType] /\ "running" \in RowState
      BY DEF IInv, TypeOK, RowType, RowState
    <3>2. row' = [row EXCEPT ![d].state = "running", ![d].attempts = Bump(@)]
      BY DEF Claims
    <3> QED
      BY <3>1, <3>2, RowIsBuilt
  <2>2. /\ dispatcher' \in [pc: DispatcherPc, row: SUBSET Delivery]
        /\ UNCHANGED <<life, runs, marks, older, requests, wakeup, agent>>
    BY DEF Claims, Dispatcher, DispatcherPc
  <2> QED
    BY <2>1, <2>2 DEF IInv, TypeOK, RowType, life, runs, marks
<1>3. LoopInv'
  BY DEF IInv, TypeOK, LoopInv, RowInv, Claims, Claimable, life, runs, Dispatcher
<1>4. RowInv'
  BY DEF IInv, TypeOK, LoopInv, RowInv, Claims, runs, Dispatcher
<1> QED
  BY <1>1, <1>2, <1>3, <1>4 DEF IInv, OneTaskPerSlot, OnePerKey, ServingInv, DownInv, Key, Active

LEMMA DispatchesKeeps ==
  ASSUME IInv, NEW d \in Delivery, Dispatches(d)
  PROVE  IInv'
<1>1. TypeOK'
  BY DEF IInv, TypeOK, Dispatches, table, life, marks, DispatcherPc, Dispatcher, TaskPc
<1>2. LoopInv'
  BY DEF IInv, LoopInv, Dispatches, life, Dispatcher
<1>3. RowInv'
  BY DEF IInv, TypeOK, LoopInv, RowInv, Dispatches, table, Dispatcher, Working
<1>4. OneTaskPerSlot'
  BY DEF IInv, OneTaskPerSlot, Dispatches
<1>5. OnePerKey'
  BY DEF IInv, LoopInv, OnePerKey, ServingInv, Dispatches, Active, Dispatcher
<1>6. ServingInv'
  BY DEF IInv, TypeOK, ServingInv, Dispatches, Active, life, marks
<1>7. DownInv'
  BY DEF IInv, LoopInv, DownInv, Dispatches, life, Dispatcher
<1> QED
  BY <1>1, <1>2, <1>3, <1>4, <1>5, <1>6, <1>7 DEF IInv

LEMMA PutsBackKeeps ==
  ASSUME IInv, NEW d \in Delivery, PutsBack(d)
  PROVE  IInv'
<1>1. UNCHANGED <<task, agent, phase, inflight, interrupted, kill>>
  BY DEF PutsBack, life, runs, marks
<1>2. TypeOK'
  <2>1. row' \in [Delivery -> RowType]
    BY WriteTypes DEF IInv, PutsBack
  <2>2. /\ dispatcher' \in [pc: DispatcherPc, row: SUBSET Delivery]
        /\ UNCHANGED <<life, runs, marks, older, requests, wakeup, agent>>
    BY DEF PutsBack, Dispatcher, DispatcherPc
  <2> QED
    BY <2>1, <2>2 DEF IInv, TypeOK, RowType, life, runs, marks
<1>3. LoopInv'
  BY DEF IInv, LoopInv, PutsBack, life, Dispatcher
<1>4. RowInv'
  BY DEF IInv, TypeOK, LoopInv, RowInv, PutsBack, Requeue, runs, Dispatcher
<1> QED
  BY <1>1, <1>2, <1>3, <1>4 DEF IInv, OneTaskPerSlot, OnePerKey, ServingInv, DownInv, Key, Active

LEMMA FindsNothingKeeps ==
  ASSUME IInv, FindsNothing
  PROVE  IInv'
<1>1. UNCHANGED <<task, agent, phase, inflight, interrupted, kill>>
  BY DEF FindsNothing, life, runs, marks
<1>2. TypeOK'
  BY DEF IInv, TypeOK, FindsNothing, table, life, runs, marks, DispatcherPc, Dispatcher
<1>3. LoopInv'
  BY DEF IInv, LoopInv, FindsNothing, life, Dispatcher
<1>4. RowInv'
  BY DEF IInv, LoopInv, RowInv, FindsNothing, table, runs
<1> QED
  BY <1>1, <1>2, <1>3, <1>4 DEF IInv, OneTaskPerSlot, OnePerKey, ServingInv, DownInv, Key, Active

LEMMA PauseEndsKeeps ==
  ASSUME IInv, PauseEnds
  PROVE  IInv'
<1>1. UNCHANGED <<task, agent, phase, inflight, interrupted, kill>>
  BY DEF PauseEnds, life, runs, marks
<1>2. TypeOK'
  BY DEF IInv, TypeOK, PauseEnds, table, life, runs, marks, DispatcherPc, Dispatcher
<1>3. LoopInv'
  BY DEF IInv, LoopInv, PauseEnds, life, Dispatcher
<1>4. RowInv'
  BY DEF IInv, LoopInv, RowInv, PauseEnds, table, runs
<1> QED
  BY <1>1, <1>2, <1>3, <1>4 DEF IInv, OneTaskPerSlot, OnePerKey, ServingInv, DownInv, Key, Active

LEMMA WaitsKeeps ==
  ASSUME IInv, Waits
  PROVE  IInv'
<1>1. UNCHANGED <<task, agent, phase, inflight, interrupted, kill>>
  BY DEF Waits, life, runs, marks
<1>2. TypeOK'
  BY DEF IInv, TypeOK, Waits, table, life, runs, marks, DispatcherPc, Dispatcher
<1>3. LoopInv'
  BY DEF IInv, LoopInv, Waits, life, Dispatcher
<1>4. RowInv'
  BY DEF IInv, LoopInv, RowInv, Waits, table, runs
<1> QED
  BY <1>1, <1>2, <1>3, <1>4 DEF IInv, OneTaskPerSlot, OnePerKey, ServingInv, DownInv, Key, Active

LEMMA LooksAgainKeeps ==
  ASSUME IInv, LooksAgain
  PROVE  IInv'
<1>1. UNCHANGED <<task, agent, phase, inflight, interrupted, kill>>
  BY DEF LooksAgain, life, runs, marks
<1>2. TypeOK'
  BY DEF IInv, TypeOK, LooksAgain, table, life, runs, marks, DispatcherPc, Dispatcher
<1>3. LoopInv'
  BY DEF IInv, LoopInv, LooksAgain, life, Dispatcher
<1>4. RowInv'
  BY DEF IInv, LoopInv, RowInv, LooksAgain, table, runs
<1> QED
  BY <1>1, <1>2, <1>3, <1>4 DEF IInv, OneTaskPerSlot, OnePerKey, ServingInv, DownInv, Key, Active

-----------------------------------------------------------------------------
(* A run: its task and the thread of its agent.                            *)

\* The finally of a run.
LEMMA LeavesTypes ==
  ASSUME TypeOK, NEW d \in Delivery, Leaves(d)
  PROVE  /\ cancelled' \subseteq Delivery /\ interrupted' \subseteq Delivery
         /\ hooks' \subseteq Delivery
         /\ task' \in [Delivery -> [pc: TaskPc, slot: Slot \cup {NoSlot}]]
         /\ agent' \in [Delivery -> [pc: AgentPc, slot: Slot \cup {NoSlot}]]
BY DEF TypeOK, Leaves, Reap, NoAgent, TaskPc, AgentPc

LEMMA TakesSlotKeeps ==
  ASSUME IInv, NEW d \in Delivery, NEW s \in Slot, TakesSlot(d, s)
  PROVE  IInv'
<1>1. TypeOK'
  BY DEF IInv, TypeOK, TakesSlot, table, life, loop, marks, TaskPc
<1>2. LoopInv'
  BY DEF IInv, LoopInv, TakesSlot, table, life, loop, Working
<1>3. RowInv'
  BY DEF IInv, RowInv, TakesSlot, table, life, loop, Working
<1>4. OneTaskPerSlot'
  BY DEF IInv, OneTaskPerSlot, TakesSlot, FreeSlots
<1>5. OnePerKey'
  BY DEF IInv, OnePerKey, TakesSlot
<1>6. ServingInv'
  BY DEF IInv, ServingInv, TakesSlot, life, marks, Active
<1>7. DownInv'
  BY DEF IInv, DownInv, TakesSlot, life
<1> QED
  BY <1>1, <1>2, <1>3, <1>4, <1>5, <1>6, <1>7 DEF IInv

LEMMA StartsAgentKeeps ==
  ASSUME IInv, NEW d \in Delivery, StartsAgent(d)
  PROVE  IInv'
<1>1. TypeOK'
  <2>1. /\ [task[d] EXCEPT !.pc = "agent"] \in [pc: TaskPc, slot: Slot \cup {NoSlot}]
        /\ [pc |-> "starting", slot |-> task[d].slot] \in [pc: AgentPc, slot: Slot \cup {NoSlot}]
    BY DEF IInv, TypeOK, TaskPc, AgentPc
  <2>2. /\ task' \in [Delivery -> [pc: TaskPc, slot: Slot \cup {NoSlot}]]
        /\ agent' \in [Delivery -> [pc: AgentPc, slot: Slot \cup {NoSlot}]]
        /\ UNCHANGED <<table, life, loop, marks, inflight>>
    BY <2>1 DEF IInv, TypeOK, StartsAgent
  <2> QED
    BY <2>2 DEF IInv, TypeOK, table, life, loop, marks
<1>2. LoopInv'
  BY DEF IInv, LoopInv, StartsAgent, table, life, loop, Working
<1>3. RowInv'
  BY DEF IInv, RowInv, StartsAgent, table, life, loop, Working
<1>4. OneTaskPerSlot'
  BY DEF IInv, OneTaskPerSlot, StartsAgent
<1>5. OnePerKey'
  BY DEF IInv, OnePerKey, StartsAgent
<1>6. ServingInv'
  BY DEF IInv, TypeOK, ServingInv, StartsAgent, life, marks, Active
<1>7. DownInv'
  BY DEF IInv, DownInv, StartsAgent, life
<1> QED
  BY <1>1, <1>2, <1>3, <1>4, <1>5, <1>6, <1>7 DEF IInv

LEMMA SpawnsKeeps ==
  ASSUME IInv, NEW d \in Delivery, Spawns(d)
  PROVE  IInv'
<1>1. UNCHANGED <<dispatcher, phase, row, task, inflight, interrupted, kill>>
  BY DEF Spawns, table, life, loop, runs, marks
<1>2. TypeOK'
  BY DEF IInv, TypeOK, Spawns, table, life, loop, runs, marks, AgentPc
<1>3. OnePerKey'
  BY DEF IInv, OnePerKey, Spawns, runs
<1>4. ServingInv'
  BY DEF IInv, ServingInv, Spawns, life, runs, marks, Active
<1> QED
  BY <1>1, <1>2, <1>3, <1>4 DEF IInv, LoopInv, RowInv, OneTaskPerSlot, DownInv

LEMMA LooksForCancelKeeps ==
  ASSUME IInv, NEW d \in Delivery, LooksForCancel(d)
  PROVE  IInv'
<1>1. UNCHANGED <<dispatcher, phase, row, task, inflight, interrupted, kill>>
  BY DEF LooksForCancel, table, life, loop, runs, marks
<1>2. TypeOK'
  <2>1. \A pc \in {"stopping", "arming"} :
          [agent[d] EXCEPT !.pc = pc] \in [pc: AgentPc, slot: Slot \cup {NoSlot}]
    BY DEF IInv, TypeOK, AgentPc
  <2>2. agent' \in [Delivery -> [pc: AgentPc, slot: Slot \cup {NoSlot}]]
    BY <2>1 DEF IInv, TypeOK, LooksForCancel
  <2>3. UNCHANGED <<table, life, loop, runs, marks>>
    BY DEF LooksForCancel
  <2> QED
    BY <2>2, <2>3 DEF IInv, TypeOK, table, life, loop, runs, marks
<1>3. OnePerKey'
  BY DEF IInv, OnePerKey, LooksForCancel, runs
<1>4. ServingInv'
  BY DEF IInv, ServingInv, LooksForCancel, life, runs, marks, Active
<1> QED
  BY <1>1, <1>2, <1>3, <1>4 DEF IInv, LoopInv, RowInv, OneTaskPerSlot, DownInv

LEMMA ArmsKeeps ==
  ASSUME IInv, NEW d \in Delivery, Arms(d)
  PROVE  IInv'
<1>1. UNCHANGED <<dispatcher, phase, row, task, inflight, interrupted, kill>>
  BY DEF Arms, table, life, loop, runs
<1>2. TypeOK'
  BY DEF IInv, TypeOK, Arms, table, life, loop, runs, AgentPc
<1>3. OnePerKey'
  BY DEF IInv, OnePerKey, Arms, runs
<1>4. ServingInv'
  BY DEF IInv, ServingInv, Arms, life, runs, Active
<1> QED
  BY <1>1, <1>2, <1>3, <1>4 DEF IInv, LoopInv, RowInv, OneTaskPerSlot, DownInv

LEMMA AgentEndsKeeps ==
  ASSUME IInv, NEW d \in Delivery, AgentEnds(d)
  PROVE  IInv'
<1>1. UNCHANGED <<dispatcher, phase, row, task, inflight, interrupted, kill>>
  BY DEF AgentEnds, table, life, loop, runs
<1>2. TypeOK'
  <2>1. /\ NoAgent \in [pc: AgentPc, slot: Slot \cup {NoSlot}]
        /\ \A pc \in {"raised", "succeeded"} :
             [agent[d] EXCEPT !.pc = pc] \in [pc: AgentPc, slot: Slot \cup {NoSlot}]
    BY DEF IInv, TypeOK, NoAgent, AgentPc
  <2>2. agent' \in [Delivery -> [pc: AgentPc, slot: Slot \cup {NoSlot}]]
    BY <2>1 DEF IInv, TypeOK, AgentEnds
  <2>3. hooks' \subseteq Delivery /\ UNCHANGED <<table, life, loop, runs, cancelled, interrupted, kill>>
    BY DEF AgentEnds, IInv, TypeOK
  <2> QED
    BY <2>2, <2>3 DEF IInv, TypeOK, table, life, loop, runs
<1>3. OnePerKey'
  <2>1. UNCHANGED task /\ agent[d].pc # "none"
    BY DEF AgentEnds, runs
  <2>2. \A e \in Delivery \ {d} : agent'[e] = agent[e]
    BY DEF AgentEnds, IInv, TypeOK
  <2> QED
    BY <2>1, <2>2 DEF IInv, OnePerKey, Key
<1>4. ServingInv'
  <2>1. /\ UNCHANGED <<phase, inflight, task, interrupted, kill>>
        /\ agent[d].pc # "none" /\ UNCHANGED Active
    BY DEF AgentEnds, life, runs, Active
  <2>2. \A e \in Delivery :
          agent'[e].pc # "none" => agent[e].pc # "none" /\ agent'[e].slot = agent[e].slot
    BY <2>1 DEF AgentEnds, NoAgent, IInv, TypeOK
  <2> QED
    BY <2>1, <2>2 DEF IInv, ServingInv
<1> QED
  BY <1>1, <1>2, <1>3, <1>4 DEF IInv, LoopInv, RowInv, OneTaskPerSlot, DownInv

LEMMA SucceedsKeeps ==
  ASSUME IInv, NEW d \in Delivery, Succeeds(d)
  PROVE  IInv'
<1>1. TypeOK'
  <2>1. row' \in [Delivery -> RowType]
    BY WriteTypes DEF Succeeds, RowState, IInv
  <2>2. UNCHANGED <<life, loop, older, requests, inflight, kill>> /\ Leaves(d)
    BY DEF Succeeds
  <2> QED
    BY <2>1, <2>2, LeavesTypes DEF IInv, TypeOK, RowType, life, loop
<1>2. LoopInv'
  BY DEF IInv, LoopInv, Succeeds, Mark, Ended, Leaves, life, loop, Working
<1>3. RowInv'
  BY DEF IInv, TypeOK, RowInv, Succeeds, Mark, Leaves, life, loop, Working
<1>4. OneTaskPerSlot'
  BY DEF IInv, OneTaskPerSlot, Succeeds, Leaves
<1>5. OnePerKey'
  BY DEF IInv, OnePerKey, Succeeds, Ended, Leaves, Reap, Alive
<1>6. ServingInv'
  BY DEF IInv, ServingInv, Succeeds, Ended, Leaves, Reap, life, NoAgent, Active
<1>7. DownInv'
  BY DEF IInv, DownInv, Succeeds, Ended, life
<1> QED
  BY <1>1, <1>2, <1>3, <1>4, <1>5, <1>6, <1>7 DEF IInv

LEMMA FailsKeeps ==
  ASSUME IInv, NEW d \in Delivery, Fails(d)
  PROVE  IInv'
<1>1. TypeOK'
  <2>1. row' \in [Delivery -> RowType]
    <3>1. \/ UNCHANGED row \/ Mark(d, "failed") \/ ScheduleRetry(d)
      BY DEF Fails
    <3> QED
      BY <3>1, WriteTypes DEF RowState, IInv
  <2>2. UNCHANGED <<life, loop, older, requests, inflight, kill>> /\ Leaves(d)
    BY DEF Fails
  <2> QED
    BY <2>1, <2>2, LeavesTypes DEF IInv, TypeOK, RowType, life, loop
<1>2. LoopInv'
  BY DEF IInv, TypeOK, LoopInv, Fails, Mark, Ended, Leaves, ScheduleRetry, life, loop, Working
<1>3. RowInv'
  BY DEF IInv, TypeOK, RowInv, ServingInv, Fails, Mark, Leaves, ScheduleRetry, life, loop,
      Working
<1>4. OneTaskPerSlot'
  BY DEF IInv, OneTaskPerSlot, Fails, Leaves
<1>5. OnePerKey'
  BY DEF IInv, OnePerKey, Fails, Ended, Leaves, Reap, Alive
<1>6. ServingInv'
  BY DEF IInv, ServingInv, Fails, Ended, Leaves, Reap, life, NoAgent, Active
<1>7. DownInv'
  BY DEF IInv, DownInv, Fails, Ended, life
<1> QED
  BY <1>1, <1>2, <1>3, <1>4, <1>5, <1>6, <1>7 DEF IInv

LEMMA GivesUpKeeps ==
  ASSUME IInv, NEW d \in Delivery, GivesUp(d)
  PROVE  IInv'
<1>1. TypeOK'
  BY DEF IInv, TypeOK, GivesUp, Leaves, Reap, table, life, loop, TaskPc, AgentPc, NoAgent
<1>2. LoopInv'
  BY DEF IInv, LoopInv, GivesUp, Leaves, table, life, loop, Working
<1>3. RowInv'
  BY DEF IInv, RowInv, ServingInv, GivesUp, Leaves, table, life, Working
<1>4. OneTaskPerSlot'
  BY DEF IInv, OneTaskPerSlot, GivesUp, Leaves
<1>5. OnePerKey'
  BY DEF IInv, OnePerKey, GivesUp, Leaves, Reap, Alive
<1>6. ServingInv'
  BY DEF IInv, ServingInv, GivesUp, life
<1>7. DownInv'
  BY DEF IInv, DownInv, GivesUp, life
<1> QED
  BY <1>1, <1>2, <1>3, <1>4, <1>5, <1>6, <1>7 DEF IInv

LEMMA ReclaimsKeeps ==
  ASSUME IInv, NEW d \in Delivery, Reclaims(d)
  PROVE  IInv'
<1>1. TypeOK'
  <2>1. [task[d] EXCEPT !.pc = "releasing"] \in [pc: TaskPc, slot: Slot \cup {NoSlot}]
    BY DEF IInv, TypeOK, TaskPc
  <2>2. task' = [task EXCEPT ![d].pc = "releasing"] /\ UNCHANGED <<table, life, loop, marks, inflight, agent>>
    BY DEF Reclaims
  <2> QED
    BY <2>1, <2>2 DEF IInv, TypeOK, table, life, loop, marks
<1>2. LoopInv'
  BY DEF IInv, LoopInv, Reclaims, table, life, loop, Working
<1>3. RowInv'
  BY DEF IInv, RowInv, Reclaims, table, life, loop, Working
<1>4. OneTaskPerSlot'
  BY DEF IInv, OneTaskPerSlot, Reclaims
<1>5. OnePerKey'
  BY DEF IInv, OnePerKey, Reclaims
<1>6. ServingInv'
  BY DEF IInv, ServingInv, Reclaims, life, marks, Active
<1>7. DownInv'
  BY DEF IInv, DownInv, Reclaims, life
<1> QED
  BY <1>1, <1>2, <1>3, <1>4, <1>5, <1>6, <1>7 DEF IInv

LEMMA ReleasesKeeps ==
  ASSUME IInv, NEW d \in Delivery, Releases(d)
  PROVE  IInv'
<1>1. TypeOK'
  BY DEF IInv, TypeOK, Releases, table, life, loop, marks, TaskPc, NoTask
<1>2. LoopInv'
  BY DEF IInv, LoopInv, Releases, Locked, life, loop
<1>3. RowInv'
  BY DEF IInv, RowInv, Releases, table, life, loop, NoTask, Working
<1>4. OneTaskPerSlot'
  BY DEF IInv, OneTaskPerSlot, Releases, NoTask
<1>5. OnePerKey'
  BY DEF IInv, OnePerKey, Releases
<1>6. ServingInv'
  BY DEF IInv, TypeOK, OnePerKey, ServingInv, Releases, Active, life, marks, NoTask
<1>7. DownInv'
  BY DEF IInv, DownInv, Releases, life
<1> QED
  BY <1>1, <1>2, <1>3, <1>4, <1>5, <1>6, <1>7 DEF IInv

-----------------------------------------------------------------------------
(* The process.                                                            *)

LEMMA StartKeeps ==
  ASSUME IInv, Start
  PROVE  IInv'
<1>1. UNCHANGED task
  BY DEF Start, runs
<1>2. TypeOK'
  <2>1. row' \in [Delivery -> RowType]
    <3>1. ASSUME NEW e \in Delivery
          PROVE  [row[e] EXCEPT !.state = "queued", !.due = TRUE] \in RowType
      <4>1. row[e] \in RowType
        BY DEF IInv, TypeOK, RowType
      <4> QED
        BY <4>1 DEF RowType, RowState
    <3>2. row \in [Delivery -> RowType]
      BY DEF IInv, TypeOK, RowType
    <3>3. row' = [e \in Delivery |-> IF row[e].state = "running"
                                     THEN [row[e] EXCEPT !.state = "queued", !.due = TRUE]
                                     ELSE row[e]]
      BY DEF Start, ResetStuckRunning
    <3> QED
      BY <3>1, <3>2, <3>3
  <2>2. agent' \in [Delivery -> [pc: AgentPc, slot: Slot \cup {NoSlot}]]
    BY DEF Start, Survivors, NoAgent, AgentPc
  <2>3. /\ phase' = "serving" /\ boots' \in 0..MaxBoots
        /\ dispatcher' \in [pc: DispatcherPc, row: SUBSET Delivery]
        /\ UNCHANGED <<runs, marks, older, requests, wakeup>>
    BY BoundAssumption DEF Start, IInv, TypeOK, Dispatcher, DispatcherPc
  <2> QED
    BY <2>1, <2>2, <2>3 DEF IInv, TypeOK, RowType, runs, marks
<1>3. LoopInv'
  BY DEF IInv, LoopInv, Start, Dispatcher
<1>4. RowInv'
  <2>1. \A e \in Delivery : row'[e].state # "running"
    BY DEF Start, ResetStuckRunning, IInv, TypeOK
  <2>2. \A e \in Delivery : task'[e].pc = "none"
    BY DEF Start, runs, IInv, DownInv
  <2> QED
    BY <2>1, <2>2 DEF RowInv, Working
<1>5. OnePerKey'
  BY DEF IInv, OnePerKey, Start, Survivors, runs, NoAgent
<1>6. ServingInv'
  <2>1. /\ inflight' = {} /\ interrupted' = {} /\ kill' = {}
        /\ \A e \in Delivery : task'[e].pc = "none"
    BY DEF Start, runs, marks, IInv, DownInv
  <2>2. \A e \in Delivery : agent'[e].pc = "none"
    BY DEF Start, Survivors, NoAgent
  <2> QED
    BY <2>1, <2>2 DEF ServingInv, Active
<1>7. DownInv'
  BY DEF IInv, DownInv, Start
<1> QED
  BY <1>1, <1>2, <1>3, <1>4, <1>5, <1>6, <1>7 DEF IInv, OneTaskPerSlot

LEMMA BeginsStopKeeps ==
  ASSUME IInv, BeginsStop
  PROVE  IInv'
<1>1. UNCHANGED <<task, agent>>
  BY DEF BeginsStop, runs
<1>2. TypeOK'
  BY DEF IInv, TypeOK, BeginsStop, table, runs, marks, DispatcherPc, Dispatcher
<1>3. LoopInv'
  BY DEF IInv, LoopInv, BeginsStop, Dispatcher
<1>4. RowInv'
  BY DEF IInv, RowInv, BeginsStop, table, runs
<1>5. ServingInv'
  BY DEF IInv, ServingInv, BeginsStop
<1>6. DownInv'
  BY DEF IInv, DownInv, BeginsStop
<1> QED
  BY <1>1, <1>2, <1>3, <1>4, <1>5, <1>6 DEF IInv, OneTaskPerSlot, OnePerKey, Key

LEMMA DrainedKeeps ==
  ASSUME IInv, Drained
  PROVE  IInv'
<1>1. UNCHANGED <<task, agent>>
  BY DEF Drained, runs
<1>2. TypeOK'
  BY DEF IInv, TypeOK, Drained, table, loop, runs, marks
<1>3. LoopInv'
  BY DEF IInv, LoopInv, Drained, loop
<1>4. RowInv'
  BY DEF IInv, RowInv, Drained, table, runs
<1>5. ServingInv'
  BY DEF IInv, ServingInv, Drained
<1>6. DownInv'
  BY DEF IInv, DownInv, Drained
<1> QED
  BY <1>1, <1>2, <1>3, <1>4, <1>5, <1>6 DEF IInv, OneTaskPerSlot, OnePerKey, Key

LEMMA DrainTimesOutKeeps ==
  ASSUME IInv, DrainTimesOut
  PROVE  IInv'
<1>1. UNCHANGED <<task, agent>>
  BY DEF DrainTimesOut, runs
<1>2. TypeOK'
  BY DEF IInv, TypeOK, DrainTimesOut, Active, table, loop, runs
<1>3. LoopInv'
  BY DEF IInv, LoopInv, DrainTimesOut, loop
<1>4. RowInv'
  BY DEF IInv, RowInv, DrainTimesOut, table, runs
<1>5. ServingInv'
  BY DEF IInv, ServingInv, DrainTimesOut
<1>6. DownInv'
  BY DEF IInv, DownInv, DrainTimesOut
<1> QED
  BY <1>1, <1>2, <1>3, <1>4, <1>5, <1>6 DEF IInv, OneTaskPerSlot, OnePerKey, Key

\* stop() fires the hook of a task, lets its finally run, or just ends it.
LEMMA KillCases ==
  ASSUME NEW d \in Delivery, Kills(d)
  PROVE  \/ UNCHANGED <<task, cancelled>> /\ interrupted' = interrupted \cup {d} /\ Fire(d)
         \/ Leaves(d)
         \/ /\ task' \in {task, [task EXCEPT ![d].pc = "abandoned"], [task EXCEPT ![d] = NoTask]}
            /\ interrupted' \in {interrupted, interrupted \cup {d}}
            /\ UNCHANGED <<cancelled, hooks, agent>>
<1>1. CASE CancelsTask(d)
  BY <1>1 DEF CancelsTask
<1>2. CASE ~CancelsTask(d)
  BY <1>2 DEF Kills
<1> QED
  BY <1>1, <1>2

LEMMA KillsKeeps ==
  ASSUME IInv, NEW d \in Delivery, Kills(d)
  PROVE  IInv'
<1>1. TypeOK'
  <2>1. /\ cancelled' \subseteq Delivery /\ interrupted' \subseteq Delivery
        /\ hooks' \subseteq Delivery
        /\ task' \in [Delivery -> [pc: TaskPc, slot: Slot \cup {NoSlot}]]
        /\ agent' \in [Delivery -> [pc: AgentPc, slot: Slot \cup {NoSlot}]]
    <3>1. CASE UNCHANGED <<task, cancelled>> /\ interrupted' = interrupted \cup {d} /\ Fire(d)
      <4>1. [agent[d] EXCEPT !.pc = "stopping"] \in [pc: AgentPc, slot: Slot \cup {NoSlot}]
        BY DEF IInv, TypeOK, AgentPc
      <4> QED
        BY <3>1, <4>1 DEF Fire, IInv, TypeOK
    <3>2. CASE Leaves(d)
      BY <3>2, LeavesTypes DEF IInv
    <3>3. CASE /\ task' \in {task, [task EXCEPT ![d].pc = "abandoned"], [task EXCEPT ![d] = NoTask]}
               /\ interrupted' \in {interrupted, interrupted \cup {d}}
               /\ UNCHANGED <<cancelled, hooks, agent>>
      <4>1. /\ [task[d] EXCEPT !.pc = "abandoned"] \in [pc: TaskPc, slot: Slot \cup {NoSlot}]
            /\ NoTask \in [pc: TaskPc, slot: Slot \cup {NoSlot}]
        BY DEF IInv, TypeOK, NoTask, TaskPc
      <4> QED
        <5>1. task' \in [Delivery -> [pc: TaskPc, slot: Slot \cup {NoSlot}]]
          BY <3>3, <4>1 DEF IInv, TypeOK
        <5> QED
          BY <3>3, <5>1 DEF IInv, TypeOK
    <3> QED
      BY <3>1, <3>2, <3>3, KillCases
  <2>2. kill' \subseteq Delivery /\ UNCHANGED <<table, life, loop, inflight>>
    BY DEF Kills, IInv, TypeOK
  <2> QED
    BY <2>1, <2>2 DEF IInv, TypeOK, table, life, loop
<1>2. LoopInv'
  BY DEF IInv, LoopInv, Kills, loop
<1>3. RowInv'
  BY DEF IInv, TypeOK, RowInv, Kills, CancelsTask, Leaves, table, life, NoTask, Working
<1>4. OneTaskPerSlot'
  <2>1. \A e \in Delivery : task'[e].slot \in {task[e].slot, NoSlot}
    <3>1. CASE UNCHANGED task
      BY <3>1
    <3>2. CASE Leaves(d)
      BY <3>2 DEF Leaves, IInv, TypeOK
    <3>3. CASE task' \in {[task EXCEPT ![d].pc = "abandoned"], [task EXCEPT ![d] = NoTask]}
      <4>1. task \in [Delivery -> [pc: TaskPc, slot: Slot \cup {NoSlot}]] /\ NoTask.slot = NoSlot
        BY DEF IInv, TypeOK, NoTask
      <4> QED
        BY <3>3, <4>1
    <3> QED
      BY <3>1, <3>2, <3>3, KillCases
  <2> QED
    BY <2>1 DEF IInv, OneTaskPerSlot
<1>5. OnePerKey'
  <2>1. \A e \in Delivery :
          /\ task'[e].pc # "none" => task[e].pc # "none"
          /\ agent'[e].pc # "none" => agent[e].pc # "none"
    BY DEF Kills, CancelsTask, Leaves, Reap, Fire, Alive, NoTask, NoAgent, IInv, TypeOK
  <2> QED
    BY <2>1 DEF IInv, OnePerKey, Key
<1>6. ServingInv'
  BY DEF IInv, ServingInv, Kills, life
<1>7. DownInv'
  BY DEF IInv, DownInv, Kills, life
<1> QED
  BY <1>1, <1>2, <1>3, <1>4, <1>5, <1>6, <1>7 DEF IInv

LEMMA StopReturnsKeeps ==
  ASSUME IInv, StopReturns
  PROVE  IInv'
<1>1. UNCHANGED <<task, agent>>
  BY DEF StopReturns, runs
<1>2. TypeOK'
  BY DEF IInv, TypeOK, StopReturns, table, loop, runs, marks
<1>3. LoopInv'
  BY DEF IInv, LoopInv, StopReturns, loop
<1>4. RowInv'
  BY DEF IInv, RowInv, StopReturns, table, runs
<1>5. ServingInv'
  BY DEF IInv, ServingInv, StopReturns
<1>6. DownInv'
  BY DEF IInv, DownInv, StopReturns
<1> QED
  BY <1>1, <1>2, <1>3, <1>4, <1>5, <1>6 DEF IInv, OneTaskPerSlot, OnePerKey, Key

LEMMA ExitsKeeps ==
  ASSUME IInv, Exits
  PROVE  IInv'
<1>1. TypeOK'
  BY EndKeepsTypes DEF Exits, IInv
<1>2. LoopInv'
  BY DEF IInv, LoopInv, Exits, ProcessEnds, Dispatcher
<1>3. RowInv'
  BY DEF IInv, RowInv, Exits, ProcessEnds, NoTask, Working
<1>4. OneTaskPerSlot'
  BY DEF IInv, OneTaskPerSlot, Exits, ProcessEnds, NoTask
<1>5. OnePerKey'
  BY EndKeepsKeys DEF Exits, IInv
<1>6. ServingInv'
  BY DEF IInv, ServingInv, Exits, ProcessEnds
<1>7. DownInv'
  BY DEF IInv, DownInv, Exits, ProcessEnds, NoTask
<1> QED
  BY <1>1, <1>2, <1>3, <1>4, <1>5, <1>6, <1>7 DEF IInv

LEMMA CrashesKeeps ==
  ASSUME IInv, Crashes
  PROVE  IInv'
<1>1. TypeOK'
  BY EndKeepsTypes DEF Crashes, IInv
<1>2. LoopInv'
  BY DEF IInv, LoopInv, Crashes, ProcessEnds, Dispatcher
<1>3. RowInv'
  BY DEF IInv, RowInv, Crashes, ProcessEnds, NoTask, Working
<1>4. OneTaskPerSlot'
  BY DEF IInv, OneTaskPerSlot, Crashes, ProcessEnds, NoTask
<1>5. OnePerKey'
  BY EndKeepsKeys DEF Crashes, IInv
<1>6. ServingInv'
  BY DEF IInv, ServingInv, Crashes, ProcessEnds
<1>7. DownInv'
  BY DEF IInv, DownInv, Crashes, ProcessEnds, NoTask
<1> QED
  BY <1>1, <1>2, <1>3, <1>4, <1>5, <1>6, <1>7 DEF IInv

-----------------------------------------------------------------------------
(* The specification.                                                      *)

\* The invariant holds at first ...
LEMMA InitInv ==
  ASSUME Init
  PROVE  IInv
<1>1. TypeOK
  <2>1. NoRow \in RowType
    BY BoundAssumption DEF NoRow, RowType, RowState
  <2>2. row \in [Delivery -> RowType]
    BY <2>1 DEF Init
  <2>3. /\ task \in [Delivery -> [pc: TaskPc, slot: Slot \cup {NoSlot}]]
        /\ agent \in [Delivery -> [pc: AgentPc, slot: Slot \cup {NoSlot}]]
        /\ dispatcher \in [pc: DispatcherPc, row: SUBSET Delivery]
    BY DEF Init, NoTask, NoAgent, Dispatcher, TaskPc, AgentPc, DispatcherPc
  <2>4. /\ older = {} /\ requests = 0 /\ boots = 0 /\ phase = "down" /\ wakeup \in BOOLEAN
        /\ inflight = {} /\ cancelled = {} /\ interrupted = {} /\ hooks = {} /\ kill = {}
    BY DEF Init
  <2> QED
    BY <2>2, <2>3, <2>4, BoundAssumption DEF TypeOK, RowType
<1>2. /\ phase = "down" /\ inflight = {} /\ interrupted = {} /\ kill = {}
      /\ dispatcher.pc = "halted" /\ dispatcher.row = {}
      /\ \A d \in Delivery : task[d] = NoTask /\ agent[d] = NoAgent
  BY DEF Init, Dispatcher
<1> QED
  BY <1>1, <1>2 DEF IInv, LoopInv, RowInv, OneTaskPerSlot, OnePerKey, ServingInv, DownInv,
                    Working, NoTask, NoAgent

LEMMA RunStepKeeps ==
  ASSUME IInv, NEW d \in Delivery, RunStep(d)
  PROVE  IInv'
<1>1. CASE \E s \in Slot : TakesSlot(d, s)
  BY <1>1, TakesSlotKeeps
<1>2. CASE StartsAgent(d) \/ Spawns(d) \/ LooksForCancel(d) \/ Arms(d) \/ AgentEnds(d)
  BY <1>2, StartsAgentKeeps, SpawnsKeeps, LooksForCancelKeeps, ArmsKeeps, AgentEndsKeeps
<1>3. CASE Succeeds(d) \/ Fails(d) \/ GivesUp(d) \/ Reclaims(d) \/ Releases(d)
  BY <1>3, SucceedsKeeps, FailsKeeps, GivesUpKeeps, ReclaimsKeeps, ReleasesKeeps
<1> QED
  BY <1>1, <1>2, <1>3 DEF RunStep

LEMMA DispatchStepKeeps ==
  ASSUME IInv, DispatchStep
  PROVE  IInv'
<1>1. CASE \E d \in Delivery : Claims(d) \/ Dispatches(d) \/ PutsBack(d)
  BY <1>1, ClaimsKeeps, DispatchesKeeps, PutsBackKeeps
<1>2. CASE FindsNothing \/ PauseEnds \/ Waits \/ LooksAgain
  BY <1>2, FindsNothingKeeps, PauseEndsKeeps, WaitsKeeps, LooksAgainKeeps
<1> QED
  BY <1>1, <1>2 DEF DispatchStep

LEMMA StopStepKeeps ==
  ASSUME IInv, StopStep
  PROVE  IInv'
BY StartKeeps, BeginsStopKeeps, DrainedKeeps, DrainTimesOutKeeps, KillsKeeps, StopReturnsKeeps,
   ExitsKeeps, CrashesKeeps DEF StopStep

\* ... and every step keeps it.
LEMMA StepKeeps ==
  ASSUME IInv, [Next]_vars
  PROVE  IInv'
<1>1. CASE \E d \in Delivery : \/ Record(d) \/ Replay(d) \/ ManualTriage(d)
                                \/ Cancel(d) \/ RetryIsDue(d)
  BY <1>1, RecordKeeps, ReplayKeeps, ManualTriageKeeps, CancelKeeps, RetryIsDueKeeps
<1>2. CASE \E d \in Delivery : RunStep(d)
  BY <1>2, RunStepKeeps
<1>3. CASE DispatchStep
  BY <1>3, DispatchStepKeeps
<1>4. CASE StopStep
  BY <1>4, StopStepKeeps
<1>5. CASE UNCHANGED vars
  BY <1>5 DEF vars, table, life, loop, runs, marks, IInv, TypeOK, LoopInv, RowInv,
              OneTaskPerSlot, OnePerKey, Key, ServingInv, Active, DownInv
<1> QED
  BY <1>1, <1>2, <1>3, <1>4, <1>5 DEF Next

\* The picture of the queue that the other theorems rest on holds in every state.
THEOREM QueueInvariant == Spec => []IInv
<1>1. Init => IInv
  BY InitInv
<1>2. IInv /\ [Next]_vars => IInv'
  BY StepKeeps
<1> QED
  BY <1>1, <1>2, PTL DEF Spec

\* The variables keep their types.
THEOREM QueueTypeCorrect == Spec => []TypeOK
<1>1. IInv => TypeOK
  BY DEF IInv
<1> QED
  BY <1>1, QueueInvariant, PTL

\* No two runs hold a slot, and no agent runs under a slot its run does not hold.
THEOREM SlotsAreClean == Spec => []SlotIsClean
<1>1. IInv => SlotIsClean
  BY DEF IInv, OneTaskPerSlot, ServingInv, SlotIsClean, Alive
<1> QED
  BY <1>1, QueueInvariant, PTL

\* While the process serves, no running row and no key in flight is left over.
THEOREM NothingGetsStuck == Spec => []NothingIsStuck
<1>1. IInv => NothingIsStuck
  BY DEF IInv, RowInv, ServingInv, NothingIsStuck, Active, Working
<1> QED
  BY <1>1, QueueInvariant, PTL

\* One run and one agent process per issue, crashes and survivors included.
THEOREM IssueHasOneRun == Spec => []OneRunPerIssue
<1>1. IInv => OneRunPerIssue
  BY DEF IInv, OnePerKey, ServingInv, OneRunPerIssue, Active, Alive
<1> QED
  BY <1>1, QueueInvariant, PTL

\* Only the run itself writes the row it works on: it is running, and nothing that queues
\* a row again accepts a running one.
THEOREM RunKeepsItsRow == Spec => RunOwnsItsRow
<1>1. IInv => [\A d \in Delivery : d \in Active /\ row'[d] # row[d] => row[d].state = "running"
                                   \/ task[d].pc \in Finishing]_vars
  BY DEF IInv, TypeOK, TaskPc, RowInv, Active, Working, Finishing
<1> QED
  BY <1>1, QueueInvariant, PTL DEF RunOwnsItsRow, Finishing

\* Only the end of a run takes its cancel mark away while the process serves.
LEMMA CancelEnds ==
  ASSUME IInv, [Next]_vars, NEW d \in cancelled, d \notin cancelled',
         phase = "serving", phase' = "serving"
  PROVE  d \in Delivery /\ (Succeeds(d) \/ Fails(d))
<1>1. d \in Delivery
  BY DEF IInv, TypeOK
<1>2. \E e \in Delivery : Succeeds(e) \/ Fails(e) \/ GivesUp(e)
  <2> SUFFICES ASSUME ~(cancelled \subseteq cancelled'), phase = "serving", phase' = "serving"
               PROVE  \E e \in Delivery : Succeeds(e) \/ Fails(e) \/ GivesUp(e)
    OBVIOUS
  <2>1. ASSUME NEW e \in Delivery,
               Record(e) \/ Replay(e) \/ ManualTriage(e) \/ Cancel(e) \/ RetryIsDue(e)
        PROVE  cancelled \subseteq cancelled'
    BY <2>1 DEF Record, Replay, ManualTriage, Cancel, RetryIsDue, marks
  <2>2. ASSUME NEW e \in Delivery, RunStep(e), ~(Succeeds(e) \/ Fails(e) \/ GivesUp(e))
        PROVE  UNCHANGED cancelled
    BY <2>2 DEF RunStep, TakesSlot, StartsAgent, Spawns, LooksForCancel, Arms, AgentEnds,
                Reclaims, Releases, marks
  <2>3. DispatchStep => UNCHANGED cancelled
    BY DEF DispatchStep, Claims, Dispatches, PutsBack, FindsNothing, PauseEnds, Waits,
           LooksAgain, marks
  <2>4. StopStep => UNCHANGED cancelled
    BY DEF StopStep, Start, BeginsStop, Drained, DrainTimesOut, Kills, StopReturns, Exits,
           Crashes, ProcessEnds, marks
  <2>5. UNCHANGED vars => UNCHANGED cancelled
    BY DEF vars, marks
  <2> QED
    BY <2>1, <2>2, <2>3, <2>4, <2>5 DEF Next
<1>3. PICK e \in Delivery : Succeeds(e) \/ Fails(e) \/ GivesUp(e)
  BY <1>2
<1>4. ~GivesUp(e)
  BY DEF GivesUp, IInv, ServingInv
<1>5. Leaves(e)
  BY <1>3 DEF Succeeds, Fails, GivesUp
<1>6. e = d
  BY <1>5 DEF Leaves
<1> QED
  BY <1>1, <1>3, <1>4, <1>6

\* An accepted cancel makes the event end as failed.
THEOREM CancelIsHonoured == Spec => CancelSticks
<1>1. ASSUME IInv, [Next]_vars, NEW d \in cancelled, d \notin cancelled',
             phase = "serving", phase' = "serving"
      PROVE  row'[d].state = "failed"
  <2>1. d \in Delivery /\ (Succeeds(d) \/ Fails(d))
    BY <1>1, CancelEnds
  <2>2. Succeeds(d) => Mark(d, "failed")
    BY <1>1 DEF Succeeds
  <2>3. Fails(d) => Mark(d, "failed")
    <3>1. d \notin interrupted /\ ~Retries(d)
      BY <1>1 DEF IInv, ServingInv, Retries
    <3> QED
      BY <3>1 DEF Fails
  <2>4. Mark(d, "failed")
    BY <2>1, <2>2, <2>3
  <2> QED
    BY <1>1, <2>1, <2>4 DEF Mark, IInv, TypeOK
<1>2. IInv /\ [Next]_vars =>
        [\A d \in cancelled : d \notin cancelled' /\ phase = "serving" /\ phase' = "serving"
           => row'[d].state = "failed"]_vars
  BY <1>1
<1> QED
  BY <1>2, QueueInvariant, PTL DEF CancelSticks, Spec
===============================================================================
