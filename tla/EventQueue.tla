------------------------------ MODULE EventQueue ------------------------------
(***************************************************************************)
(* The durable event queue of robomp (python/robomp/src): the rows of the  *)
(* events table (db.py), the worker pool that drains them (queue.py), the  *)
(* slots a run borrows (slot_pool.py), the cancel hook of a run            *)
(* (cancellation.py, worker.py) and the requests that touch a row          *)
(* (server.py, cli.py, manual_triage.py).                                  *)
(*                                                                         *)
(* Rows survive the process; everything else dies with it, except that an  *)
(* agent process may outlive a crash.  Coroutines share one event loop and *)
(* an action is the code between two awaits; database calls made in a      *)
(* thread, workspace operations and the thread that drives an agent are    *)
(* actions of their own.                                                   *)
(*                                                                         *)
(* The pool is the one of a container (running as root): a run needs a     *)
(* slot UID and start() kills what still runs under one.  Left out: a      *)
(* database or slot-reaping call that raises, the work of a handler before *)
(* and after its agent beyond one step each, the natives cache, a second   *)
(* agent turn in one event.                                                *)
(***************************************************************************)
EXTENDS Naturals, FiniteSets

CONSTANTS Delivery,     \* delivery ids of events
          Issue,        \* issue keys
          IssueOf,      \* the issue an event is about
          NoIssue,      \* ... or none
          Slot,         \* slot UIDs
          NoSlot,
          MaxRetries,   \* settings.event_max_retries
          MaxRequests,  \* bound: operator requests that queue an event again
          MaxBoots      \* bound: starts of the process

ASSUME IssueAssumption == IssueOf \in [Delivery -> Issue \cup {NoIssue}]
ASSUME NilAssumption == NoIssue \notin Issue /\ NoSlot \notin Slot
ASSUME BoundAssumption == MaxRetries \in Nat /\ MaxRequests \in Nat /\ MaxBoots \in Nat
ASSUME KeyAssumption == Issue \cap Delivery = {}

VARIABLES
  row,         \* the events table
  older,       \* the order of received_at: <<d, e>> when d came before e
  requests, boots,   \* counted against their bounds
  phase,       \* the process, from its start to its end
  dispatcher,  \* the dispatch loop and the row it has just claimed
  wakeup,      \* the _wakeup event
  inflight,    \* _inflight, the keys of the running tasks
  task,        \* the _run_event task of each delivery and the slot it holds
  cancelled,   \* _cancelled
  interrupted, \* _shutdown_cancelled
  hooks,       \* deliveries in _cancel_hooks
  kill,        \* still_running of stop(), as far as its loop has not got
  agent        \* the thread driving an agent, and the slot the agent runs under

table == <<row, older, requests>>
life  == <<boots, phase>>
loop  == <<dispatcher, wakeup>>
runs  == <<inflight, task>>
marks == <<cancelled, interrupted, hooks, kill>>
vars  == <<table, life, loop, runs, marks, agent>>

Key(d) == IF IssueOf[d] = NoIssue THEN d ELSE IssueOf[d]

RowState == {"absent", "queued", "running", "done", "failed", "skipped"}
Inactive == {"done", "failed", "skipped"}

\* "got": claimed and not yet looked up in _inflight; "paused": asleep after putting a
\* row back.  Both hold _inflight_lock.  "empty": told that nothing is queued.
DispatcherPc == {"halted", "looking", "got", "paused", "empty", "waiting"}

\* A killed task waits in "abandoned" for the workspace operation it had begun.
TaskPc == {"none", "slot", "preparing", "agent", "abandoned", "reclaiming", "releasing"}

\* "starting": inside RpcClient.__enter__; "spawned", "arming": its process runs, no hook
\* is armed; "stopping": the hook fired; "succeeded", "raised": the thread has returned;
\* "orphan": the robomp process that started it is gone.
AgentPc == {"none", "starting", "spawned", "arming", "armed", "stopping", "succeeded", "raised", "orphan"}
Alive   == {"spawned", "arming", "armed", "stopping", "orphan"}

NoTask  == [pc |-> "none", slot |-> NoSlot]
NoAgent == [pc |-> "none", slot |-> NoSlot]
NoRow   == [state |-> "absent", attempts |-> 0, due |-> TRUE]

TypeOK ==
  /\ row \in [Delivery -> [state: RowState, attempts: 0..(MaxRetries + 1), due: BOOLEAN]]
  /\ older \subseteq Delivery \X Delivery /\ requests \in 0..MaxRequests /\ boots \in 0..MaxBoots
  /\ phase \in {"down", "serving", "draining", "killing", "stopped"}
  /\ dispatcher \in [pc: DispatcherPc, row: SUBSET Delivery]
  /\ wakeup \in BOOLEAN
  /\ inflight \subseteq {Key(d) : d \in Delivery}
  /\ task \in [Delivery -> [pc: TaskPc, slot: Slot \cup {NoSlot}]]
  /\ cancelled \subseteq Delivery /\ interrupted \subseteq Delivery
  /\ hooks \subseteq Delivery /\ kill \subseteq Delivery
  /\ agent \in [Delivery -> [pc: AgentPc, slot: Slot \cup {NoSlot}]]

Dispatcher(pc, D) == [pc |-> pc, row |-> D]

Init ==
  /\ row = [d \in Delivery |-> NoRow]
  /\ older = {} /\ requests = 0 /\ boots = 0
  /\ phase = "down"
  /\ dispatcher = Dispatcher("halted", {}) /\ wakeup = FALSE
  /\ inflight = {} /\ task = [d \in Delivery |-> NoTask]
  /\ cancelled = {} /\ interrupted = {} /\ hooks = {} /\ kill = {}
  /\ agent = [d \in Delivery |-> NoAgent]

Active    == {d \in Delivery : task[d].pc # "none"}
Locked    == dispatcher.pc \in {"got", "paused"}

\* Mutant: a slot counts as checked out only once its agent runs.
FreeUntilAgent == Slot \ {task[d].slot : d \in {e \in Delivery : task[e].pc = "agent"}}

\* The _available queue of the slot pool.
FreeSlots == Slot \ {task[d].slot : d \in Delivery}
-----------------------------------------------------------------------------
(* The events table.  Each operator is one statement or transaction.       *)

\* The attempts counter is only compared with the retry budget.
Bump(n) == IF n > MaxRetries THEN n ELSE n + 1

\* The row is written anew, behind all the others.
Insert(d, state) ==
  /\ row' = [row EXCEPT ![d] = [NoRow EXCEPT !.state = state]]
  /\ older' = {p \in older : p[1] # d}
              \cup {<<e, d>> : e \in {e \in Delivery \ {d} : row[e].state # "absent"}}

\* mark_event
Mark(d, state) == row' = [row EXCEPT ![d].state = state]

\* requeue_event; the attempts stay.
Requeue(d) == row' = [row EXCEPT ![d].state = "queued", ![d].due = TRUE]

\* The WHERE clause of claim_next_event.
Claimable(d) ==
  /\ row[d].state = "queued" /\ row[d].due
  /\ IssueOf[d] = NoIssue
     \/ \A e \in Delivery : row[e].state = "running" => IssueOf[e] # IssueOf[d]

Oldest(d) == \A e \in Delivery : Claimable(e) => <<e, d>> \notin older

-----------------------------------------------------------------------------
(* Requests: the webhook, and operators that queue an event again.  The    *)
(* command line writes the database of a process that is not running too,  *)
(* and wakes nobody.                                                       *)

\* record_event for a new delivery; a repeated one is ignored.
Record(d) ==
  /\ phase = "serving" /\ row[d].state = "absent"
  /\ \/ Insert(d, "queued") /\ wakeup' = TRUE
     \/ Insert(d, "skipped") /\ UNCHANGED wakeup
  /\ UNCHANGED <<life, runs, marks, requests, dispatcher, agent>>

Wakes == \/ phase = "serving" /\ wakeup' = TRUE
         \/ UNCHANGED wakeup

\* Mutant: a replay does not look at the state of the row.
ReplayAnyState(d) ==
  /\ row[d].state # "absent" /\ requests < MaxRequests
  /\ Requeue(d) /\ requests' = requests + 1 /\ Wakes
  /\ UNCHANGED <<life, runs, marks, older, dispatcher, agent>>

\* /replay, /api/trigger in mode retry, robomp replay.
Replay(d) ==
  /\ row[d].state \in Inactive /\ requests < MaxRequests
  /\ Requeue(d) /\ requests' = requests + 1 /\ Wakes
  /\ UNCHANGED <<life, runs, marks, older, dispatcher, agent>>

\* enqueue_manual_triage replaces the row: its attempts start again, behind the others.
ManualTriage(d) ==
  /\ row[d].state \in Inactive \cup {"absent"} /\ requests < MaxRequests
  /\ Insert(d, "queued") /\ requests' = requests + 1 /\ Wakes
  /\ UNCHANGED <<life, runs, marks, dispatcher, agent>>

\* The hook stops the agent from a thread of its own.
Fire(d) ==
  /\ hooks' = hooks \ {d}
  /\ agent' = IF d \in hooks /\ agent[d].pc = "armed"
              THEN [agent EXCEPT ![d].pc = "stopping"] ELSE agent

\* /api/cancel and cancel_event.
Cancel(d) ==
  /\ phase = "serving" /\ row[d].state = "running"
  /\ cancelled' = cancelled \cup {d}
  /\ Fire(d)
  /\ UNCHANGED <<table, life, loop, runs, interrupted, kill>>

\* available_at of a scheduled retry is reached.
RetryIsDue(d) ==
  /\ row[d].state = "queued" /\ ~row[d].due
  /\ row' = [row EXCEPT ![d].due = TRUE]
  /\ UNCHANGED <<life, loop, runs, marks, older, requests, agent>>

-----------------------------------------------------------------------------
(* The dispatch loop.                                                      *)

\* claim_next_event, in a thread, while the loop holds _inflight_lock.
Claims(d) ==
  /\ dispatcher.pc = "looking" /\ Claimable(d) /\ Oldest(d)
  /\ row' = [row EXCEPT ![d].state = "running", ![d].attempts = Bump(@)]
  /\ dispatcher' = Dispatcher("got", {d})
  /\ UNCHANGED <<life, runs, marks, older, requests, wakeup, agent>>

FindsNothing ==
  /\ dispatcher.pc = "looking" /\ \A d \in Delivery : ~Claimable(d)
  /\ dispatcher' = Dispatcher("empty", {})
  /\ UNCHANGED <<table, life, runs, marks, wakeup, agent>>

\* Mutant: the delivery id is recorded in place of the issue key.
DispatchesById(d) ==
  /\ dispatcher = Dispatcher("got", {d}) /\ Key(d) \notin inflight
  /\ inflight' = inflight \cup {d}
  /\ task' = [task EXCEPT ![d] = [pc |-> "slot", slot |-> NoSlot]]
  /\ dispatcher' = Dispatcher("looking", {})
  /\ UNCHANGED <<table, life, marks, wakeup, agent>>

\* Mutant: the in-flight keys are not consulted.
DispatchesAnyKey(d) ==
  /\ dispatcher = Dispatcher("got", {d})
  /\ inflight' = inflight \cup {Key(d)}
  /\ task' = [task EXCEPT ![d] = [pc |-> "slot", slot |-> NoSlot]]
  /\ dispatcher' = Dispatcher("looking", {})
  /\ UNCHANGED <<table, life, marks, wakeup, agent>>

\* The row becomes a task: the rest of _claim_next_unique and of the loop's body.
Dispatches(d) ==
  /\ dispatcher = Dispatcher("got", {d}) /\ Key(d) \notin inflight
  /\ inflight' = inflight \cup {Key(d)}
  /\ task' = [task EXCEPT ![d] = [pc |-> "slot", slot |-> NoSlot]]
  /\ dispatcher' = Dispatcher("looking", {})
  /\ UNCHANGED <<table, life, marks, wakeup, agent>>

\* Mutant: the row is dropped instead of put back.
PutsNothingBack(d) ==
  /\ dispatcher = Dispatcher("got", {d}) /\ Key(d) \in inflight
  /\ dispatcher' = Dispatcher("paused", {})
  /\ UNCHANGED <<table, life, runs, marks, wakeup, agent>>

\* A task of the same issue has not released its key yet.
PutsBack(d) ==
  /\ dispatcher = Dispatcher("got", {d}) /\ Key(d) \in inflight
  /\ Requeue(d)
  /\ dispatcher' = Dispatcher("paused", {})
  /\ UNCHANGED <<life, runs, marks, older, requests, wakeup, agent>>

PauseEnds ==
  /\ dispatcher.pc = "paused"
  /\ dispatcher' = Dispatcher("empty", {})
  /\ UNCHANGED <<table, life, runs, marks, wakeup, agent>>

\* A wake-up since the claim is lost here.
Waits ==
  /\ dispatcher.pc = "empty"
  /\ dispatcher' = Dispatcher("waiting", {}) /\ wakeup' = FALSE
  /\ UNCHANGED <<table, life, runs, marks, agent>>

\* Mutant: the wait has no timeout.
LooksAgainWhenWoken ==
  /\ dispatcher.pc = "waiting" /\ wakeup
  /\ dispatcher' = Dispatcher("looking", {})
  /\ UNCHANGED <<table, life, runs, marks, wakeup, agent>>

\* Woken, or after ten seconds.
LooksAgain ==
  /\ dispatcher.pc = "waiting"
  /\ dispatcher' = Dispatcher("looking", {})
  /\ UNCHANGED <<table, life, runs, marks, wakeup, agent>>

DispatchStep ==
  \/ \E d \in Delivery : Claims(d) \/ Dispatches(d) \/ PutsBack(d)
  \/ FindsNothing \/ PauseEnds \/ Waits \/ LooksAgain

-----------------------------------------------------------------------------
(* One event: _run_event, its handler and the agent it drives.             *)

TakesSlot(d, s) ==
  /\ task[d].pc = "slot" /\ s \in FreeSlots
  /\ task' = [task EXCEPT ![d] = [pc |-> "preparing", slot |-> s]]
  /\ UNCHANGED <<table, life, loop, marks, inflight, agent>>

\* The workspace is ready; run_task starts the thread that drives the agent.
StartsAgent(d) ==
  /\ task[d].pc = "preparing"
  /\ task' = [task EXCEPT ![d].pc = "agent"]
  /\ agent' = [agent EXCEPT ![d] = [pc |-> "starting", slot |-> task[d].slot]]
  /\ UNCHANGED <<table, life, loop, marks, inflight>>

\* The thread: the agent's process is up ...
Spawns(d) ==
  /\ agent[d].pc = "starting"
  /\ agent' = [agent EXCEPT ![d].pc = "spawned"]
  /\ UNCHANGED <<table, life, loop, runs, marks>>

\* ... and register_cancel_hook looks whether a cancel came before it (_arm_cancel).
LooksForCancel(d) ==
  /\ agent[d].pc = "spawned"
  /\ agent' = [agent EXCEPT ![d].pc = IF d \in cancelled THEN "stopping" ELSE "arming"]
  /\ UNCHANGED <<table, life, loop, runs, marks>>

\* The thread and the event loop interleave between the look and this step.
Arms(d) ==
  /\ agent[d].pc = "arming"
  /\ hooks' = hooks \cup {d}
  /\ agent' = [agent EXCEPT ![d].pc = "armed"]
  /\ UNCHANGED <<table, life, loop, runs, cancelled, interrupted, kill>>

\* The thread returns or raises, at the latest at its hard timeout.  A thread whose task
\* was cancelled tells nobody.
AgentEnds(d) ==
  /\ agent[d].pc \in {"starting", "armed", "stopping"}
  /\ hooks' = hooks \ {d}
  /\ IF task[d].pc # "agent" THEN agent' = [agent EXCEPT ![d] = NoAgent]
     ELSE \/ agent' = [agent EXCEPT ![d].pc = "raised"]
          \/ agent[d].pc # "starting" /\ agent' = [agent EXCEPT ![d].pc = "succeeded"]
  /\ UNCHANGED <<table, life, loop, runs, cancelled, interrupted, kill>>

\* _reap_slot kills what runs under the slot; a thread without a process yet goes on.
Reap(d) ==
  [e \in Delivery |->
     IF \/ agent[e].pc \in Alive /\ agent[e].slot = task[d].slot
        \/ e = d /\ agent[d].pc # "starting"
     THEN NoAgent ELSE agent[e]]

\* The synchronous part of the finally: the slot is reaped and given back.
Leaves(d) ==
  /\ cancelled' = cancelled \ {d} /\ interrupted' = interrupted \ {d} /\ hooks' = hooks \ {d}
  /\ agent' = Reap(d)
  /\ task' = [task EXCEPT ![d] = [slot |-> NoSlot, pc |->
       IF phase = "serving" /\ IssueOf[d] # NoIssue THEN "reclaiming" ELSE "releasing"]]

\* Some events need no agent: their handler ends without one.
Ended(d, pc) == \/ task[d].pc = "preparing"
                \/ task[d].pc = "agent" /\ agent[d].pc = pc

Succeeds(d) ==
  /\ Ended(d, "succeeded")
  /\ Mark(d, IF d \in cancelled THEN "failed" ELSE "done")
  /\ Leaves(d)
  /\ UNCHANGED <<life, loop, older, requests, inflight, kill>>

\* Mutant: a cancelled event is retried like any other.
RetriesCancelled(d) == d \notin interrupted /\ row[d].attempts \in 1..MaxRetries

\* An exception is retried unless the operator cancelled or stop() interrupted the event.
Retries(d) == d \notin interrupted \cup cancelled /\ row[d].attempts \in 1..MaxRetries

\* schedule_retry: available_at is in the future, the attempts stay.
ScheduleRetry(d) == row' = [row EXCEPT ![d].state = "queued", ![d].due = FALSE]

Fails(d) ==
  /\ Ended(d, "raised")
  /\ \/ d \in interrupted /\ UNCHANGED row
     \/ Retries(d) /\ row[d].state \in {"running", "failed"} /\ ScheduleRetry(d)
     \/ d \notin interrupted /\ ~(Retries(d) /\ row[d].state \in {"running", "failed"})
        /\ Mark(d, "failed")
  /\ Leaves(d)
  /\ UNCHANGED <<life, loop, older, requests, inflight, kill>>

\* The workspace operation is over: the CancelledError goes on to the finally.
GivesUp(d) ==
  /\ task[d].pc = "abandoned"
  /\ Leaves(d)
  /\ UNCHANGED <<table, life, loop, inflight, kill>>

\* _reclaim_event_caches
Reclaims(d) ==
  /\ task[d].pc = "reclaiming"
  /\ task' = [task EXCEPT ![d].pc = "releasing"]
  /\ UNCHANGED <<table, life, loop, marks, inflight, agent>>

\* _release
Releases(d) ==
  /\ task[d].pc = "releasing" /\ ~Locked
  /\ inflight' = inflight \ {Key(d)}
  /\ task' = [task EXCEPT ![d] = NoTask]
  /\ UNCHANGED <<table, life, loop, marks, agent>>

RunStep(d) ==
  \/ \E s \in Slot : TakesSlot(d, s)
  \/ StartsAgent(d) \/ Spawns(d) \/ LooksForCancel(d) \/ Arms(d) \/ AgentEnds(d)
  \/ Succeeds(d) \/ Fails(d) \/ GivesUp(d) \/ Reclaims(d) \/ Releases(d)

-----------------------------------------------------------------------------
(* The process: start, stop and crash.                                     *)

\* _reap_all_slots
Survivors == [d \in Delivery |-> NoAgent]

\* reset_stuck_running
ResetStuckRunning ==
  row' = [d \in Delivery |-> IF row[d].state = "running"
                             THEN [row[d] EXCEPT !.state = "queued", !.due = TRUE] ELSE row[d]]

Start ==
  /\ phase = "down" /\ boots < MaxBoots
  /\ agent' = Survivors
  /\ ResetStuckRunning
  /\ phase' = "serving" /\ boots' = boots + 1
  /\ dispatcher' = Dispatcher("looking", {})
  /\ UNCHANGED <<runs, marks, older, requests, wakeup>>

\* stop(): no new claims; a row the loop had just claimed stays running.
BeginsStop ==
  /\ phase = "serving" /\ boots < MaxBoots
  /\ phase' = "draining" /\ wakeup' = TRUE
  /\ dispatcher' = Dispatcher("halted", {})
  /\ UNCHANGED <<table, runs, marks, boots, agent>>

Drained ==
  /\ phase = "draining" /\ Active = {}
  /\ phase' = "stopped"
  /\ UNCHANGED <<table, loop, runs, marks, boots, agent>>

DrainTimesOut ==
  /\ phase = "draining" /\ Active # {}
  /\ phase' = "killing" /\ kill' = Active
  /\ UNCHANGED <<table, loop, runs, boots, cancelled, interrupted, hooks, agent>>

\* task.cancel(), by what the task awaits; the finally of a task without agent, or whose
\* thread it no longer waits for, runs at once, and one that is in its finally just stops.
CancelsTask(d) ==
  \/ /\ task[d].pc = "preparing"
     /\ task' = [task EXCEPT ![d].pc = "abandoned"] /\ interrupted' = interrupted \cup {d}
     /\ UNCHANGED <<cancelled, hooks, agent>>
  \/ task[d].pc \in {"slot", "agent"} /\ Leaves(d)
  \/ /\ task[d].pc \in {"reclaiming", "releasing"}
     /\ task' = [task EXCEPT ![d] = NoTask] /\ interrupted' = interrupted \cup {d}
     /\ UNCHANGED <<cancelled, hooks, agent>>
  \/ task[d].pc \in {"none", "abandoned"} /\ UNCHANGED <<task, cancelled, interrupted, hooks, agent>>

Kills(d) ==
  /\ phase = "killing" /\ d \in kill
  /\ kill' = kill \ {d}
  /\ IF task[d].pc # "none" /\ d \in hooks
     THEN interrupted' = interrupted \cup {d} /\ Fire(d) /\ UNCHANGED <<cancelled, task>>
     ELSE CancelsTask(d)
  /\ UNCHANGED <<table, life, loop, inflight>>

\* After kill_timeout, whether or not the tasks have ended.
StopReturns ==
  /\ phase = "killing" /\ kill = {}
  /\ phase' = "stopped"
  /\ UNCHANGED <<table, loop, runs, marks, boots, agent>>

\* Agent processes may survive; what else was in memory is gone.
ProcessEnds ==
  /\ phase' = "down" /\ dispatcher' = Dispatcher("halted", {}) /\ wakeup' = FALSE
  /\ inflight' = {} /\ task' = [d \in Delivery |-> NoTask]
  /\ cancelled' = {} /\ interrupted' = {} /\ hooks' = {} /\ kill' = {}
  /\ \E S \in SUBSET {d \in Delivery : agent[d].pc \in Alive} :
       agent' = [d \in Delivery |-> IF d \in S THEN [agent[d] EXCEPT !.pc = "orphan"] ELSE NoAgent]
  /\ UNCHANGED <<table, boots>>

Exits   == phase = "stopped" /\ ProcessEnds
Crashes == phase \in {"serving", "draining", "killing"} /\ boots < MaxBoots /\ ProcessEnds

StopStep == \/ Start \/ BeginsStop \/ Drained \/ DrainTimesOut
            \/ \E d \in Delivery : Kills(d)
            \/ StopReturns \/ Exits \/ Crashes

Next ==
  \/ \E d \in Delivery : \/ Record(d) \/ Replay(d) \/ ManualTriage(d) \/ Cancel(d)
                         \/ RetryIsDue(d) \/ RunStep(d)
  \/ DispatchStep
  \/ StopStep

Spec == Init /\ [][Next]_vars

\* What a task, the thread of its agent and the process do next, one step at a time.
TaskStep(d)   == StartsAgent(d) \/ Succeeds(d) \/ Fails(d) \/ GivesUp(d) \/ Reclaims(d)
ThreadStep(d) == Spawns(d) \/ LooksForCancel(d) \/ Arms(d) \/ AgentEnds(d)
ProcessStep   == Start \/ Drained \/ DrainTimesOut \/ StopReturns \/ Exits

\* The loop runs, olders advance, a thread ends at the latest at its hard timeout, a
\* process that was stopped is started again.  asyncio.Queue and asyncio.Lock serve
\* their waiters in order.
Fairness ==
  /\ WF_vars(DispatchStep) /\ WF_vars(ProcessStep)
  /\ \A d \in Delivery :
       /\ WF_vars(TaskStep(d)) /\ WF_vars(ThreadStep(d))
       /\ WF_vars(RetryIsDue(d)) /\ WF_vars(Kills(d))
       /\ SF_vars(\E s \in Slot : TakesSlot(d, s)) /\ SF_vars(Releases(d))

LiveSpec == Spec /\ Fairness

-----------------------------------------------------------------------------
(* Properties.                                                             *)

\* One issue is worked on by one run at a time, its last step - the removal of caches from
\* the workspace - included, and by one agent process, those that survived a crash
\* included (the comment at queue.py:345).
OneRunPerIssue ==
  /\ \A d, e \in Active : Key(d) = Key(e) => d = e
  /\ \A d, e \in Delivery :
       agent[d].pc \in Alive /\ agent[e].pc \in Alive /\ Key(d) = Key(e) => d = e
  /\ phase = "serving" =>
       \A d \in Delivery : agent[d].pc \in Alive => task[d].pc = "agent"

\* A slot serves one run, and nothing runs under a slot that is free (sandbox.py:472).
SlotIsClean ==
  /\ \A d, e \in Delivery : task[d].slot = task[e].slot /\ task[d].slot # NoSlot => d = e
  /\ phase = "serving" =>
       \A d \in Delivery : agent[d].pc \in Alive => agent[d].slot = task[d].slot

\* While the process serves, a running row is in somebody's hands - else it would stay
\* running and block its issue until the next start - and so is an in-flight key.
NothingIsStuck ==
  phase = "serving" =>
    /\ \A d \in Delivery : row[d].state = "running" => d \in Active \cup dispatcher.row
    /\ inflight = {Key(d) : d \in Active}

\* A run that ends settles the row it was started for: nothing has queued, finished or
\* replaced that row under it.
RunOwnsItsRow ==
  [][\A d \in Delivery : d \in Active /\ row'[d] # row[d] => row[d].state = "running"
                         \/ task[d].pc \in {"reclaiming", "releasing"}]_vars

\* An event whose cancel was accepted ends as failed (server.py:713), never as done and
\* never with a retry, unless the process stops before it ends.
CancelSticks ==
  [][\A d \in cancelled : d \notin cancelled' /\ phase = "serving" /\ phase' = "serving"
        => row'[d].state = "failed"]_vars

\* A cancel is never lost on an agent that is just registering its hook: when the hook is
\* in place it has fired, or can still fire (queue.py:240-244).
CancelReachesAgent == \A d \in cancelled : agent[d].pc # "armed"

\* Every event queued is served, through crashes, stops, retries and lost wake-ups.
EventSettles ==
  \A d \in Delivery : row[d].state = "queued" ~> row[d].state \in {"done", "failed"}
===============================================================================
