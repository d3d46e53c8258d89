# A verification project for the agent runtime of oh-my-tau

oh-my-tau is a large monorepo (a coding agent, its terminal UI, provider
clients, native crates, a GitHub bot). Most of it is I/O, rendering, data
conversion and provider wire formats. The part with real concurrent state is the
agent runtime of `packages/coding-agent/src` - who is alive, who owns a session,
which background job is delivered where, who waits for whom - and the durable
event queue of `python/robomp`. This project models that part in TLA+, checks it
with TLC on small instances and proves the central facts with TLAPS.

Contents: 1 inventory, 2 plan, 3 the modules and how they correspond to the
code, 4 the runs and their bounds, 5 fairness, 6 what is proved, 7 what the
checks found, 8 what is not modelled.

## 1. Inventory

All paths are relative to `packages/coding-agent/src` unless they start with
`python/` or `packages/`.

| component | state it keeps | operations | hard behaviour | what makes it correct |
|---|---|---|---|---|
| agent registry (`registry/agent-registry.ts`) | id -> `AgentRef` (status, session, parent), listeners | register, registerIfAvailable, attachSession, detachSession, setStatus, markResultAccepted, syncSessionStatus, unregister (compare-and-delete) | an id is reused by later generations; events fire synchronously inside other components' steps | stale work never touches a newer ref; `aborted` is terminal |
| agent lifecycle (`registry/agent-lifecycle.ts`) | `#adopted` (TTL timer, reviver), `#parks`, `#revivals` | adopt, park, ensureLive, release, reclaimDeadCorpse, dispose | park / revive / kill interleave at every await; park can be cancelled before it commits | one writer per transcript, no parked session handed out, waiters always resumed, idle agents armed |
| spawn and finalization (`sdk.ts` createAgentSession, `task/executor.ts` finalizeSubagentLifecycle and the warm reviver, `registry/persisted-agents.ts`) | the claim on an id, the session under construction, the run | claim, probe a corpse, attach, fail, finalize (keep, kill, dispose) | every step may fail after the id is taken | a failed spawn leaves no row and no live session |
| background jobs (`async/job-manager.ts`) | job rows, delivery queue, in-flight deliveries, suppression / watch / consumed sets, eviction timers, sinks | register, settle, cancel, background, release, watch, unwatch, acknowledge, consume, evict, deliver, retry, dispose | settle races watch, consume, eviction and retry; ids are reused | a result reaches its owner exactly once, or stays readable |
| yield queue and delivery sink (`session/yield-queue.ts`, `session/agent-session.ts` #deliverAsyncJobResult) | entries per kind with receipts, idle-flush latch, delivery epoch | enqueue, flush, drainLazy, clear | entries parked across turns and session switches | a consumed or replaced result is never injected; a receipt always settles |
| messaging (`irc/bus.ts`, `irc/messaging.ts`) | mailboxes, waiters, last sent | send, wait, take | the recipient parks, revives or aborts its wait while a message is under way | one consumer per message; nothing buffered and injected both |
| wait and deadlock detection (`tools/wait.ts`) | blocked awaits per agent, listeners | hold, release, wait | agents waiting for each other | a wait that nobody can end is ended, no other is |
| workpool (`task/workpool.ts`) | items, agents, batches, dispatch chain, drain waiters | push, dispatch, spawn, drain, close | failures between marking and registering a batch | every item settles, the pool job ends |
| task concurrency (`task/parallel.ts`, `task/provider-concurrency.ts`) | permits, waiters | acquire, release, resize | abort at the moment of the grant | no permit is lost or granted twice |
| tool choice queue (`session/tool-choice-queue.ts`) | pending directives, the one in flight | push, next, resolve, reject | requeue on abort | no directive lost or applied twice |
| robomp event queue (`python/robomp/src/{queue,db,slot_pool,cancellation}.py`) | event rows, in-flight keys, cancel hooks, slots | record, claim, run, retry, cancel, stop, recover | crash, shutdown and cancellation against a running event | one running event per issue, no event lost |
| robomp autoclose (`python/robomp/src/autoclose.py`) | pending closures | upsert, claim, close, cancel, requeue | re-arm during the GitHub call, crash while claimed | nothing closed that was re-armed |
| file lock (`packages/utils/src/file-lock.ts`) | a native handle | acquire, release, retry | the holder dies | mutual exclusion, by the operating system |
| agent session, turn loop, persistence, UI, providers, natives | - | - | mostly I/O | left aside, see section 8 |

How they interact: `createAgentSession` and the executor register and attach
refs; the lifecycle manager listens to the registry's events synchronously; the
bus calls `ensureLive` before it delivers; a session registers a sink with the
job manager and that sink parks results on the session's yield queue; `wait`
watches jobs, waits on the bus and asks the registry who still runs; `workpool`
registers jobs and consumes their results.

## 2. Plan

In this order, the most important behaviour first. All of it is done, except
where a line says otherwise.

1. `AgentLifecycle`, its TLC instances, `AgentLifecycleProofs` (types, kills) and
   `OwnershipProofs` (who has a session).
2. `AsyncJobs`: the job manager, the delivery sink and the readers of results,
   its TLC instances, `AsyncJobsProofs` (rows and timers) and `DeliveryProofs`
   (deliveries and results).
3. `EventQueue` and `Autoclose` of robomp, with stops, kills and crashes, and
   `Robomp`, which composes them; `EventQueueProofs` and `RobompProofs`.
4. `PeerWait`: the deadlock watch of `wait`, composed with the hand-off of
   messages, wake turns, and the permits and inline awaits of spawns;
   `PeerWaitProofs`.
5. `WorkPool` and `Drain`, the abstract specification it implements, with
   `WorkPoolProofs`.
6. Open: the idle flush of the yield queue, the mailboxes of the bus, a resized
   semaphore, an abstract specification of one agent id that `AgentLifecycle`
   implements. Section 8 says what stands against the first three.

Each proof is about a module without `RECURSIVE` operators, so the modules use
recursive functions (`PeersThatCanAct`) and set comprehensions.

## 3. The modules

### AgentLifecycle

One agent id. The program is single threaded, so an action is the code between
two awaits; a promise other code waits for is a `pc` of the process that settles
it, and the settling step moves the waiters on.

| variable | code |
|---|---|
| `reg` | `#refs.get(id)` of the registry: which `AgentRef` object the id names |
| `status`, `sess` | `ref.status`, `ref.session` of each ref object, registered or not |
| `life`, `owner`, `hooked`, `mirrored`, `streaming` | the session objects: their dispose promise, the ref they were built for, whether their dispose runs `unregisterUnlessParked`, whether `syncSessionStatus` mirrors them, whether a turn is in flight |
| `adopted`, `park`, `revival` + `inflight` | `#adopted.get(id)`, `#parks.get(id)`, the running `#resolveAndRevive` calls and which of them `#revivals.get(id)` is |
| `caller`, `release`, `run` | the `ensureLive` calls, the `release` calls, the spawn runs up to their finalizer |

Several generations of an id are members of `Ref`. Maps keyed by id never relate
two ids, which is why one id is enough. `NewTask` separates macrotasks (timers,
settled I/O, new calls) from the continuations of a promise that has just
settled: those run first, as the microtask queue does. The actions are grouped
as `SpawnStep` (restore, claim, probe, reclaim, attach, fail), `SessionStep`
(turns and the dispose promise with its hook), `ParkStep` and `TimerParks`,
`CallerStep` (ensureLive), `RevivalStep` (factory, reviver, #revive),
`ReleaseStep` and `FinalizeStep`. A session object nothing refers to any more
is reused for a new one (`Fresh`), which keeps the instance finite without
bounding how often agents are parked and revived. Generations are not reused:
`Ref` bounds how many times the id is taken.

### AsyncJobs

The jobs of one owner, the sink and yield queue entries of the owner's session,
and everything that reads a result in the foreground. Job ids and job objects
are kept apart, because the code keys its markers by id while deliveries, timers
and waiting callers hold an object.

| state | code |
|---|---|
| `m.row`, `m.job` | `#jobs`; the `status`, "the run has ended" and `foreground` of each object |
| `m.suppressed`, `m.watched`, `m.consumed`, `m.released` | `#suppressedDeliveries`, `#watchedJobs`, `#consumedJobResults`, `#releasedForegroundJobs` |
| `m.timer`, `m.holder` | `#evictionTimers`: which delay a timer was armed with, and the delivery a fired one waits for |
| `m.dlv` | `#deliveries` and `#inFlightDeliveries`: where each delivery is, from the queue through the sink's format step, the yield queue and the built message to the settled receipt |
| `m.sink`, `session` | `#deliverySinks.get(owner)`; `#isDisposed` of the owner's session. The epoch is the pc `outdated` of a delivery that was formatting when it changed |
| `waiter` | calls of `wait`, `vibe_wait`, the sidekick handoff, eval cells and work pools, with the objects they captured |
| `injected`, `read`, `m.dead` | history, for the properties only |

The methods of the manager are operators from one value of `m` to the next, as
one step of the program often calls several: `EndWait` is
`Unwatch(Consume(m, ...), ...)`. The actions are grouped as `JobStep` (register,
settle, cancel, promote, release), `DeliveryStep` (the delivery loop, the sink,
the yield queue, the receipt), `TimerFires`, `WaiterStep` and `SessionStep` (new
session, begin and finish of dispose, revival of the owner). An automatic id
names one object (`Automatic`); foreground calls, pools, vibe turns and handoffs
only use such ids, an eval cell may also hold one that is used again.
An attempt made by an enqueue that finds the delivery loop idle runs in the same
step (`now`); with a loop asleep it is a later `DeliveryLoop`. `TimerFires`
waits for what the microtask queue still holds.

`MCAsyncJobs` gives `IdOf` its values: `OneId` (one job under an automatic id) and
`SameId` (one agent id registered twice).

### EventQueue, Autoclose and Robomp

| state | code |
|---|---|
| `row`, `older` | the events table: state, attempts, whether `available_at` is reached, and the order of `received_at` |
| `dispatcher`, `wakeup` | `_dispatch_loop` with the row it has claimed, and the event it sleeps on; `got` and `paused` hold `_inflight_lock` |
| `inflight`, `task` | `_inflight` and the `_run_event` task of each delivery, with the slot it holds |
| `cancelled`, `interrupted`, `hooks`, `kill` | `_cancelled`, `_shutdown_cancelled`, the keys of `_cancel_hooks`, `still_running` of `stop()` |
| `agent` | the thread that drives an agent, and the slot its process runs under |
| `phase`, `boots` | the process: down, serving, and the stages of `stop()` |
| `closure`, `closer`, `replied` | `pending_closures`, the tick of the scheduler, and a history value |

Coroutines share one event loop, so an action is the code between two awaits; a
database call made in a thread, a workspace operation and each step of the thread
that drives an agent are actions of their own. That is why looking for a cancel
request (`LooksForCancel`) and storing the hook (`Arms`) are two actions, and why
a task that is cancelled may leave its agent behind. The actions are grouped as
requests (`Record`, `Replay`, `ManualTriage`, `Cancel`), `DispatchStep`,
`RunStep` and `StopStep`. Rows survive `ProcessEnds`, nothing else does, except
that agent processes may outlive a crash (`orphan`) until the next start reaps
them. Autoclose has only the steps of its component; `Robomp` runs them beside
the queue's, and owns what they share: the agent of an event posts the answer
that arms a closure, a webhook cancels the closure before it records its event,
and both parts start, stop and crash together.

### PeerWait

| state | code |
|---|---|
| `status`, `owner` | the registry row of an agent (`running` means a live turn is in flight) and the agent that spawned it |
| `phase` | its two runs, the spawn and a wake turn: queued for a permit, holding it, over and not yet settled |
| `block`, `watched`, `leg` | the entry of `holdBlockedAwait`: the tool the turn is blocked in, the runs it is about, and whether a leg of its own (a bash job, a service) races with them |
| `wake`, `got` | why the race of a `wait` has settled before the tool returns, and the message its waiter was given |
| `due`, `msgs` | accepted results an owner has not seen; where each message is |
| `permits` | `task.maxConcurrency`, the same for every session |

Holds, releases and registry events run the deadlock checks synchronously, and
promise continuations run before any other turn goes on: `Checked` and `Quiet`
say so, and an action of a turn needs `Quiet`: nobody's wait is about to return,
and no queued spawn has a permit to take up. Hand-offs and settlements only
need `Checked`, so that a message, a job and an interrupt can all end the same
wait before it returns. `Verdict` is `watchDeadlock`, from `PeersThatCanAct`
(the fixpoint of `peersThatCanAct`, as a recursive function) and
`PeerAwaitingCaller`.

### WorkPool and Drain

| state | code |
|---|---|
| `status`, `batch` | `item.status`; the items of a worker's current batch |
| `chain`, `spawning`, `freshQueue`, `queue` | where a queued item is: `#dispatchChain`, the dispatch that awaits `reserveStructuredSubagentId`, `#freshQueue`, the queue of a busy worker |
| `state`, `turn` | `agent.state`; whether its batch job runs its turn, awaits the clearing of the yield contract, or was refused by the manager |
| `closed`, `poolJob`, `collecting` | `closed`; where the aggregate job is, and which batch jobs it awaits |

`Drain` is what the pool promises its owner: items are accepted, settle once,
and one report is made when everything accepted has settled, after which nothing
is accepted. `KeepsPromise` is that specification under the mapping `Promise`,
in which `queued` and `running` are both `accepted` and the report is the end of
the aggregate job. Three constants say what an instance allows: `Slots` (the
manager's cap on running jobs), `LatePush` (a push while the drained pool
collects its batches) and `FreshFault` (a failed spawn while items wait for a
fresh worker).

### Instances and mutants

The MC modules declare the model values and the functions that give `IssueOf`
and `IdOf` their values, and `MCAgentLifecycle` the symmetry set. Definitions
marked as a mutant or a plausible bug stand right before the operator they
corrupt and are used by nothing else: `PROJECT.json` names the run and the
property that tells them apart.

## 4. The runs

| run | instance | what it shows |
|---|---|---|
| `generations` | 2 refs, 2 sessions, 2 callers, 1 releaser | types; a stopped ref is detached; one writer per transcript; the registered row never keeps a dead session; a tombstone is final; stale work leaves the newer ref alone; ensureLive hands out an open session that no park is disposing; at most one revival of the registered ref, the remembered one |
| `progress` | 1 ref, 2 sessions, 2 callers, 1 releaser, fairness, no symmetry | an adopted idle agent has its timer armed; every ensureLive and release call returns |
| `readers` | 1 job, 2 readers, fairness | one delivery of a job at a time; a consumed result was read or injected; a settled result nobody took has a delivery; a job behind a foreground call has none; a read result is not injected afterwards; the row of an ended job goes away |
| `reuse` | 2 job objects of one id, 1 reader | types; a job that runs keeps its row; no result is injected twice |
| `event_queue` | 2 deliveries, 1 issue, 1 slot, 1 retry, 1 request, 2 starts, fairness | types; slots are clean and not shared; no running row and no in-flight key is orphaned; an accepted cancel ends the event as failed; every queued event settles |
| `robomp` | 2 deliveries of 1 issue, 1 slot, 1 request, 2 answers, 2 starts | types; one run and one agent per issue; a run settles the row it owns; the scheduler takes up quiet issues only and alone finishes claimed rows |
| `peer_wait` | 3 agents, 1 message, 1 or 2 permits, 2 waits, 1 kill, fairness | types; whoever is told that no message can come is in a deadlock; nobody waits until the cap; a message handed over is read |
| `work_pool` | 4 items, 3 worker ids, limit 2, fairness | types; each item is in one place; the limit; nothing starts when closed; the pool drains; it implements `Drain` |
| `lost_cancel`, `dropped_claim`, `queued_inline`, `late_push` | small instances | the findings of section 7 |

`readers` and `reuse` check different properties of the same actions, since some
of them (`NoReplay`, `ConsumedWasSeen`, `ResultIsOnItsWay`) hold only as long as
an id is not reused: see section 7. `progress` has one generation for the same
reason.

Why the bounds are enough. For `AgentLifecycle`, the races of this code are between one stale
generation and its successor (two refs), between the session being disposed and
the one being built (two sessions: an object nothing refers to is used again,
and with three the properties of `generations` hold as well, in 2.1 million
states), and between two calls that coalesce (two callers).
The cap on `Ref` is the only bound on behaviours; within a generation park and
revive cycles are unbounded. Deadlock is checked in every run of it.

For `AsyncJobs`, a job object is registered once, so `Job` bounds how many jobs
there are, and nothing else is bounded: attempts, retries, waits, sessions and
revivals of the owner repeat without limit. Markers and timers are per id, and
one object with its predecessor under the same id is all an id relates; two jobs
of different ids meet only in a reader that watches both. A second slot per job
in `Delivery` makes a duplicate delivery representable. Two readers are needed
for one to unwatch what the other watches. The system may stop once every job
has ended, so deadlock is not checked.

For `EventQueue`, two deliveries are the two that a key, a slot and the claim
query can relate; `event_queue` gives them one slot and one issue against none,
so that they compete for the slot alone, and `robomp` one issue, so that they
compete for the key. One retry and one request make a row be queued again in
every way the code knows, and two starts let a crash or a stop hit any state
once, with a whole life of the process after it. `boots < MaxBoots` also guards
stops and crashes, so that the last start is one that serves for ever: without
it nothing could be required to settle. Two answers re-arm a closure once.

For `PeerWait`, a deadlock needs a waiter, an agent that awaits it and one that is
awaited with it: three agents. The owner, its inline and racing awaits, one or
two permits and wake turns of idle agents put each of them in each role. Two
waits are a pair of waiters that an inline owner awaits, or one waiter blocked
again after its first wait ended; for any number of waits the safety of the watch
is proved (section 6).

For `WorkPool`, the limit of two makes a third item be queued on a busy worker
and a fourth wait behind it; the third worker id is the one taken after a death.
An item is pushed once, so `Items` is the only bound on behaviours.

In these runs everything may come to rest (all events settled, all waits
returned, the pool done), so deadlock is not checked.

## 5. Fairness

`FairSpec` assumes only what the event loop gives: a continuation whose promise
has settled runs, and disposes, revivers, the factory and file writes settle with
an answer or an error. It is strong fairness where `NewTask` can be switched off
again and again by microtasks of other work, which delay a ready task but never
starve it. Nothing is assumed of decisions: turns, timers, new calls, kills.

`LoopSpec` of `AsyncJobs` assumes that armed timers fire, the delivery loop and
the continuation of a settled sink call run, the format step ends, the session
flushes what is parked, and a picked message is committed or discarded: timers,
microtasks and the idle flush or the end of the run provide each. Timers get
strong fairness: deliveries that come due switch `TimerFires` off for a moment,
again and again, which delays a timer and does not starve it. A run that never
ends or a foreground call that never returns keeps its row, so `RowsAreEvicted`
speaks of ended jobs.

`LiveSpec` of `EventQueue`: coroutines that can run do, threads end (an agent
at its hard timeout), retries become due, and a process that was stopped is
started again. Taking a slot and releasing a key are strongly fair, because
`asyncio.Queue` and `asyncio.Lock` serve their waiters in order while others come
and go. No request, cancel, stop or crash is ever required to happen.

`LiveSpec` of `PeerWait` has one weak condition on callbacks, on the reading of
messages and on the end of a turn that is left alone, since the bounds on waits,
messages and agents let no turn go on for ever. In particular a turn is not
required to send, to spawn or to yield what others wait for; it is required to
end, as every turn that is not blocked does. `LiveSpec` of `WorkPool` is weak
fairness of the pool's own steps, the end of a worker's turn included
(`task.maxRuntimeMs` and the agent loop see to it): nobody has to push or close.

## 6. What is proved

`AgentLifecycleProofs`, for every number of generations, sessions, callers and
releasers, from the single assumption that the two nil values are no members of
their sets (`NilAssumption`):

- `InductiveInvariant`: `IInv` holds in every reachable state. `IInv` is
  `TypeOK`, `DetachedWhenStopped` and the strengthening they need: a row is
  registered only once it has a status (`RowBound`), a park, a release, a
  revival and a run in a given `pc` refer to the refs and sessions that `pc`
  promises (`ParkBound`, `ReleaseBound`, `RevivalBound`, `RunBound`). The
  strengthening is needed because, for instance, a revival in `attached` settles
  its callers with `revival[r].ses`: that this is a session and not the nil value
  does not follow from the types.
- `TypeCorrect`, `StoppedIsDetached`: the two invariants of the runs.
- `KilledStaysKilled`: the action property `TombstoneIsFinal`, from `IInv` and
  the fact that every writer of a status goes through `CanSet`, `Attachable` or
  a guard on `parked`.

`OwnershipProofs` goes on from there, with the same assumption:

- `OwnershipInvariant`: `OInv`, which says who has a session. A session object is
  reachable from up to six places at a time - the row, the run of a spawn, a
  revival, a park, a kill that still writes its tombstone, and the transcript it
  has open - and each of them disposes, attaches or hands out what it holds.
  `OneHolder` is the heart: all who hold a session hold it for the ref it was
  built for, and a ref has one session at most. The rest says when a ref may be
  without one, for those are the states in which a second may be built:
  `NewIsUntouched` (not registered yet), `RunHolds` (claimed, not attached),
  `RevivalHolds` (a revival that has not attached) and `ParkedIsClosed` (a parked
  row whose park is over has closed its transcript: this is what lets
  `#resolveAndRevive` open it again). `ParkHolds` and `KillHolds` tie a park and a
  kill to the row they work on, and `NoParkPending` says that whoever was told that
  a park is over goes on before the next one starts, the macrotask rule at work.
  Each action has a lemma that first shows that no session gets a holder it did
  not have (`HandsOn`), from which `OneHolder` follows; only building an object
  makes a holder, and `Fresh` says that nobody held it.
- `TranscriptHasOneWriter` (`SingleWriter`), `RevivalsCoalesce`,
  `AttachedStaysOpen`, `EnsureLiveHandsOutOpenSession` and
  `StaleWorkLeavesTheRow`: the properties of `generations`. The first also needs
  that an open session has an owner, the last that the tear-down of a run names no
  ref but its own.
- `IdleAgentHasATimer`: `IdleAgentIsArmed` in every behaviour so far with one
  generation (`OneGeneration`, a condition on the state, because the code breaks it
  with two, see section 7). It is not inductive: a cancelled park has cleared the
  timer, so `AInv` adds that the call that cancelled it is still there to arm it
  again, and knows whose.

The proof has a lemma per shared operator (what `SetStatus`, `Unregister`,
`Settle`, `Capture`, ... preserve), a lemma per group of actions, and one lemma
that puts the groups together.

`AsyncJobsProofs`, for every number of ids, job objects and readers and every
`IdOf`, from `IdAssumption` (`IdOf` maps jobs to ids) and `NilAssumption`:

- `JobsInvariant`: `Inv`, that is `TypeOK` and `Core`. `RunningRowIsKept` alone
  is not inductive: an eviction timer must never belong to a job that runs, and
  `#consumeJobResult`, `#deliverDelivery` and the settling of a run all arm one
  by id. `Core` therefore adds that a timed or consumed id has a row, that the
  row of a consumed id and every completed or failed job has ended, and that a
  row names a registered job.
- `JobsTypeCorrect` and `RowsAreKept`: the invariants `TypeOK` and
  `RunningRowIsKept` of the run `reuse`.

Each method has a lemma of the form "a sound manager stays sound", in the order
in which the methods call each other, with `Free` (nothing un-ended has these
ids) as the condition for arming a timer or taking a row. A step of the
specification is then a chain of lemmas.

`DeliveryProofs`, from the same assumptions:

- `DeliveriesInvariant`: `DInv`, for any ids. Of the two delivery slots of a job
  one is empty (`OneDelivery`); what has a delivery has ended and settled; a job
  behind a foreground call has none and its id is suppressed; a job whose result
  was inserted has no other delivery, and while it has a row that row is consumed
  or its receipt is just being handled. The last part is what keeps a settled
  receipt, a retry and `unwatchJobs` from enqueuing the same result again.
- `NoSecondDelivery`, `ForegroundKeepsItsResult` and `InsertedOnce` follow.
- `ResultsInvariant`: `RInv`, under `Single`: every id is automatic, that is, names
  one job, as `bg_N` ids do. With an id that is used again the code breaks all
  three properties below (section 7), because its markers are by id; `DInv` needs
  no such hypothesis. `RInv` adds that a job the manager owes a delivery has one,
  that a job a reader returned is `Spent` (a delivery on its way will be dropped
  at its next look, also when the row and with it the marker is gone), that a
  consumed row was seen, that the sink is there while the session is, and that
  readers hold background jobs.
- `OwedResultIsOnItsWay`, `ConsumedResultWasSeen` and `ReadResultIsNotReplayed`
  (`NoReplay`) follow.

`WorkPoolProofs`, for all finite sets of items and workers, every limit and
every job cap, from `WorkPoolAssumption`:

- `TypeCorrect` and `WithinLimit`. The limit is not inductive by itself: the
  dispatch that awaits a worker id has looked at it before. `LimitInv` adds that
  at most one dispatch awaits and that there is room for it.
- `PoolImplementsDrain` and `NothingStartsClosed`, both under `LatePush = FALSE`
  (the run `late_push` shows that they fail otherwise). Their inductive
  invariant `Inv` is `TypeOK`, `Held` and `PoolInv`. `Held` says where an
  unsettled item is: loose (in the chain, in spawning or in the fresh queue), in
  the queue of one worker or in one batch, a batch being exactly what is
  `running`; it is what makes a requeue from a dead worker harmless. `PoolInv`
  ties the aggregate job to the drain: it collects only when all items have
  settled, and reports only when every batch it took has ended. Each action is
  one step of the refinement proof: `Push` accepts, `TurnEnds`, `SpawnFails` and
  `Close` settle, `PoolSettles` reports, and every other step stutters.
- `ItemsAreHeldOnce` (`HeldOnce`), under the same hypothesis. `Held` says that an
  item is in no two places, `Kept` adds that it is in one: whatever takes a
  queued item from somewhere puts it somewhere, a running item is in a batch, a
  closed pool has none queued, and only a live worker that is kept has a queue.
- `ReportIsComplete`: `AggregateIsComplete`, which `late_push` violates, holds when
  nobody pushes during the collection. `CollectInv` says that the batch jobs the
  pool awaits are all there are, since a drained pool starts none.

`PeerWaitProofs`, for any agents, messages, permits, owners and bounds, from
`PeerAssumption` (the agents and messages are finite, there is a permit):

- `TypeCorrect`: `TypeOK`, which includes that a turn that is not blocked holds no
  runs, leg or wake-up. Its invariant `WInv` adds `OfWait` (what a race has settled
  on belongs to a blocked `wait`), `InFlight` (a message on its way blocks its
  sender, who has no other) and `HeldByWaiter` (a message is held exactly by the
  waiter it was handed to).
- `ToldOnlyWhenStuck` (`ToldForAReason`). The knot is the waiter with all running
  peers that are not in `PeersThatCanAct`. `ActorsAreClosed` says what the proof
  needs of that fixpoint: every member can act given the members, and no other
  running peer can. A round that adds nobody is the last, and there are as many
  rounds as agents, so this is a count over the recursive function; it is proved
  from the first round that breaks it (`LeastNumber`), not with the library's
  induction theorems, which take an operator. `Waiters` is the rest of the
  invariant: a blocked turn is in flight, a queued spawn has no session, a wait
  watches every unsettled spawn of its agent (`WaitsForAll`: so all holders of the
  permits a queued one could get are in the knot too), no permit is free for a
  queued one before that wait has ended (`GrantWakes`), and the sender of a message
  that a waiter holds is back in its turn (`SenderActs`: so nobody holds one when
  nobody can act).
- `DeadlocksAreSeen` (`DeadlockIsSeen`), under `QueueInline = FALSE` (the run
  `queued_inline` shows what a launch without a permit does): in a `Quiet` state the
  running agents are not all stuck, so the checks have told one of them. This is the
  safety half of `NobodyIsStuck`. `Owners` orders the agents by who spawned whom
  (`OwnersAreOlder`), so that a stuck set has a youngest member; a turn awaits only
  runs of its own agent (`HoldsOwn`, `WaitsForAll`), so that the youngest awaits
  nobody in the set, and a queue never stands still without a holder of a permit
  (`QueueHasHolder`), so that it waits for a message only. Nobody can act for it
  (`NobodyActs`), and if it defers to another waiter that one defers to nobody.
- `HeldMessageIsRead`: until the recipient's own tool returns and reads it, nothing
  takes a message away from its waiter. This is the safety half of
  `HandedOverIsRead`.

`EventQueueProofs`, for any deliveries, issues and slots and any bounds on
retries, requests and starts, from `BoundAssumption` (the bounds are numbers):

- `QueueInvariant`: `IInv`, a picture of who holds what. `RowInv` says that a
  run before its `finally` works on a running row, and that a running row of a
  serving process has such a run or is the one the dispatch loop has just claimed
  (`LoopInv`); the second half is needed because a run that is in its `finally`
  has settled its row, which may be queued and claimed again before the key is
  released. `OnePerKey` speaks of tasks and of threads without a task at once: an
  agent whose task was cancelled, or whose process died, still keeps others off
  its issue. `ServingInv` ties the in-flight keys, the agents and the sets of
  `stop()` to the tasks of a serving process, `DownInv` says that a process that
  is down has none, and `OneTaskPerSlot` is the first half of `SlotIsClean`.
- `QueueTypeCorrect`, `SlotsAreClean`, `NothingGetsStuck`, `IssueHasOneRun`: the
  invariants of the runs `event_queue` and `robomp`.
- `RunKeepsItsRow` follows from `RowInv` alone, since every write that is not the
  run's own starts from a row that is not running. `CancelIsHonoured` adds that,
  while the process serves, only `Succeeds` and `Fails` take a cancel mark away.

Each action has one lemma, with a step for every part of `IInv` that it can
disturb.

`RobompProofs`, with `AnswerAssumption` in addition:

- `RobompImplementsQueue`: each step of `Robomp` is a step of `EventQueue` or
  leaves it alone, so that `RobompIssueHasOneRun` and `RobompRunKeepsItsRow`
  carry over.
- `RobompTypeCorrect`, `QuietIssuesAreClaimed` and `ClaimsAreTheSchedulers`, from
  `ClosingInvariant`: types, and `QuietInv`, that an issue whose author replied
  has no closure the scheduler could take up or requeue.

Only model-checked: the liveness properties (`EnsureLiveReturns`,
`ReleaseReturns`, `RowsAreEvicted`, `EventSettles`, `PoolDrains`, `NobodyIsStuck`,
`HandedOverIsRead`), because liveness under fairness and `ENABLED` are out of the
prover's reach. Every other property of a passing run is a theorem.

## 7. What the checks found

Four runs violate one property each, taken from the source's own words; see
`PROJECT.json` for the quotes.

- `lost_cancel`: a cancel that arrives while the worker thread is between its
  look at the cancelled set and its registration of the hook stops nobody.
- `dropped_claim`: a request that fails below HTTP ends the tick of the scheduler
  and leaves the rows it had claimed claimed.
- `queued_inline`: a blocking spawn that is queued for its permit passes for an
  agent that can act; owner, sibling and spawn wait for each other.
- `late_push`: an item pushed between the drain and the closing of a pool is
  accepted and left out of the report.

Seen in the same models, without a run of its own. In `AgentLifecycle`:
`ensureLive` returns the session a removal is disposing, since `release`
unregisters the row only after dispose and `onRelease`
(`agent-lifecycle.ts:382`, against 13); a cold revival of a replaced ref
overwrites the adoption of its successor before it re-checks the registry (418,
against 18-20), and one refused by the re-check leaves its adoption behind (422,
against 433); a removal that captured no session returns although a revival
attached one meanwhile, and its row is unregistered under the live session (476,
against 442); a TTL timer that fires while the park of an older generation is in
flight is swallowed by the coalescing on the id (268, against 6-8), which is why
`IdleAgentIsArmed` is checked with one generation.

In `AsyncJobs`, when an id is used again or a session replaced: a delivery that
backs off when its row is evicted outlives `evictCompletedJobs`, and its next
attempt takes the epoch of the new session (`job-manager.ts:637`, against
624-626); an eval cell consumes by id what it waited for by object, so it can
consume the unseen result of a newer job of that agent
(`eval/handle-bridge.ts:264`); the marker of a result read after its row was
evicted is deleted when the id is registered again, while the delivery is still
parked (`job-manager.ts:368`, against 823-825); the stale receipt of a consumed
result is rejected, and only the success branch of `#deliverDelivery` arms the
short eviction delay (1187, against 825-827); `unwatchJobs` takes the parked
delivery of an earlier job of the id for the one the watched job lacks (552,
against 540-541).

In `WorkPool`: with few `Slots` a registration that the manager refuses leaves
its items running for ever (`workpool.ts:363`), and with `FreshFault` a failed
spawn strands the items behind it in the fresh queue (494, against
docs/tools/eval.md:227); `PoolDrains` fails in both. In `Robomp`: an author's
reply that arrives once the row is claimed does not stop the close
(`autoclose.py:170`); rows claimed by a tick that a stop or crash interrupted
stay claimed (`autoclose.py:130`), so `ClaimIsResolved` speaks of the first
start.

In `PeerWait`, with four agents and two messages: an owner awaits `A`, `B` and `C`
inline, `C` hands a message to the waiter of `B`, and before the tool of `B` returns
the spawn run of `C` settles. `B` is still listed as blocked, so the watch tells `A`
that its owner awaits it and nobody else can act (`wait.ts:137`, against 153-154: "a
co-awaited agent that can act keeps the caller waiting"). This came out of the
attempt to prove a stronger `ToldForAReason`, in which nobody in the knot holds a
message: the property now asks that only of a waiter that nobody awaits.

## 8. What is not modelled

Of the agent lifecycle: `AgentLifecycleManager.dispose` and the `#disposed`
checks that matter only after it; history, activity and telemetry of a ref; the
kinds main and advisor; revivers that return a session without attaching it; the
fallback of a failed tombstone write beyond "written or not"; a crash of the
process between the abort and the tombstone.

Of the job manager: several owners (sinks and filters are per owner, maps never
relate two owners' jobs), the cap on running jobs and the queued flag (a refused
registration changes nothing there; `WorkPool` has the cap), the retained
artifacts and progress of a job, `drainDeliveries` and `dispose` of the manager,
a retention of zero, and the order in which backoff and jitter put deliveries
(any delivery may be next). Of the yield queue: the idle flush and its latch,
which are driven by the turn loop.

Of waiting and messaging: the two hour cap of `wait` (left out, so that nothing
ends by it), the service refresh before a wait, eval waits with a timeout, holds
of a spawn whose id is not claimed before it starts, the sidekick handoff, the
relay of a wake turn's answer, mailboxes (mail is buffered only for a recipient
whose session failed the hand-off), filters, broadcasts, the revival of a parked
recipient, and kills of an agent with unsettled runs of its own. Permits are
taken in any order: `Semaphore` is first come first served, which only removes
behaviours. Its `resize` with waiters and aborted acquires are not modelled.

Of robomp: what a handler does before and after its agent, a database or reaping
call that raises, the semaphore of a pool that does not run as root, a second
agent turn in one event, the natives cache, issue and workspace tables. The
order of the slot queue is abstracted.

The tool choice queue is driven from one place of the turn loop, with no
interleaving of its own. The file lock leaves exclusion to the operating system.
The agent loop, session files, the UI, providers, the catalog and native crates
are outside the project: I/O and data conversion whose correctness is not a
matter of interleaving, or code too large to model faithfully. They are most of
the repository's lines, which is why the modules cover a small share of it.
