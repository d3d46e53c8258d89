------------------------------ MODULE WorkPool ------------------------------
(***************************************************************************)
(* An eval work pool (task/workpool.ts): items pushed by the owner are     *)
(* dispatched one after the other to keep-alive workers, each running one  *)
(* batch at a time as a background job, under one aggregate pool job that  *)
(* settles when the pool has drained.  With freshAgents every item gets a  *)
(* worker of its own.  The job manager is its cap on running jobs only     *)
(* (async/job-manager.ts); what a worker does in its turn is external.     *)
(***************************************************************************)
EXTENDS Integers, FiniteSets, Sequences

CONSTANTS
  Items,       \* items the owner may push (a bound)
  Workers,     \* ids of workers, used again once their worker is gone
  Limit,       \* task.maxConcurrency
  Slots,       \* running jobs the manager has room for
  LatePush,    \* may the owner push while the pool job collects its batches?
  FreshFault   \* may a spawn fail while items wait for a fresh worker?

ASSUME WorkPoolAssumption ==
  /\ IsFiniteSet(Items) /\ IsFiniteSet(Workers)
  /\ Limit \in Nat \ {0} /\ Slots \in Nat \ {0}
  /\ {LatePush, FreshFault} \subseteq BOOLEAN

VARIABLES
  freshAgents, \* the setting the pool was created with
  status,      \* of each item
  chain,       \* #dispatchChain: items still to be dispatched, in order
  spawning,    \* items whose dispatch awaits a worker id
  freshQueue,  \* #freshQueue
  state,       \* of each worker; "dead" workers leave the pool
  queue,       \* items handed to a worker for its next turn
  batch,       \* items of its current turn
  turn,        \* its batch job: none, running its turn, or ending it
  closed,
  poolJob,     \* the aggregate job
  collecting   \* workers whose batch job the draining pool job awaits

vars == <<freshAgents, status, chain, spawning, freshQueue, state, queue,
          batch, turn, closed, poolJob, collecting>>
workers == <<state, queue, batch, turn>>

Final == {"completed", "failed", "cancelled"}

TypeOK ==
  /\ freshAgents \in BOOLEAN
  /\ status \in [Items -> {"new", "queued", "running"} \cup Final]
  /\ chain \in Seq(Items) /\ freshQueue \in Seq(Items)
  /\ spawning \subseteq Items
  /\ state \in [Workers -> {"dead", "idle", "running"}]
  /\ queue \in [Workers -> SUBSET Items]
  /\ batch \in [Workers -> SUBSET Items]
  /\ turn \in [Workers -> {"none", "job", "ending", "unregistered"}]
  /\ closed \in BOOLEAN
  /\ poolJob \in {"none", "draining", "collecting", "done"}
  /\ collecting \subseteq Workers
  /\ \A w \in Workers : turn[w] # "none" <=> state[w] = "running"
  /\ \A w \in Workers : turn[w] \notin {"job", "unregistered"} => batch[w] = {}

Init ==
  /\ freshAgents \in BOOLEAN
  /\ status = [i \in Items |-> "new"]
  /\ chain = <<>> /\ freshQueue = <<>> /\ spawning = {}
  /\ state = [w \in Workers |-> "dead"]
  /\ queue = [w \in Workers |-> {}]
  /\ batch = [w \in Workers |-> {}]
  /\ turn = [w \in Workers |-> "none"]
  /\ closed = FALSE /\ poolJob = "none" /\ collecting = {}

Agents == {w \in Workers : state[w] # "dead"}
Jobs == {w \in Workers : turn[w] \in {"job", "ending"}}

\* The sequences that hold each element of the finite set S once.
Orders(S) == {f \in [1 .. Cardinality(S) -> S] : \A m, n \in DOMAIN f : f[m] = f[n] => m = n}

Drained(st) == \A i \in Items : st[i] \notin {"queued", "running"}

\* #notifyDrained: with nothing queued or running the pool job stops waiting,
\* and takes the batch jobs it will await.
NotifyDrained ==
  IF poolJob = "draining" /\ Drained(status')
    THEN /\ poolJob' = "collecting"
         /\ collecting' = {w \in Workers : turn'[w] \in {"job", "ending"}}
    ELSE UNCHANGED <<poolJob, collecting>>

\* #drain: everything in q becomes one batch.  Its items are running before
\* the job is registered, and a manager with no room refuses the job.
StartBatch(w, q) ==
  /\ status' = [i \in Items |-> IF i \in q THEN "running" ELSE status[i]]
  /\ state' = [state EXCEPT ![w] = "running"]
  /\ queue' = [queue EXCEPT ![w] = {}]
  /\ batch' = [batch EXCEPT ![w] = q]
  /\ turn' = [turn EXCEPT ![w] = IF Cardinality(Jobs) < Slots THEN "job" ELSE "unregistered"]

-----------------------------------------------------------------------------
\* push: the first one registers the pool job.  A pool job with no batch left
\* to await closes the pool before its owner can run again.
Push(i) ==
  /\ status[i] = "new" /\ ~closed
  /\ poolJob = "collecting" => LatePush /\ collecting # {}
  /\ status' = [status EXCEPT ![i] = "queued"]
  /\ chain' = Append(chain, i)
  /\ poolJob' = IF poolJob = "none" THEN "draining" ELSE poolJob
  /\ UNCHANGED <<freshAgents, spawning, freshQueue, workers, closed, collecting>>

\* (a plausible bug) Dispatches are not chained: each starts when its item is pushed.
DispatchUnchained ==
  LET i == Head(chain) IN
  /\ chain # <<>> /\ ~closed /\ status[i] = "queued"
  /\ Cardinality(Agents) < Limit
  /\ chain' = Tail(chain)
  /\ spawning' = spawning \cup {i}
  /\ UNCHANGED <<freshAgents, status, freshQueue, workers, closed, poolJob, collecting>>

\* #dispatch of the next item in the chain, once the one before it is done.
\* An idle worker is chosen by load and a busy one round-robin: either can be
\* any of them.
Dispatch ==
  LET i == Head(chain) IN
  /\ chain # <<>> /\ spawning = {}
  /\ chain' = Tail(chain)
  /\ \/ /\ closed \/ status[i] # "queued"
        /\ UNCHANGED <<status, spawning, freshQueue, workers>>
     \/ /\ ~closed /\ status[i] = "queued" /\ Cardinality(Agents) < Limit
        /\ freshAgents \/ \A w \in Agents : state[w] # "idle"
        /\ spawning' = spawning \cup {i}
        /\ UNCHANGED <<status, freshQueue, workers>>
     \/ /\ ~closed /\ status[i] = "queued" /\ Cardinality(Agents) >= Limit /\ freshAgents
        /\ freshQueue' = Append(freshQueue, i)
        /\ UNCHANGED <<status, spawning, workers>>
     \/ /\ ~closed /\ status[i] = "queued" /\ ~freshAgents
        /\ \E w \in Agents : state[w] = "idle" /\ StartBatch(w, queue[w] \cup {i})
        /\ UNCHANGED <<spawning, freshQueue>>
     \/ /\ ~closed /\ status[i] = "queued" /\ ~freshAgents
        /\ Cardinality(Agents) >= Limit /\ \A w \in Agents : state[w] # "idle"
        /\ \E w \in Agents : queue' = [queue EXCEPT ![w] = @ \cup {i}]
        /\ UNCHANGED <<status, spawning, freshQueue, state, batch, turn>>
  /\ UNCHANGED <<freshAgents, closed, poolJob, collecting>>

\* (a plausible bug) The pool is not looked at again once the worker id is there.
SpawnedUnchecked(i) ==
  /\ i \in spawning
  /\ spawning' = spawning \ {i}
  /\ \E w \in Workers \ Agents : StartBatch(w, {i})
  /\ UNCHANGED <<freshAgents, chain, freshQueue, closed, poolJob, collecting>>

\* #spawn goes on with the id it awaited: the pool may have been closed.
Spawned(i) ==
  /\ i \in spawning
  /\ spawning' = spawning \ {i}
  /\ \/ /\ closed \/ status[i] # "queued"
        /\ UNCHANGED <<status, workers>>
     \/ /\ ~closed /\ status[i] = "queued"
        /\ \E w \in Workers \ Agents : StartBatch(w, {i})
  /\ UNCHANGED <<freshAgents, chain, freshQueue, closed, poolJob, collecting>>

\* (a plausible bug) A failed dispatch fails its item whatever became of it.
SpawnFailsAnyway(i) ==
  /\ i \in spawning
  /\ spawning' = spawning \ {i}
  /\ status' = [status EXCEPT ![i] = "failed"]
  /\ UNCHANGED <<freshAgents, chain, freshQueue, workers, closed>>
  /\ NotifyDrained

\* The id could not be reserved: the dispatch fails its item.
SpawnFails(i) ==
  /\ i \in spawning /\ (freshQueue # <<>> => FreshFault)
  /\ spawning' = spawning \ {i}
  /\ status' = IF status[i] = "queued" THEN [status EXCEPT ![i] = "failed"] ELSE status
  /\ UNCHANGED <<freshAgents, chain, freshQueue, workers, closed>>
  /\ NotifyDrained

-----------------------------------------------------------------------------
\* #finishTurn: the batch's items take their outcome, then the worker's yield
\* contract is cleared, which is awaited.
TurnEnds(w) ==
  /\ turn[w] = "job"
  /\ \E outcome \in [batch[w] -> Final] :
       /\ \A i, j \in batch[w] : outcome[i] = "cancelled" => outcome[j] = "cancelled"
       /\ status' = [i \in Items |-> IF i \in batch[w] THEN outcome[i] ELSE status[i]]
  /\ turn' = [turn EXCEPT ![w] = "ending"]
  /\ batch' = [batch EXCEPT ![w] = {}]
  /\ UNCHANGED <<freshAgents, chain, spawning, freshQueue, state, queue, closed, poolJob, collecting>>

\* (a plausible bug) A turn that ends with its worker kept does not look whether it was the last.
CollectedAtLastOnly(w) ==
  /\ collecting' = collecting \ {w}
  /\ UNCHANGED poolJob

\* The batch job of w settles: nobody awaits it any more.
Collected(w) ==
  IF poolJob = "collecting" THEN collecting' = collecting \ {w} /\ UNCHANGED poolJob
  ELSE NotifyDrained

\* (a plausible bug) A kept worker rests with its turn still open.
KeepInTurn(w) ==
  /\ turn[w] = "ending" /\ ~freshAgents
  /\ IF queue[w] = {}
       THEN state' = [state EXCEPT ![w] = "idle"] /\ UNCHANGED <<status, queue, batch, turn>>
       ELSE StartBatch(w, queue[w])
  /\ UNCHANGED <<freshAgents, chain, spawning, freshQueue, closed>>
  /\ Collected(w)

\* The worker is kept and takes what was queued for it meanwhile, or rests.
Keep(w) ==
  /\ turn[w] = "ending" /\ ~freshAgents
  /\ IF queue[w] = {}
       THEN /\ state' = [state EXCEPT ![w] = "idle"]
            /\ turn' = [turn EXCEPT ![w] = "none"]
            /\ UNCHANGED <<status, queue, batch>>
       ELSE StartBatch(w, queue[w])
  /\ UNCHANGED <<freshAgents, chain, spawning, freshQueue, closed>>
  /\ Collected(w)

\* (a plausible bug) A worker that dies keeps what was queued for it.
RetireKeepsQueue(w) ==
  /\ turn[w] = "ending"
  /\ state' = [state EXCEPT ![w] = "dead"]
  /\ turn' = [turn EXCEPT ![w] = "none"]
  /\ chain' = IF freshQueue = <<>> THEN chain ELSE Append(chain, Head(freshQueue))
  /\ freshQueue' = IF freshQueue = <<>> THEN <<>> ELSE Tail(freshQueue)
  /\ UNCHANGED <<freshAgents, status, spawning, queue, batch, closed>>
  /\ Collected(w)

\* The contract could not be cleared, the worker died with its turn, or the
\* pool uses fresh workers: it leaves the pool, what was queued for it is
\* dispatched again, and in fresh mode the next waiting item is.
Retire(w) ==
  /\ turn[w] = "ending"
  /\ state' = [state EXCEPT ![w] = "dead"]
  /\ turn' = [turn EXCEPT ![w] = "none"]
  /\ queue' = [queue EXCEPT ![w] = {}]
  /\ IF freshAgents
       THEN /\ chain' = IF freshQueue = <<>> THEN chain ELSE Append(chain, Head(freshQueue))
            /\ freshQueue' = IF freshQueue = <<>> THEN <<>> ELSE Tail(freshQueue)
       ELSE /\ \E order \in Orders(queue[w]) : chain' = chain \o order
            /\ UNCHANGED freshQueue
  /\ UNCHANGED <<freshAgents, status, spawning, batch, closed>>
  /\ Collected(w)

\* close, by the owner or when the pool job is cancelled: what has not been
\* assigned to a turn is dropped, turns in flight go on.
Close ==
  /\ ~closed
  /\ closed' = TRUE
  /\ status' = [i \in Items |-> IF status[i] = "queued" THEN "cancelled" ELSE status[i]]
  /\ queue' = [w \in Workers |-> {}]
  /\ freshQueue' = <<>>
  /\ UNCHANGED <<freshAgents, chain, spawning, state, batch, turn>>
  /\ NotifyDrained

\* Every batch job it awaited has settled: the pool job closes the pool and
\* reports all its batches.
PoolSettles ==
  /\ poolJob = "collecting" /\ collecting = {}
  /\ poolJob' = "done"
  /\ closed' = TRUE
  /\ UNCHANGED <<freshAgents, status, chain, spawning, freshQueue, workers, collecting>>

-----------------------------------------------------------------------------
Work ==
  \/ Dispatch \/ PoolSettles
  \/ \E i \in Items : Spawned(i)
  \/ \E w \in Workers : TurnEnds(w) \/ Keep(w) \/ Retire(w)

Next ==
  \/ Work
  \/ \E i \in Items : Push(i) \/ SpawnFails(i)
  \/ Close

Spec == Init /\ [][Next]_vars

\* Callbacks run and a worker's turn ends; nobody has to push or to close.
LiveSpec == Spec /\ WF_vars(Work)
-----------------------------------------------------------------------------
\* Where an item may wait or run.
Places(i) ==
  {<<"chain", n>> : n \in {m \in DOMAIN chain : chain[m] = i}}
  \cup {<<"fresh", n>> : n \in {m \in DOMAIN freshQueue : freshQueue[m] = i}}
  \cup {<<"queue", w>> : w \in {v \in Workers : i \in queue[v]}}
  \cup {<<"batch", w>> : w \in {v \in Workers : i \in batch[v]}}
  \cup {<<"spawning", i>> : j \in spawning \cap {i}}

\* Every item that has not settled is in exactly one place, and runs exactly
\* when that is a batch: through requeues from a worker that died, batches
\* handed over at the end of a turn, fresh workers and a close in the middle
\* of a dispatch, none is lost and none is run by two workers.
HeldOnce ==
  \A i \in Items :
    /\ status[i] \in {"queued", "running"} => Cardinality(Places(i)) = 1
    /\ status[i] = "running" <=> \E w \in Workers : i \in batch[w]

\* The dispatches, each awaiting the id of the worker it will add, never take
\* the pool over its limit.
WorkerLimit == Cardinality(Agents) <= Limit

\* Once the pool is closed no item starts any more, whatever the dispatches
\* and turns that were under way find when they resume.
ClosedStartsNothing ==
  [][closed => \A i \in Items : status'[i] = "running" => status[i] = "running"]_vars

\* The aggregate result is that of the whole pool: when its job is done every
\* item it accepted has settled and no turn is in flight.
AggregateIsComplete ==
  poolJob = "done" => Drained(status) /\ Jobs = {}

\* A pool that was given items drains and its job settles.
PoolDrains == poolJob = "draining" ~> poolJob = "done"

-----------------------------------------------------------------------------
\* To its owner the pool is a drain: it accepts items, settles them, and
\* reports once, when all it accepted has settled.
Promise == INSTANCE Drain WITH
  Outcomes <- Final,
  item     <- [i \in Items |-> IF status[i] \in {"queued", "running"} THEN "accepted" ELSE status[i]],
  reported <- poolJob = "done"

\* The pool keeps that promise: every step is a step of the drain or none.
KeepsPromise == Promise!Spec

=============================================================================
