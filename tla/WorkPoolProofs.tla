--------------------------- MODULE WorkPoolProofs ---------------------------
(***************************************************************************)
(* For any number of items and workers: the types of WorkPool, its worker  *)
(* limit, and, for a pool no one pushes to while it collects its batches,  *)
(* that it implements the drain it promises its owner, that nothing starts *)
(* once it is closed, that an item is held in one place and reported with  *)
(* the rest.  All of the latter rest on where items are: one that has not  *)
(* settled is loose, in one queue or in one batch, so a turn that settles  *)
(* its batch settles nothing another worker holds.                         *)
(***************************************************************************)
EXTENDS WorkPool, FiniteSetTheorems, TLAPS

In(x, s) == \E n \in DOMAIN s : s[n] = x
NoDup(s) == \A m, n \in DOMAIN s : s[m] = s[n] => m = n

LEMMA AppendKeeps ==
  ASSUME NEW S, NEW s \in Seq(S), NEW x \in S, NoDup(s), ~In(x, s)
  PROVE  /\ Append(s, x) \in Seq(S)
         /\ NoDup(Append(s, x))
         /\ \A y : In(y, Append(s, x)) <=> In(y, s) \/ y = x
<1>1. /\ Append(s, x) \in Seq(S)
      /\ DOMAIN Append(s, x) = 1 .. Len(s) + 1
      /\ \A n \in 1 .. Len(s) : Append(s, x)[n] = s[n]
      /\ Append(s, x)[Len(s) + 1] = x
      /\ DOMAIN s = 1 .. Len(s)
      /\ Len(s) \in Nat
  OBVIOUS
<1>2. NoDup(Append(s, x))
  BY <1>1 DEF NoDup, In
<1>3. \A y : In(y, Append(s, x)) <=> In(y, s) \/ y = x
  BY <1>1 DEF In
<1> QED BY <1>1, <1>2, <1>3

LEMMA TailKeeps ==
  ASSUME NEW S, NEW s \in Seq(S), s # <<>>, NoDup(s)
  PROVE  /\ Head(s) \in S /\ In(Head(s), s)
         /\ Tail(s) \in Seq(S)
         /\ NoDup(Tail(s))
         /\ \A y : In(y, Tail(s)) <=> In(y, s) /\ y # Head(s)
<1>1. /\ Tail(s) \in Seq(S)
      /\ Len(s) \in Nat \ {0}
      /\ DOMAIN s = 1 .. Len(s)
      /\ DOMAIN Tail(s) = 1 .. Len(s) - 1
      /\ \A n \in 1 .. Len(s) - 1 : Tail(s)[n] = s[n + 1]
      /\ Head(s) = s[1] /\ s[1] \in S
  OBVIOUS
<1>2. \A n \in DOMAIN Tail(s) : n + 1 \in DOMAIN s /\ n + 1 # 1
  BY <1>1
<1>3. NoDup(Tail(s))
  BY <1>1, <1>2 DEF NoDup
<1>4. \A y : In(y, Tail(s)) <=> In(y, s) /\ y # Head(s)
  <2>1. \A y : In(y, Tail(s)) => In(y, s) /\ y # Head(s)
    BY <1>1, <1>2 DEF NoDup, In
  <2>2. \A n \in DOMAIN s : n = 1 \/ (n - 1 \in DOMAIN Tail(s) /\ Tail(s)[n - 1] = s[n])
    BY <1>1
  <2>3. \A y : In(y, s) /\ y # Head(s) => In(y, Tail(s))
    BY <1>1, <2>2 DEF In
  <2> QED BY <2>1, <2>3
<1>5. In(Head(s), s)
  BY <1>1 DEF In
<1> QED BY <1>1, <1>3, <1>4, <1>5

LEMMA ConcatKeeps ==
  ASSUME NEW S, NEW s \in Seq(S), NEW t \in Seq(S), NoDup(s), NoDup(t),
         \A y : ~(In(y, s) /\ In(y, t))
  PROVE  /\ s \o t \in Seq(S)
         /\ NoDup(s \o t)
         /\ \A y : In(y, s \o t) <=> In(y, s) \/ In(y, t)
<1>1. /\ s \o t \in Seq(S)
      /\ Len(s) \in Nat /\ Len(t) \in Nat
      /\ DOMAIN s = 1 .. Len(s) /\ DOMAIN t = 1 .. Len(t)
      /\ DOMAIN (s \o t) = 1 .. Len(s) + Len(t)
      /\ \A n \in 1 .. Len(s) + Len(t) :
           (s \o t)[n] = IF n <= Len(s) THEN s[n] ELSE t[n - Len(s)]
  OBVIOUS
<1>2. \A n \in DOMAIN (s \o t) :
        \/ n \in DOMAIN s /\ (s \o t)[n] = s[n]
        \/ n > Len(s) /\ n - Len(s) \in DOMAIN t /\ (s \o t)[n] = t[n - Len(s)]
  BY <1>1
<1>3. \A y : In(y, s \o t) <=> In(y, s) \/ In(y, t)
  <2>1. \A y : In(y, s \o t) => In(y, s) \/ In(y, t)
    BY <1>2 DEF In
  <2>2. \A y : In(y, s) => In(y, s \o t)
    BY <1>1 DEF In
  <2>3. \A y : In(y, t) => In(y, s \o t)
    <3>1. \A n \in DOMAIN t : Len(s) + n \in DOMAIN (s \o t) /\ (s \o t)[Len(s) + n] = t[n]
      BY <1>1
    <3> QED BY <3>1 DEF In
  <2> QED BY <2>1, <2>2, <2>3
<1>4. NoDup(s \o t)
  <2> SUFFICES ASSUME NEW m \in DOMAIN (s \o t), NEW n \in DOMAIN (s \o t), (s \o t)[m] = (s \o t)[n]
               PROVE  m = n
    BY DEF NoDup
  <2>1. m \in Nat /\ n \in Nat
    BY <1>1
  <2>2. CASE m \in DOMAIN s /\ (s \o t)[m] = s[m]
    BY <1>2, <2>2 DEF NoDup, In
  <2>3. CASE m > Len(s) /\ m - Len(s) \in DOMAIN t /\ (s \o t)[m] = t[m - Len(s)]
    <3>1. ~(n \in DOMAIN s /\ (s \o t)[n] = s[n])
      BY <2>3 DEF In
    <3>2. n > Len(s) /\ n - Len(s) \in DOMAIN t /\ (s \o t)[n] = t[n - Len(s)]
      BY <1>2, <3>1
    <3>3. m - Len(s) = n - Len(s)
      BY <2>3, <3>2 DEF NoDup
    <3> QED BY <3>3, <2>1, <1>1
  <2> QED BY <1>2, <2>2, <2>3
<1> QED BY <1>1, <1>3, <1>4

\* An order in which a dead worker's items are dispatched again.
LEMMA OrderKeeps ==
  ASSUME NEW S, IsFiniteSet(S), NEW order \in Orders(S)
  PROVE  /\ order \in Seq(S)
         /\ NoDup(order)
         /\ \A y : In(y, order) <=> y \in S
<1>1. Cardinality(S) \in Nat
  BY FS_CardinalityType
<1>2. order \in [1 .. Cardinality(S) -> S] /\ NoDup(order)
  BY DEF Orders, NoDup
<1>3. order \in Seq(S)
  BY <1>1, <1>2
<1>4. order \in Injection(1 .. Cardinality(S), S)
  BY <1>2 DEF NoDup, Injection, IsInjective
<1>5. Cardinality(1 .. Cardinality(S)) = Cardinality(S)
  BY <1>1, FS_Interval
<1>6. order \in Surjection(1 .. Cardinality(S), S)
  BY <1>4, <1>5, FS_Injection
<1>7. \A y \in S : In(y, order)
  BY <1>2, <1>6 DEF Surjection, In
<1> QED BY <1>2, <1>3, <1>7 DEF In

-----------------------------------------------------------------------------
(* Types *)

LEMMA NotifyType ==
  ASSUME TypeOK, NotifyDrained
  PROVE  poolJob' \in {"none", "draining", "collecting", "done"} /\ collecting' \subseteq Workers
BY DEF TypeOK, NotifyDrained

LEMMA CollectedType ==
  ASSUME TypeOK, NEW w \in Workers, Collected(w)
  PROVE  poolJob' \in {"none", "draining", "collecting", "done"} /\ collecting' \subseteq Workers
BY NotifyType DEF TypeOK, Collected

LEMMA BatchType ==
  ASSUME TypeOK, NEW w \in Workers, NEW q \in SUBSET Items, StartBatch(w, q)
  PROVE  /\ status' \in [Items -> {"new", "queued", "running"} \cup Final]
         /\ state' \in [Workers -> {"dead", "idle", "running"}]
         /\ queue' \in [Workers -> SUBSET Items]
         /\ batch' \in [Workers -> SUBSET Items]
         /\ turn' \in [Workers -> {"none", "job", "ending", "unregistered"}]
         /\ \A v \in Workers : turn'[v] # "none" <=> state'[v] = "running"
         /\ \A v \in Workers : turn'[v] \notin {"job", "unregistered"} => batch'[v] = {}
BY DEF TypeOK, StartBatch

\* The dispatch of the first item in the chain: it is dropped, waits for a
\* worker id or for a fresh worker, starts on an idle one or waits for a busy one.
Dropped == UNCHANGED <<status, spawning, freshQueue, workers>>
ToSpawn(i) ==
  /\ spawning' = spawning \cup {i} /\ status[i] = "queued" /\ Cardinality(Agents) < Limit
  /\ UNCHANGED <<status, freshQueue, workers>>
ToFresh(i) ==
  /\ freshQueue' = Append(freshQueue, i) /\ status[i] = "queued"
  /\ UNCHANGED <<status, spawning, workers>>
ToIdle(i) ==
  /\ status[i] = "queued" /\ UNCHANGED <<spawning, freshQueue>>
  /\ \E w \in Agents : state[w] = "idle" /\ StartBatch(w, queue[w] \cup {i})
ToBusy(i) ==
  /\ status[i] = "queued"
  /\ \E w \in Agents : queue' = [queue EXCEPT ![w] = @ \cup {i}]
  /\ UNCHANGED <<status, spawning, freshQueue, state, batch, turn>>

LEMMA DispatchCases ==
  ASSUME Dispatch
  PROVE  /\ chain # <<>> /\ spawning = {} /\ chain' = Tail(chain)
         /\ UNCHANGED <<freshAgents, closed, poolJob, collecting>>
         /\ \/ Dropped /\ (closed \/ status[Head(chain)] # "queued")
            \/ ~closed /\ ToSpawn(Head(chain))
            \/ ~closed /\ ToFresh(Head(chain))
            \/ ~closed /\ ToIdle(Head(chain))
            \/ ~closed /\ ~freshAgents /\ ToBusy(Head(chain))
BY Zenon DEF Dispatch, Dropped, ToSpawn, ToFresh, ToIdle, ToBusy

LEMMA TypeInit == Init => TypeOK
<1>1. <<>> \in Seq(Items)
  OBVIOUS
<1> QED BY <1>1 DEF Init, TypeOK

LEMMA TypeStep == TypeOK /\ [Next]_vars => TypeOK'
<1> SUFFICES ASSUME TypeOK, [Next]_vars PROVE TypeOK'
  OBVIOUS
<1>1. ASSUME NEW i \in Items, Push(i) PROVE TypeOK'
  <2>1. Append(chain, i) \in Seq(Items)
    BY DEF TypeOK
  <2> QED BY <1>1, <2>1 DEF TypeOK, Push, workers
<1>2. ASSUME Dispatch PROVE TypeOK'
  <2> DEFINE i == Head(chain)
  <2>1. /\ chain # <<>> /\ chain' = Tail(chain)
        /\ UNCHANGED <<freshAgents, closed, poolJob, collecting>>
    BY <1>2, DispatchCases
  <2>2. i \in Items /\ Tail(chain) \in Seq(Items)
    BY <2>1 DEF TypeOK
  <2> HIDE DEF i
  <2>3. CASE Dropped
    BY <2>1, <2>2, <2>3 DEF TypeOK, Dropped, workers
  <2>4. CASE ToSpawn(i)
    BY <2>1, <2>2, <2>4 DEF TypeOK, ToSpawn, workers
  <2>5. CASE ToFresh(i)
    <3>1. Append(freshQueue, i) \in Seq(Items)
      BY <2>2 DEF TypeOK
    <3> QED BY <2>1, <2>2, <2>5, <3>1 DEF TypeOK, ToFresh, workers
  <2>6. CASE ToIdle(i)
    <3>1. PICK w \in Workers : StartBatch(w, queue[w] \cup {i})
      BY <2>6 DEF ToIdle, Agents
    <3>2. queue[w] \cup {i} \in SUBSET Items
      BY <2>2 DEF TypeOK
    <3> QED BY <2>1, <2>2, <2>6, <3>1, <3>2, BatchType DEF TypeOK, ToIdle
  <2>7. CASE ToBusy(i)
    BY <2>1, <2>2, <2>7 DEF TypeOK, ToBusy, Agents
  <2> QED BY <1>2, DispatchCases, <2>3, <2>4, <2>5, <2>6, <2>7 DEF i
<1>3. ASSUME NEW i \in Items, Spawned(i) PROVE TypeOK'
  <2>1. CASE UNCHANGED <<status, workers>>
    BY <1>3, <2>1 DEF TypeOK, Spawned, workers
  <2>2. CASE \E w \in Workers \ Agents : StartBatch(w, {i})
    BY <1>3, <2>2, BatchType DEF TypeOK, Spawned
  <2> QED BY <1>3, <2>1, <2>2 DEF Spawned
<1>4. ASSUME NEW i \in Items, SpawnFails(i) PROVE TypeOK'
  BY <1>4, NotifyType DEF TypeOK, SpawnFails, workers, Final
<1>5. ASSUME NEW w \in Workers, TurnEnds(w) PROVE TypeOK'
  BY <1>5 DEF TypeOK, TurnEnds
<1>6. ASSUME NEW w \in Workers, Keep(w) PROVE TypeOK'
  <2>1. CASE queue[w] = {}
    BY <1>6, <2>1, CollectedType DEF TypeOK, Keep
  <2>2. CASE queue[w] # {}
    BY <1>6, <2>2, CollectedType, BatchType DEF TypeOK, Keep
  <2> QED BY <2>1, <2>2
<1>7. ASSUME NEW w \in Workers, Retire(w) PROVE TypeOK'
  <2>1. chain' \in Seq(Items) /\ freshQueue' \in Seq(Items)
    <3>1. CASE freshAgents /\ freshQueue # <<>>
      <4>1. Head(freshQueue) \in Items /\ Tail(freshQueue) \in Seq(Items)
        BY <3>1 DEF TypeOK
      <4>2. Append(chain, Head(freshQueue)) \in Seq(Items)
        BY <4>1 DEF TypeOK
      <4> QED BY <1>7, <3>1, <4>1, <4>2 DEF Retire
    <3>2. CASE freshAgents /\ freshQueue = <<>>
      BY <1>7, <3>2 DEF TypeOK, Retire
    <3>3. CASE ~freshAgents
      <4>1. PICK order \in Orders(queue[w]) : chain' = chain \o order
        BY <1>7, <3>3 DEF Retire
      <4>2. queue[w] \in SUBSET Items /\ IsFiniteSet(queue[w])
        BY WorkPoolAssumption, FS_Subset DEF TypeOK
      <4>3. order \in Seq(Items)
        BY <4>1, <4>2, OrderKeeps
      <4>4. chain \o order \in Seq(Items)
        BY <4>3 DEF TypeOK
      <4> QED BY <1>7, <3>3, <4>1, <4>4 DEF TypeOK, Retire
    <3> QED BY <3>1, <3>2, <3>3
  <2> QED BY <1>7, <2>1, CollectedType DEF TypeOK, Retire
<1>8. ASSUME Close PROVE TypeOK'
  <2>1. <<>> \in Seq(Items)
    OBVIOUS
  <2> QED BY <1>8, <2>1, NotifyType DEF TypeOK, Close, Final
<1>9. ASSUME PoolSettles PROVE TypeOK'
  BY <1>9 DEF TypeOK, PoolSettles, workers
<1>10. ASSUME UNCHANGED vars PROVE TypeOK'
  BY <1>10 DEF TypeOK, vars, workers
<1> QED BY <1>1, <1>2, <1>3, <1>4, <1>5, <1>6, <1>7, <1>8, <1>9, <1>10 DEF Next, Work

\* A worker has a turn exactly when it runs, and only one who has a turn has a
\* batch, whatever way its last turn ended.
THEOREM TypeCorrect == Spec => []TypeOK
<1>1. Init => TypeOK
  BY TypeInit
<1> QED BY <1>1, TypeStep, PTL DEF Spec

-----------------------------------------------------------------------------
(* The worker limit.  A dispatch checks it before it awaits an id and adds  *)
(* its worker after; the chain keeps any other from adding one meanwhile.   *)

LimitInv ==
  /\ Cardinality(Agents) <= Limit
  /\ spawning = {} \/ \E i \in Items : spawning = {i} /\ Cardinality(Agents) < Limit

LEMMA AgentsFinite == IsFiniteSet(Agents) /\ Cardinality(Agents) \in Nat
<1>1. Agents \subseteq Workers
  BY DEF Agents
<1> QED BY <1>1, WorkPoolAssumption, FS_Subset, FS_CardinalityType

\* A worker that starts a batch is a worker from then on, and no other is.
LEMMA BatchAgents ==
  ASSUME TypeOK, NEW w \in Workers, NEW q, StartBatch(w, q)
  PROVE  /\ Agents' = Agents \cup {w}
         /\ w \in Agents => Agents' = Agents
BY DEF TypeOK, StartBatch, Agents

LEMMA SameAgents ==
  ASSUME LimitInv, Agents' = Agents, spawning' = spawning
  PROVE  LimitInv'
BY DEF LimitInv

LEMMA LimitStep == TypeOK /\ LimitInv /\ [Next]_vars => LimitInv'
<1> SUFFICES ASSUME TypeOK, LimitInv, [Next]_vars PROVE LimitInv'
  OBVIOUS
<1>a. Limit \in Nat /\ Cardinality(Agents) \in Nat
  BY WorkPoolAssumption, AgentsFinite
<1>1. ASSUME NEW i \in Items, Push(i) PROVE LimitInv'
  BY <1>1, SameAgents DEF Push, workers, Agents
<1>2. ASSUME Dispatch PROVE LimitInv'
  <2>1. spawning = {} /\ chain # <<>>
    BY <1>2, DispatchCases
  <2>2. CASE Dropped
    BY <2>2, SameAgents DEF Dropped, workers, Agents
  <2>3. CASE ToSpawn(Head(chain))
    <3>1. Head(chain) \in Items
      BY <2>1 DEF TypeOK
    <3>2. Agents' = Agents
      BY <2>3 DEF ToSpawn, workers, Agents
    <3>3. spawning' = {Head(chain)} /\ Cardinality(Agents) < Limit
      BY <2>1, <2>3 DEF ToSpawn
    <3> QED BY <3>1, <3>2, <3>3, <1>a DEF LimitInv
  <2>4. CASE ToFresh(Head(chain))
    BY <2>4, SameAgents DEF ToFresh, workers, Agents
  <2>5. CASE ToIdle(Head(chain))
    <3>1. PICK w \in Agents : StartBatch(w, queue[w] \cup {Head(chain)})
      BY <2>5 DEF ToIdle
    <3>2. Agents' = Agents
      BY <3>1, BatchAgents DEF Agents
    <3> QED BY <2>5, <3>2, SameAgents DEF ToIdle
  <2>6. CASE ToBusy(Head(chain))
    BY <2>6, SameAgents DEF ToBusy, Agents
  <2> QED BY <1>2, DispatchCases, <2>2, <2>3, <2>4, <2>5, <2>6
<1>3. ASSUME NEW i \in Items, Spawned(i) PROVE LimitInv'
  <2>1. spawning = {i} /\ spawning' = {} /\ Cardinality(Agents) < Limit
    BY <1>3 DEF LimitInv, Spawned
  <2>2. CASE UNCHANGED workers
    <3>1. Agents' = Agents
      BY <2>2 DEF workers, Agents
    <3> QED BY <2>1, <3>1, <1>a DEF LimitInv
  <2>3. CASE \E w \in Workers \ Agents : StartBatch(w, {i})
    <3>1. PICK w \in Workers \ Agents : StartBatch(w, {i})
      BY <2>3
    <3>2. Agents' = Agents \cup {w}
      BY <3>1, BatchAgents
    <3>3. Cardinality(Agents') = Cardinality(Agents) + 1
      BY <3>1, <3>2, AgentsFinite, FS_AddElement
    <3>4. Cardinality(Agents') <= Limit
      BY <2>1, <3>3, <1>a
    <3> QED BY <2>1, <3>4 DEF LimitInv
  <2> QED BY <1>3, <2>2, <2>3 DEF Spawned
<1>4. ASSUME NEW i \in Items, SpawnFails(i) PROVE LimitInv'
  <2>1. Agents' = Agents /\ spawning' = {}
    BY <1>4 DEF SpawnFails, workers, Agents, LimitInv
  <2> QED BY <2>1 DEF LimitInv
<1>5. ASSUME NEW w \in Workers, TurnEnds(w) PROVE LimitInv'
  BY <1>5, SameAgents DEF TurnEnds, Agents
<1>6. ASSUME NEW w \in Workers, Keep(w) PROVE LimitInv'
  <2>1. w \in Agents
    BY <1>6 DEF Keep, Agents, TypeOK
  <2>2. CASE queue[w] = {}
    <3>1. Agents' = Agents
      BY <1>6, <2>1, <2>2 DEF Keep, Agents, TypeOK
    <3> QED BY <1>6, <3>1, SameAgents DEF Keep
  <2>3. CASE queue[w] # {}
    <3>1. Agents' = Agents
      BY <1>6, <2>1, <2>3, BatchAgents DEF Keep
    <3> QED BY <1>6, <3>1, SameAgents DEF Keep
  <2> QED BY <2>2, <2>3
<1>7. ASSUME NEW w \in Workers, Retire(w) PROVE LimitInv'
  <2>1. Agents' \subseteq Agents /\ spawning' = spawning
    BY <1>7 DEF Retire, Agents, TypeOK
  <2>2. Cardinality(Agents') <= Cardinality(Agents) /\ Cardinality(Agents') \in Nat
    BY <2>1, AgentsFinite, FS_Subset, FS_CardinalityType
  <2> QED BY <2>1, <2>2, <1>a DEF LimitInv
<1>8. ASSUME Close PROVE LimitInv'
  BY <1>8, SameAgents DEF Close, Agents
<1>9. ASSUME PoolSettles PROVE LimitInv'
  BY <1>9, SameAgents DEF PoolSettles, workers, Agents
<1>10. ASSUME UNCHANGED vars PROVE LimitInv'
  BY <1>10, SameAgents DEF vars, workers, Agents
<1> QED BY <1>1, <1>2, <1>3, <1>4, <1>5, <1>6, <1>7, <1>8, <1>9, <1>10 DEF Next, Work

\* However many workers and items there are, the pool never has more workers
\* than task.maxConcurrency allows.
THEOREM WithinLimit == Spec => []WorkerLimit
<1>1. Init => LimitInv
  <2> SUFFICES ASSUME Init PROVE LimitInv
    OBVIOUS
  <2>1. Agents = {}
    BY DEF Init, Agents
  <2> QED BY <2>1, FS_EmptySet, WorkPoolAssumption DEF Init, LimitInv
<1>2. LimitInv => WorkerLimit
  BY DEF LimitInv, WorkerLimit
<1> QED BY <1>1, <1>2, LimitStep, TypeCorrect, PTL DEF Spec

-----------------------------------------------------------------------------
(* Where items are *)

Loose(i) == In(i, chain) \/ In(i, freshQueue) \/ i \in spawning

OneWait ==
  /\ NoDup(chain) /\ NoDup(freshQueue)
  /\ \A i \in Items : /\ ~(In(i, chain) /\ In(i, freshQueue))
                      /\ ~(In(i, chain) /\ i \in spawning)
                      /\ ~(In(i, freshQueue) /\ i \in spawning)

Pushed == \A i \in Items : Loose(i) => status[i] # "new"

QueueInv ==
  /\ \A w \in Workers : \A i \in queue[w] : status[i] = "queued" /\ ~Loose(i)
  /\ \A v, w \in Workers : v # w => queue[v] \cap queue[w] = {}

BatchInv ==
  /\ \A w \in Workers : \A i \in batch[w] : status[i] = "running"
  /\ \A v, w \in Workers : v # w => batch[v] \cap batch[w] = {}

\* An unsettled item is loose, in one queue or in one batch, and in no two.
Held == OneWait /\ Pushed /\ QueueInv /\ BatchInv

\* The pool job stopped waiting because the pool had drained.
PoolInv ==
  /\ poolJob \in {"collecting", "done"} => Drained(status)
  /\ poolJob = "done" => closed
  /\ poolJob # "none" => \E i \in Items : status[i] # "new"

Inv == TypeOK /\ Held /\ PoolInv

\* Items only become running or settled, and only those that had not.
Forward ==
  \A i \in Items : status'[i] # status[i] =>
    status[i] \in {"queued", "running"} /\ status'[i] \in {"running"} \cup Final

LEMMA ForwardSettles ==
  ASSUME TypeOK, Forward, poolJob' = "done" <=> poolJob = "done"
  PROVE  Promise!Settle
BY DEF TypeOK, Forward, Promise!Settle, Final

LEMMA NotifyPool ==
  ASSUME TypeOK, PoolInv, Forward, NotifyDrained, closed => closed'
  PROVE  PoolInv' /\ (poolJob' = "done" <=> poolJob = "done")
BY DEF TypeOK, PoolInv, Forward, NotifyDrained, Drained, Final

LEMMA CollectedPool ==
  ASSUME TypeOK, PoolInv, Forward, NEW w \in Workers, Collected(w), closed => closed'
  PROVE  PoolInv' /\ (poolJob' = "done" <=> poolJob = "done")
BY NotifyPool DEF TypeOK, PoolInv, Forward, Collected, Drained, Final

LEMMA SamePool ==
  ASSUME TypeOK, PoolInv, Forward, poolJob' = poolJob, closed' = closed
  PROVE  PoolInv'
BY DEF TypeOK, PoolInv, Forward, Drained, Final

\* A batch of queued items that no other worker has queued.
LEMMA BatchHeld ==
  ASSUME TypeOK, Held, NEW w \in Workers, NEW q \in SUBSET Items, StartBatch(w, q),
         \A i \in q : status[i] = "queued",
         \A v \in Workers \ {w} : queue[v] \cap q = {}
  PROVE  /\ Forward /\ BatchInv'
         /\ \A v \in Workers : \A i \in queue'[v] : i \in queue[v] /\ status'[i] = "queued"
         /\ \A i \in Items : status'[i] = "new" => status[i] = "new"
<1>1. Forward
  BY DEF StartBatch, Forward, TypeOK
<1>2. \A v \in Workers : \A i \in queue'[v] : i \in queue[v] /\ status'[i] = "queued"
  <2> SUFFICES ASSUME NEW v \in Workers, NEW i \in queue'[v]
               PROVE  i \in queue[v] /\ status'[i] = "queued"
    OBVIOUS
  <2>1. v # w /\ i \in queue[v] /\ i \in Items
    BY DEF StartBatch, TypeOK
  <2>2. i \notin q /\ status[i] = "queued"
    BY <2>1 DEF Held, QueueInv
  <2> QED BY <2>1, <2>2 DEF StartBatch
<1>3. BatchInv'
  <2>1. \A v \in Workers : batch'[v] = IF v = w THEN q ELSE batch[v]
    BY DEF StartBatch, TypeOK
  <2>2. \A v \in Workers : batch[v] \subseteq Items
    BY DEF TypeOK
  <2>3. \A v \in Workers : \A i \in batch'[v] : status'[i] = "running"
    BY <2>1, <2>2 DEF StartBatch, Held, BatchInv
  <2>4. \A v \in Workers : batch[v] \cap q = {}
    BY DEF Held, BatchInv
  <2>5. \A u, v \in Workers : u # v => batch'[u] \cap batch'[v] = {}
    BY <2>1, <2>4 DEF Held, BatchInv
  <2> QED BY <2>3, <2>5 DEF BatchInv
<1>4. \A i \in Items : status'[i] = "new" => status[i] = "new"
  BY DEF StartBatch, TypeOK
<1> QED BY <1>1, <1>2, <1>3, <1>4

\* Nothing becomes loose and nothing is queued.
LEMMA LessHeld ==
  ASSUME TypeOK, Held, NoDup(chain'), NoDup(freshQueue'),
         \A i \in Items : In(i, chain') => In(i, chain),
         \A i \in Items : In(i, freshQueue') => In(i, freshQueue),
         spawning' \subseteq spawning,
         \A i \in Items : status'[i] = "new" => status[i] = "new",
         \A v \in Workers : \A i \in queue'[v] : i \in queue[v] /\ status'[i] = "queued"
  PROVE  OneWait' /\ Pushed' /\ QueueInv'
<1>1. \A i \in Items : Loose(i)' => Loose(i)
  BY DEF Loose
<1>2. OneWait'
  BY DEF Held, OneWait
<1>3. Pushed'
  BY <1>1 DEF Held, Pushed
<1>4. QueueInv'
  BY <1>1 DEF Held, QueueInv, TypeOK
<1> QED BY <1>2, <1>3, <1>4

-----------------------------------------------------------------------------
(* The pool implements the drain *)

\* What a step that only moves or settles items has to show.
LEMMA QuietStep ==
  ASSUME Inv, TypeOK', Held', PoolInv', Forward, poolJob' = "done" <=> poolJob = "done"
  PROVE  Inv' /\ [Promise!Next]_(Promise!drain)
BY ForwardSettles DEF Inv, Promise!Next

\* The dispatch that takes i from the chain leaves it loose nowhere.
LEMMA TakenFromChain ==
  ASSUME TypeOK, Held, chain # <<>>, chain' = Tail(chain), spawning = {}
  PROVE  /\ Head(chain) \in Items /\ NoDup(chain')
         /\ \A i \in Items : In(i, chain') <=> In(i, chain) /\ i # Head(chain)
         /\ ~In(Head(chain), freshQueue) /\ Loose(Head(chain))
BY TailKeeps DEF TypeOK, Held, OneWait, Loose

LEMMA DispatchHeld ==
  ASSUME Inv, Dispatch
  PROVE  Held' /\ Forward
<1>1. /\ chain # <<>> /\ spawning = {} /\ chain' = Tail(chain)
      /\ TypeOK /\ Held
  BY DispatchCases DEF Inv
<1>i. PICK i \in Items : i = Head(chain)
  BY <1>1, TakenFromChain
<1>2. /\ i \in Items /\ NoDup(chain')
      /\ \A j \in Items : In(j, chain') => In(j, chain) /\ j # i
      /\ ~In(i, freshQueue) /\ Loose(i)
  BY <1>1, <1>i, TakenFromChain
<1>3. \A w \in Workers : \A j \in queue[w] : j \in Items /\ j # i /\ status[j] = "queued" /\ ~Loose(j)
  BY <1>1, <1>2 DEF Held, QueueInv, TypeOK
<1>4. CASE Dropped
  <2>1. OneWait' /\ Pushed' /\ QueueInv'
    BY <1>1, <1>2, <1>3, <1>4, LessHeld DEF Dropped, workers, Held, OneWait
  <2> QED BY <2>1, <1>1, <1>4 DEF Dropped, workers, Held, BatchInv, Forward
<1>5. CASE ToSpawn(i)
  <2>1. spawning' = {i} /\ UNCHANGED <<status, freshQueue, state, queue, batch, turn>>
    BY <1>1, <1>5 DEF ToSpawn, workers
  <2>2. OneWait'
    BY <2>1, <1>1, <1>2 DEF Held, OneWait
  <2>3. \A j \in Items : Loose(j)' => Loose(j)
    BY <2>1, <1>2 DEF Loose
  <2>4. Pushed' /\ QueueInv'
    BY <2>1, <2>3, <1>1, <1>3 DEF Held, Pushed, QueueInv
  <2> QED BY <2>1, <2>2, <2>4, <1>1 DEF Held, BatchInv, Forward
<1>6. CASE ToFresh(i)
  <2>1. /\ freshQueue' = Append(freshQueue, i)
        /\ UNCHANGED <<status, spawning, state, queue, batch, turn>>
    BY <1>6 DEF ToFresh, workers
  <2>2. /\ NoDup(freshQueue')
        /\ \A j : In(j, freshQueue') <=> In(j, freshQueue) \/ j = i
    BY <2>1, <1>1, <1>2, AppendKeeps DEF TypeOK, Held, OneWait
  <2>3. OneWait'
    BY <2>1, <2>2, <1>1, <1>2 DEF Held, OneWait
  <2>4. \A j \in Items : Loose(j)' => Loose(j)
    BY <2>1, <2>2, <1>2 DEF Loose
  <2>5. Pushed' /\ QueueInv'
    BY <2>1, <2>4, <1>1, <1>3 DEF Held, Pushed, QueueInv
  <2> QED BY <2>1, <2>3, <2>5, <1>1 DEF Held, BatchInv, Forward
<1>7. CASE ToIdle(i)
  <2>1. PICK w \in Workers : StartBatch(w, queue[w] \cup {i})
    BY <1>7 DEF ToIdle, Agents
  <2>2. /\ queue[w] \cup {i} \in SUBSET Items
        /\ \A j \in queue[w] \cup {i} : status[j] = "queued"
        /\ \A v \in Workers \ {w} : queue[v] \cap (queue[w] \cup {i}) = {}
    BY <1>1, <1>2, <1>3, <1>7 DEF ToIdle, TypeOK, Held, QueueInv
  <2>3. /\ Forward /\ BatchInv'
        /\ \A v \in Workers : \A j \in queue'[v] : j \in queue[v] /\ status'[j] = "queued"
        /\ \A j \in Items : status'[j] = "new" => status[j] = "new"
    BY <2>1, <2>2, <1>1, BatchHeld
  <2>4. OneWait' /\ Pushed' /\ QueueInv'
    BY <2>3, <1>1, <1>2, <1>7, LessHeld DEF ToIdle, Held, OneWait
  <2> QED BY <2>3, <2>4 DEF Held
<1>8. CASE ToBusy(i)
  <2>1. /\ UNCHANGED <<status, spawning, freshQueue, state, batch, turn>>
        /\ status[i] = "queued"
    BY <1>8 DEF ToBusy
  <2>2. PICK w \in Workers : queue' = [queue EXCEPT ![w] = @ \cup {i}]
    BY <1>8 DEF ToBusy, Agents
  <2>3. \A v \in Workers : queue'[v] = IF v = w THEN queue[v] \cup {i} ELSE queue[v]
    BY <2>2, <1>1 DEF TypeOK
  <2>4. OneWait' /\ ~Loose(i)'
    <3>1. OneWait'
      BY <2>1, <1>1, <1>2 DEF Held, OneWait
    <3>2. ~Loose(i)'
      BY <2>1, <1>1, <1>2 DEF Loose
    <3> QED BY <3>1, <3>2
  <2>5. \A j \in Items : Loose(j)' => Loose(j)
    BY <2>1, <1>2 DEF Loose
  <2>6. Pushed'
    BY <2>1, <2>5, <1>1 DEF Held, Pushed
  <2>7. \A v \in Workers : \A j \in queue'[v] : status'[j] = "queued" /\ ~Loose(j)'
    BY <2>1, <2>3, <2>4, <2>5, <1>3
  <2>8. \A u, v \in Workers : u # v => queue'[u] \cap queue'[v] = {}
    BY <2>3, <1>1, <1>3 DEF Held, QueueInv
  <2>9. QueueInv'
    BY <2>7, <2>8 DEF QueueInv
  <2> QED BY <2>1, <2>4, <2>6, <2>9, <1>1 DEF Held, BatchInv, Forward
<1> QED BY DispatchCases, <1>4, <1>5, <1>6, <1>7, <1>8, <1>i

LEMMA RetireHeld ==
  ASSUME Inv, NEW w \in Workers, Retire(w)
  PROVE  Held' /\ Forward
<1>1. /\ TypeOK /\ Held
      /\ UNCHANGED <<status, spawning, batch>>
      /\ \A v \in Workers : queue'[v] = IF v = w THEN {} ELSE queue[v]
  BY DEF Inv, Retire, TypeOK
<1>2. CASE UNCHANGED <<chain, freshQueue>>
  <2>1. OneWait' /\ Pushed' /\ QueueInv'
    BY <1>1, <1>2, LessHeld DEF Held, OneWait, QueueInv
  <2> QED BY <2>1, <1>1 DEF Held, BatchInv, Forward
<1>3. CASE freshAgents /\ freshQueue # <<>>
  <2> DEFINE i == Head(freshQueue)
  <2>1. chain' = Append(chain, i) /\ freshQueue' = Tail(freshQueue)
    BY <1>3 DEF Retire
  <2>2. /\ i \in Items /\ In(i, freshQueue) /\ NoDup(freshQueue')
        /\ \A j : In(j, freshQueue') => In(j, freshQueue) /\ j # i
    BY <2>1, <1>1, <1>3, TailKeeps DEF TypeOK, Held, OneWait
  <2>3. ~In(i, chain) /\ i \notin spawning
    BY <2>2, <1>1 DEF Held, OneWait
  <2>4. NoDup(chain') /\ \A j : In(j, chain') <=> In(j, chain) \/ j = i
    BY <2>1, <2>2, <2>3, <1>1, AppendKeeps DEF TypeOK, Held, OneWait
  <2> HIDE DEF i
  <2>5. OneWait'
    BY <2>2, <2>3, <2>4, <1>1 DEF Held, OneWait
  <2>6. \A j \in Items : Loose(j)' => Loose(j)
    BY <2>2, <2>4, <1>1 DEF Loose
  <2>7. Pushed' /\ QueueInv'
    BY <2>6, <1>1 DEF Held, Pushed, QueueInv, TypeOK
  <2> QED BY <2>5, <2>7, <1>1 DEF Held, BatchInv, Forward
<1>4. CASE ~freshAgents
  <2>1. PICK order \in Orders(queue[w]) : chain' = chain \o order
    BY <1>4 DEF Retire
  <2>2. queue[w] \in SUBSET Items /\ IsFiniteSet(queue[w])
    BY <1>1, WorkPoolAssumption, FS_Subset DEF TypeOK
  <2>3. order \in Seq(queue[w]) /\ NoDup(order) /\ \A j : In(j, order) => j \in queue[w]
    BY <2>2, OrderKeeps
  <2>4. order \in Seq(Items)
    BY <2>2, <2>3
  <2>5. \A j : ~(In(j, chain) /\ In(j, order))
    BY <2>3, <1>1 DEF Held, QueueInv, Loose
  <2>6. NoDup(chain') /\ \A j : In(j, chain') => In(j, chain) \/ j \in queue[w]
    BY <2>1, <2>3, <2>4, <2>5, <1>1, ConcatKeeps DEF TypeOK, Held, OneWait
  <2>7. \A j \in queue[w] : j \in Items /\ status[j] = "queued" /\ ~Loose(j)
    BY <2>2, <1>1 DEF Held, QueueInv
  <2>8. freshQueue' = freshQueue
    BY <1>4 DEF Retire
  <2>9. OneWait'
    BY <2>6, <2>7, <2>8, <1>1 DEF Held, OneWait, Loose
  <2>10. \A j \in Items : Loose(j)' => Loose(j) \/ j \in queue[w]
    BY <2>6, <2>8, <1>1 DEF Loose
  <2>11. Pushed'
    BY <2>7, <2>10, <1>1 DEF Held, Pushed
  <2>12. QueueInv'
    BY <2>10, <1>1 DEF Held, QueueInv, TypeOK
  <2> QED BY <2>9, <2>11, <2>12, <1>1 DEF Held, BatchInv, Forward
<1> QED BY <1>2, <1>3, <1>4 DEF Retire

\* Nobody pushes to a pool that collects its batches: every step keeps the
\* invariant and is a step of the drain or none.
LEMMA DrainStep ==
  ASSUME LatePush = FALSE, Inv, [Next]_vars
  PROVE  Inv' /\ [Promise!Next]_(Promise!drain)
<1>a. TypeOK /\ TypeOK' /\ Held /\ PoolInv
  BY TypeStep DEF Inv
<1>1. ASSUME NEW i \in Items, Push(i) PROVE Inv' /\ [Promise!Next]_(Promise!drain)
  <2>1. /\ status[i] = "new" /\ ~closed /\ poolJob \notin {"collecting", "done"}
        /\ status' = [status EXCEPT ![i] = "queued"]
        /\ chain' = Append(chain, i)
        /\ poolJob' = IF poolJob = "none" THEN "draining" ELSE poolJob
        /\ UNCHANGED <<spawning, freshQueue, queue, batch, closed>>
    BY <1>1, <1>a DEF Push, workers, PoolInv
  <2>2. ~Loose(i)
    BY <2>1, <1>a DEF Held, Pushed
  <2>3. NoDup(chain') /\ \A j : In(j, chain') <=> In(j, chain) \/ j = i
    BY <2>1, <2>2, <1>a, AppendKeeps DEF TypeOK, Held, OneWait, Loose
  <2>4. \A j \in Items : status'[j] = IF j = i THEN "queued" ELSE status[j]
    BY <2>1, <1>a DEF TypeOK
  <2>5. OneWait'
    BY <2>1, <2>2, <2>3, <1>a DEF Held, OneWait, Loose
  <2>6. \A j \in Items : Loose(j)' => Loose(j) \/ j = i
    BY <2>1, <2>3 DEF Loose
  <2>7. Pushed'
    BY <2>4, <2>6, <1>a DEF Held, Pushed
  <2>8. \A w \in Workers : i \notin queue[w] /\ i \notin batch[w]
    BY <2>1, <1>a DEF Held, QueueInv, BatchInv
  <2>9. QueueInv' /\ BatchInv'
    BY <2>1, <2>4, <2>6, <2>8, <1>a DEF Held, QueueInv, BatchInv, TypeOK
  <2>10. PoolInv'
    BY <2>1, <2>4, <1>a DEF PoolInv, TypeOK
  <2>11. Promise!Accept(i)
    BY <2>1, <2>4, <1>a DEF Promise!Accept, TypeOK
  <2> QED BY <2>5, <2>7, <2>9, <2>10, <2>11, <1>a DEF Inv, Held, Promise!Next
<1>2. ASSUME Dispatch PROVE Inv' /\ [Promise!Next]_(Promise!drain)
  <2>1. Held' /\ Forward
    BY <1>2, DispatchHeld
  <2>2. UNCHANGED <<closed, poolJob>>
    BY <1>2, DispatchCases
  <2>3. PoolInv'
    BY <2>1, <2>2, <1>a, SamePool
  <2> QED BY <2>1, <2>2, <2>3, <1>a, QuietStep
<1>3. ASSUME NEW i \in Items, Spawned(i) PROVE Inv' /\ [Promise!Next]_(Promise!drain)
  <2>1. UNCHANGED <<chain, freshQueue, closed, poolJob>> /\ spawning' = spawning \ {i} /\ Loose(i)
    BY <1>3 DEF Spawned, Loose
  <2>2. CASE UNCHANGED <<status, workers>>
    <3>1. UNCHANGED <<status, queue, batch>>
      BY <2>2 DEF workers
    <3>2. OneWait' /\ Pushed' /\ QueueInv'
      BY <2>1, <3>1, <1>a, LessHeld DEF Held, OneWait, QueueInv
    <3>3. BatchInv' /\ Forward
      BY <3>1, <1>a DEF Held, BatchInv, Forward
    <3> QED BY <2>1, <3>2, <3>3, <1>a, SamePool, QuietStep DEF Held
  <2>3. CASE status[i] = "queued" /\ \E w \in Workers \ Agents : StartBatch(w, {i})
    <3>1. PICK w \in Workers : StartBatch(w, {i})
      BY <2>3
    <3>2. \A v \in Workers \ {w} : queue[v] \cap {i} = {}
      BY <2>1, <1>a DEF Held, QueueInv
    <3>3. /\ Forward /\ BatchInv'
          /\ \A v \in Workers : \A j \in queue'[v] : j \in queue[v] /\ status'[j] = "queued"
          /\ \A j \in Items : status'[j] = "new" => status[j] = "new"
      BY <2>3, <3>1, <3>2, <1>a, BatchHeld
    <3>4. OneWait' /\ Pushed' /\ QueueInv'
      BY <2>1, <3>3, <1>a, LessHeld DEF Held, OneWait
    <3> QED BY <2>1, <3>3, <3>4, <1>a, SamePool, QuietStep DEF Held
  <2> QED BY <1>3, <2>2, <2>3 DEF Spawned
<1>4. ASSUME NEW i \in Items, SpawnFails(i) PROVE Inv' /\ [Promise!Next]_(Promise!drain)
  <2>1. /\ UNCHANGED <<chain, freshQueue, queue, batch, closed>>
        /\ spawning' = spawning \ {i} /\ Loose(i) /\ NotifyDrained
        /\ status' = IF status[i] = "queued" THEN [status EXCEPT ![i] = "failed"] ELSE status
    BY <1>4 DEF SpawnFails, workers, Loose
  <2>2. \A j \in Items : status'[j] = IF j = i /\ status[i] = "queued" THEN "failed" ELSE status[j]
    BY <2>1, <1>a DEF TypeOK
  <2>3. Forward
    BY <2>2 DEF Forward, Final
  <2>4. \A v \in Workers : \A j \in queue'[v] : j \in queue[v] /\ status'[j] = "queued"
    BY <2>1, <2>2, <1>a DEF Held, QueueInv, TypeOK
  <2>5. OneWait' /\ Pushed' /\ QueueInv'
    BY <2>1, <2>2, <2>4, <1>a, LessHeld DEF Held, OneWait
  <2>6. BatchInv'
    BY <2>1, <2>2, <1>a DEF Held, BatchInv, TypeOK
  <2> QED BY <2>1, <2>3, <2>5, <2>6, <1>a, NotifyPool, QuietStep DEF Held, Inv
<1>5. ASSUME NEW w \in Workers, TurnEnds(w) PROVE Inv' /\ [Promise!Next]_(Promise!drain)
  <2>1. /\ UNCHANGED <<chain, spawning, freshQueue, queue, closed, poolJob>>
        /\ batch' = [batch EXCEPT ![w] = {}]
    BY <1>5 DEF TurnEnds
  <2>2. \A j \in Items : IF j \in batch[w] THEN status'[j] \in Final ELSE status'[j] = status[j]
    BY <1>5 DEF TurnEnds
  <2>3. \A j \in batch[w] : j \in Items /\ status[j] = "running"
    BY <1>a DEF Held, BatchInv, TypeOK
  <2>4. Forward
    BY <2>2, <2>3 DEF Forward
  <2>5. \A v \in Workers : \A j \in queue'[v] : j \in queue[v] /\ status'[j] = "queued"
    BY <2>1, <2>2, <2>3, <1>a DEF Held, QueueInv, TypeOK
  <2>6. OneWait' /\ Pushed' /\ QueueInv'
    BY <2>1, <2>2, <2>5, <1>a, LessHeld DEF Held, OneWait, Final
  <2>7. \A v \in Workers : batch'[v] = IF v = w THEN {} ELSE batch[v]
    BY <2>1, <1>a DEF TypeOK
  <2>8. BatchInv'
    BY <2>2, <2>7, <1>a DEF Held, BatchInv, TypeOK
  <2> QED BY <2>1, <2>4, <2>6, <2>8, <1>a, SamePool, QuietStep DEF Held
<1>6. ASSUME NEW w \in Workers, Keep(w) PROVE Inv' /\ [Promise!Next]_(Promise!drain)
  <2>1. UNCHANGED <<chain, spawning, freshQueue, closed>> /\ Collected(w)
    BY <1>6 DEF Keep
  <2>2. CASE queue[w] = {}
    <3>1. UNCHANGED <<status, queue, batch>>
      BY <1>6, <2>2 DEF Keep
    <3> QED BY <2>1, <3>1, <1>a, CollectedPool, QuietStep
         DEF Held, OneWait, Pushed, QueueInv, BatchInv, Loose, Forward
  <2>3. CASE StartBatch(w, queue[w])
    <3>1. /\ queue[w] \in SUBSET Items
          /\ \A j \in queue[w] : status[j] = "queued"
          /\ \A v \in Workers \ {w} : queue[v] \cap queue[w] = {}
      BY <1>a DEF Held, QueueInv, TypeOK
    <3>2. /\ Forward /\ BatchInv'
          /\ \A v \in Workers : \A j \in queue'[v] : j \in queue[v] /\ status'[j] = "queued"
          /\ \A j \in Items : status'[j] = "new" => status[j] = "new"
      BY <2>3, <3>1, <1>a, BatchHeld
    <3>3. OneWait' /\ Pushed' /\ QueueInv'
      BY <2>1, <3>2, <1>a, LessHeld DEF Held, OneWait
    <3> QED BY <2>1, <3>2, <3>3, <1>a, CollectedPool, QuietStep DEF Held
  <2> QED BY <1>6, <2>2, <2>3 DEF Keep
<1>7. ASSUME NEW w \in Workers, Retire(w) PROVE Inv' /\ [Promise!Next]_(Promise!drain)
  <2>1. Held' /\ Forward
    BY <1>7, RetireHeld
  <2>2. closed' = closed /\ Collected(w)
    BY <1>7 DEF Retire
  <2> QED BY <2>1, <2>2, <1>a, CollectedPool, QuietStep
<1>8. ASSUME Close PROVE Inv' /\ [Promise!Next]_(Promise!drain)
  <2>1. /\ UNCHANGED <<chain, spawning, batch>> /\ freshQueue' = <<>>
        /\ closed' = TRUE /\ NotifyDrained
        /\ \A w \in Workers : queue'[w] = {}
        /\ \A j \in Items : status'[j] = IF status[j] = "queued" THEN "cancelled" ELSE status[j]
    BY <1>8 DEF Close
  <2>2. Forward
    BY <2>1 DEF Forward, Final
  <2>3. NoDup(freshQueue') /\ \A j : ~In(j, freshQueue')
    BY <2>1 DEF NoDup, In
  <2>4. OneWait' /\ Pushed' /\ QueueInv'
    BY <2>1, <2>3, <1>a, LessHeld DEF Held, OneWait
  <2>5. BatchInv'
    BY <2>1, <1>a DEF Held, BatchInv, TypeOK
  <2> QED BY <2>1, <2>2, <2>4, <2>5, <1>a, NotifyPool, QuietStep DEF Held
<1>9. ASSUME PoolSettles PROVE Inv' /\ [Promise!Next]_(Promise!drain)
  <2>1. /\ UNCHANGED <<status, chain, spawning, freshQueue, queue, batch>>
        /\ poolJob = "collecting" /\ poolJob' = "done" /\ closed' = TRUE
    BY <1>9 DEF PoolSettles, workers
  <2>2. Held'
    BY <2>1, <1>a DEF Held, OneWait, Pushed, QueueInv, BatchInv, Loose
  <2>3. PoolInv'
    BY <2>1, <1>a DEF PoolInv, Drained
  <2>4. Promise!Report
    <3>1. \A j \in Items : status[j] \in {"new"} \cup Final
      BY <2>1, <1>a DEF PoolInv, Drained, TypeOK
    <3>2. Promise!Settled
      BY <3>1 DEF Promise!Settled, Final
    <3>3. \E j \in Items : status[j] # "new" /\ status[j] \notin {"queued", "running"}
      BY <2>1, <1>a DEF PoolInv, Drained
    <3> QED BY <2>1, <3>2, <3>3 DEF Promise!Report
  <2> QED BY <2>2, <2>3, <2>4, <1>a DEF Inv, Promise!Next
<1>10. ASSUME UNCHANGED vars PROVE Inv' /\ [Promise!Next]_(Promise!drain)
  BY <1>10, <1>a DEF vars, workers, Inv, Held, OneWait, Pushed, QueueInv, BatchInv, Loose,
                     PoolInv, Drained, Promise!drain
<1> QED BY <1>1, <1>2, <1>3, <1>4, <1>5, <1>6, <1>7, <1>8, <1>9, <1>10 DEF Next, Work

LEMMA DrainInit == Init => Inv /\ Promise!Init
<1>1. ASSUME Init PROVE Inv /\ Promise!Init
  <2>1. TypeOK
    BY <1>1, TypeInit
  <2>2. \A j : ~In(j, chain) /\ ~In(j, freshQueue)
    BY <1>1 DEF Init, In
  <2>3. Held
    BY <1>1, <2>2 DEF Init, Held, OneWait, NoDup, Pushed, QueueInv, BatchInv, Loose
  <2>4. PoolInv
    BY <1>1 DEF Init, PoolInv
  <2>5. Promise!Init
    BY <1>1 DEF Init, Promise!Init
  <2> QED BY <2>1, <2>3, <2>4, <2>5 DEF Inv
<1> QED BY <1>1

\* A pool nobody pushes to while it collects its last batches settles every
\* item it accepts once and reports once, after the last of them has settled.
THEOREM PoolImplementsDrain == (LatePush = FALSE) /\ Spec => KeepsPromise
<1>1. CASE LatePush = FALSE
  <2>1. Inv /\ [Next]_vars => Inv' /\ [Promise!Next]_(Promise!drain)
    BY <1>1, DrainStep
  <2> QED BY <2>1, DrainInit, PTL DEF Spec, KeepsPromise, Promise!Spec
<1> QED BY <1>1

-----------------------------------------------------------------------------
\* A closed pool has nothing queued for its workers.
ClosedInv == closed => \A w \in Workers : queue[w] = {}

Starts == \E i \in Items : status'[i] = "running" /\ status[i] # "running"

LEMMA ClosedStep ==
  ASSUME Inv, Inv', ClosedInv, [Next]_vars
  PROVE  ClosedInv' /\ (closed => ~Starts)
<1>a. TypeOK /\ Held /\ PoolInv
  BY DEF Inv
<1>1. ASSUME NEW i \in Items, Push(i) PROVE ClosedInv' /\ (closed => ~Starts)
  BY <1>1 DEF Push, workers, ClosedInv
<1>2. ASSUME Dispatch PROVE ClosedInv' /\ (closed => ~Starts)
  <2>1. CASE Dropped
    BY <1>2, <2>1, DispatchCases DEF Dropped, workers, ClosedInv, Starts
  <2>2. CASE ~closed
    BY <1>2, <2>2, DispatchCases DEF ClosedInv
  <2> QED BY <1>2, <2>1, <2>2, DispatchCases
<1>3. ASSUME NEW i \in Items, Spawned(i) PROVE ClosedInv' /\ (closed => ~Starts)
  <2>1. CASE UNCHANGED <<status, workers>>
    BY <1>3, <2>1 DEF Spawned, workers, ClosedInv, Starts
  <2>2. CASE ~closed
    BY <1>3, <2>2 DEF Spawned, ClosedInv
  <2> QED BY <1>3, <2>1, <2>2 DEF Spawned
<1>4. ASSUME NEW i \in Items, SpawnFails(i) PROVE ClosedInv' /\ (closed => ~Starts)
  <2>1. UNCHANGED <<queue, closed>>
    BY <1>4 DEF SpawnFails, workers
  <2>2. ~Starts
    BY <1>4, <1>a DEF SpawnFails, Starts, TypeOK
  <2> QED BY <2>1, <2>2 DEF ClosedInv
<1>5. ASSUME NEW w \in Workers, TurnEnds(w) PROVE ClosedInv' /\ (closed => ~Starts)
  <2>1. UNCHANGED <<queue, closed>>
    BY <1>5 DEF TurnEnds
  <2>2. ~Starts
    BY <1>5, <1>a DEF TurnEnds, Starts, TypeOK, Final
  <2> QED BY <2>1, <2>2 DEF ClosedInv
<1>6. ASSUME NEW w \in Workers, Keep(w) PROVE ClosedInv' /\ (closed => ~Starts)
  <2>1. CASE queue[w] = {}
    BY <1>6, <2>1 DEF Keep, ClosedInv, Starts
  <2>2. CASE ~closed
    BY <1>6, <2>2 DEF Keep, ClosedInv
  <2> QED BY <2>1, <2>2 DEF ClosedInv
<1>7. ASSUME NEW w \in Workers, Retire(w) PROVE ClosedInv' /\ (closed => ~Starts)
  BY <1>7, <1>a DEF Retire, ClosedInv, Starts, TypeOK
<1>8. ASSUME Close PROVE ClosedInv' /\ (closed => ~Starts)
  BY <1>8 DEF Close, ClosedInv
<1>9. ASSUME PoolSettles PROVE ClosedInv' /\ (closed => ~Starts)
  <2>1. \A w \in Workers : queue[w] = {}
    BY <1>9, <1>a DEF PoolSettles, PoolInv, Drained, Held, QueueInv, TypeOK
  <2> QED BY <1>9, <2>1 DEF PoolSettles, workers, ClosedInv, Starts
<1>10. ASSUME UNCHANGED vars PROVE ClosedInv' /\ (closed => ~Starts)
  BY <1>10 DEF vars, workers, ClosedInv, Starts
<1> QED BY <1>1, <1>2, <1>3, <1>4, <1>5, <1>6, <1>7, <1>8, <1>9, <1>10 DEF Next, Work

\* Nothing starts in a closed pool, whether its owner closed it or its job did.
THEOREM NothingStartsClosed == (LatePush = FALSE) /\ Spec => ClosedStartsNothing
<1>1. CASE LatePush = FALSE
  <2>1. Inv /\ [Next]_vars => Inv'
    BY <1>1, DrainStep
  <2>2. Init => ClosedInv
    BY DEF Init, ClosedInv
  <2>3. Inv /\ Inv' /\ ClosedInv /\ [Next]_vars
          => ClosedInv' /\ [closed => \A i \in Items : status'[i] = "running" => status[i] = "running"]_vars
    BY ClosedStep DEF Starts
  <2> QED BY <2>1, <2>2, <2>3, DrainInit, PTL DEF Spec, ClosedStartsNothing
<1> QED BY <1>1

-----------------------------------------------------------------------------
(* Nothing is lost.  That no item is in two places is half of HeldOnce; the *)
(* other half is that whatever moves an item puts it somewhere: an item the *)
(* pool still wants is loose, queued for a worker or in a batch, and runs   *)
(* in a batch and nowhere else.  A closed pool wants none, and only a live  *)
(* worker of a pool that keeps its workers has items queued for it.         *)

Kept ==
  /\ \A i \in Items : status[i] = "queued" => Loose(i) \/ \E w \in Workers : i \in queue[w]
  /\ \A i \in Items : status[i] = "running" => ~Loose(i) /\ \E w \in Workers : i \in batch[w]
  /\ closed => \A i \in Items : status[i] # "queued"
  /\ \A w \in Workers : freshAgents \/ state[w] = "dead" => queue[w] = {}

\* A worker without a batch that starts one with everything queued for it, and with
\* items that are loose no longer.
LEMMA BatchKept ==
  ASSUME Inv, Kept, NEW w \in Workers, NEW q \in SUBSET Items, StartBatch(w, q),
         batch[w] = {}, queue[w] \subseteq q, \A i \in q : status[i] = "queued" /\ ~Loose(i)',
         \A i \in Items : Loose(i)' => Loose(i),
         \A i \in Items : Loose(i) => Loose(i)' \/ i \in q \/ status[i] # "queued",
         UNCHANGED <<closed, freshAgents>>
  PROVE  Kept'
<1>1. /\ \A i \in Items : status'[i] = IF i \in q THEN "running" ELSE status[i]
      /\ \A v \in Workers : /\ queue'[v] = IF v = w THEN {} ELSE queue[v]
                            /\ batch'[v] = IF v = w THEN q ELSE batch[v]
                            /\ state'[v] = IF v = w THEN "running" ELSE state[v]
  BY DEF StartBatch, Inv, TypeOK
<1>2. \A i \in Items : status'[i] = "queued" => Loose(i)' \/ \E v \in Workers : i \in queue'[v]
  <2> SUFFICES ASSUME NEW i \in Items, status'[i] = "queued", ~Loose(i)'
               PROVE  \E v \in Workers : i \in queue'[v]
    OBVIOUS
  <2>1. i \notin q /\ status[i] = "queued"
    BY <1>1
  <2>2. PICK v \in Workers : i \in queue[v]
    BY <2>1 DEF Kept
  <2> QED  BY <1>1, <2>1, <2>2
<1>3. \A i \in Items : status'[i] = "running" => ~Loose(i)' /\ \E v \in Workers : i \in batch'[v]
  <2> SUFFICES ASSUME NEW i \in Items, status'[i] = "running"
               PROVE  ~Loose(i)' /\ \E v \in Workers : i \in batch'[v]
    OBVIOUS
  <2>1. CASE i \in q
    BY <1>1, <2>1
  <2>2. CASE i \notin q
    <3>1. status[i] = "running"
      BY <1>1, <2>2
    <3>2. PICK v \in Workers : i \in batch[v]
      BY <3>1 DEF Kept
    <3> QED  BY <1>1, <3>1, <3>2 DEF Kept
  <2> QED  BY <2>1, <2>2
<1>4. /\ closed' => \A i \in Items : status'[i] # "queued"
      /\ \A v \in Workers : freshAgents' \/ state'[v] = "dead" => queue'[v] = {}
  BY <1>1 DEF Kept
<1> QED  BY <1>2, <1>3, <1>4 DEF Kept

LEMMA DispatchKept ==
  ASSUME Inv, Kept, Dispatch
  PROVE  Kept'
<1>1. /\ chain # <<>> /\ spawning = {} /\ chain' = Tail(chain)
      /\ UNCHANGED <<freshAgents, closed>>
      /\ TypeOK /\ Held
  BY DispatchCases DEF Inv
<1>i. PICK i \in Items : i = Head(chain)
  BY <1>1, TakenFromChain
<1>2. /\ \A j \in Items : In(j, chain') <=> In(j, chain) /\ j # i
      /\ ~In(i, freshQueue) /\ Loose(i)
  BY <1>1, <1>i, TakenFromChain
<1>3. CASE Dropped /\ (closed \/ status[i] # "queued")
  <2>1. UNCHANGED <<status, spawning, freshQueue, state, queue, batch>>
    BY <1>3 DEF Dropped, workers
  <2>2. \A j \in Items : Loose(j)' <=> Loose(j) /\ j # i
    BY <1>1, <1>2, <2>1 DEF Loose
  <2> QED  BY <1>1, <1>3, <2>1, <2>2 DEF Kept
<1>4. CASE ToSpawn(i)
  <2>1. spawning' = {i} /\ UNCHANGED <<status, freshQueue, state, queue, batch>>
    BY <1>1, <1>4 DEF ToSpawn, workers
  <2>2. \A j \in Items : Loose(j)' <=> Loose(j)
    BY <1>1, <1>2, <2>1 DEF Loose
  <2> QED  BY <1>1, <2>1, <2>2 DEF Kept
<1>5. CASE ToFresh(i)
  <2>1. /\ freshQueue' = Append(freshQueue, i)
        /\ UNCHANGED <<status, spawning, state, queue, batch>>
    BY <1>5 DEF ToFresh, workers
  <2>2. \A j : In(j, freshQueue') <=> In(j, freshQueue) \/ j = i
    BY <2>1, <1>1, <1>2, AppendKeeps DEF TypeOK, Held, OneWait
  <2>3. \A j \in Items : Loose(j)' <=> Loose(j)
    BY <1>1, <1>2, <2>1, <2>2 DEF Loose
  <2> QED  BY <1>1, <2>1, <2>3 DEF Kept
<1>6. CASE ToIdle(i)
  <2>1. PICK w \in Workers : state[w] = "idle" /\ StartBatch(w, queue[w] \cup {i})
    BY <1>6 DEF ToIdle, Agents
  <2>2. status[i] = "queued" /\ UNCHANGED <<spawning, freshQueue>>
    BY <1>6 DEF ToIdle
  <2>3. \A j \in Items : Loose(j)' <=> Loose(j) /\ j # i
    BY <1>1, <1>2, <2>2 DEF Loose
  <2>4. /\ batch[w] = {} /\ queue[w] \cup {i} \in SUBSET Items
        /\ \A j \in queue[w] \cup {i} : status[j] = "queued" /\ ~Loose(j)'
    BY <1>1, <2>1, <2>2, <2>3 DEF TypeOK, Held, QueueInv
  <2> QED  BY <1>1, <2>1, <2>3, <2>4, BatchKept
<1>7. CASE ~freshAgents /\ ToBusy(i)
  <2>1. UNCHANGED <<status, spawning, freshQueue, state, batch>> /\ status[i] = "queued"
    BY <1>7 DEF ToBusy
  <2>2. PICK w \in Agents : queue' = [queue EXCEPT ![w] = @ \cup {i}]
    BY <1>7 DEF ToBusy
  <2>3. /\ w \in Workers /\ state[w] # "dead"
        /\ \A v \in Workers : queue'[v] = IF v = w THEN queue[v] \cup {i} ELSE queue[v]
    BY <1>1, <2>2 DEF TypeOK, Agents
  <2>4. \A j \in Items : Loose(j)' <=> Loose(j) /\ j # i
    BY <1>1, <1>2, <2>1 DEF Loose
  <2> QED  BY <1>1, <1>7, <2>1, <2>3, <2>4 DEF Kept
<1> QED  BY DispatchCases, <1>i, <1>3, <1>4, <1>5, <1>6, <1>7

LEMMA RetireKept ==
  ASSUME Inv, Kept, NEW w \in Workers, Retire(w)
  PROVE  Kept'
<1>1. /\ TypeOK /\ Held
      /\ UNCHANGED <<freshAgents, closed, status, spawning, batch>>
      /\ \A v \in Workers : /\ queue'[v] = IF v = w THEN {} ELSE queue[v]
                            /\ state'[v] = IF v = w THEN "dead" ELSE state[v]
  BY DEF Inv, Retire, TypeOK
<1>2. ASSUME \A i \in Items : Loose(i)' <=> Loose(i) \/ i \in queue[w]
      PROVE  Kept'
  <2>1. \A i \in queue[w] : i \in Items /\ status[i] = "queued"
    BY <1>1 DEF TypeOK, Held, QueueInv
  <2> QED  BY <1>1, <1>2, <2>1 DEF Kept
<1>3. CASE freshAgents
  <2>1. queue[w] = {}
    BY <1>3 DEF Kept
  <2>2. CASE freshQueue = <<>>
    <3>1. UNCHANGED <<chain, freshQueue>>
      BY <1>3, <2>2 DEF Retire
    <3> QED  BY <1>1, <1>2, <2>1, <3>1 DEF Loose
  <2>3. CASE freshQueue # <<>>
    <3> DEFINE i == Head(freshQueue)
    <3>1. chain' = Append(chain, i) /\ freshQueue' = Tail(freshQueue)
      BY <1>3, <2>3 DEF Retire
    <3>2. /\ i \in Items /\ In(i, freshQueue)
          /\ \A j : In(j, freshQueue') <=> In(j, freshQueue) /\ j # i
      BY <3>1, <1>1, <2>3, TailKeeps DEF TypeOK, Held, OneWait
    <3>3. \A j : In(j, chain') <=> In(j, chain) \/ j = i
      BY <3>1, <3>2, <1>1, AppendKeeps DEF TypeOK, Held, OneWait
    <3> HIDE DEF i
    <3> QED  BY <1>1, <1>2, <2>1, <3>2, <3>3 DEF Loose
  <2> QED  BY <2>2, <2>3
<1>4. CASE ~freshAgents
  <2>1. PICK order \in Orders(queue[w]) : chain' = chain \o order
    BY <1>4 DEF Retire
  <2>2. queue[w] \in SUBSET Items /\ IsFiniteSet(queue[w])
    BY <1>1, WorkPoolAssumption, FS_Subset DEF TypeOK
  <2>3. order \in Seq(queue[w]) /\ NoDup(order) /\ \A j : In(j, order) <=> j \in queue[w]
    BY <2>2, OrderKeeps
  <2>4. order \in Seq(Items)
    BY <2>2, <2>3
  <2>5. \A j : ~(In(j, chain) /\ In(j, order))
    BY <2>3, <1>1 DEF Held, QueueInv, Loose
  <2>6. \A j : In(j, chain') <=> In(j, chain) \/ j \in queue[w]
    BY <2>1, <2>3, <2>4, <2>5, <1>1, ConcatKeeps DEF TypeOK, Held, OneWait
  <2>7. freshQueue' = freshQueue
    BY <1>4 DEF Retire
  <2> QED  BY <1>1, <1>2, <2>6, <2>7 DEF Loose
<1> QED  BY <1>3, <1>4

LEMMA KeptStep ==
  ASSUME LatePush = FALSE, Inv, Kept, [Next]_vars
  PROVE  Kept'
<1>a. TypeOK /\ Held /\ PoolInv
  BY DEF Inv
<1>b. ASSUME UNCHANGED <<freshAgents, closed, status, state, queue, batch>>,
             \A i \in Items : Loose(i)' <=> Loose(i)
      PROVE  Kept'
  BY <1>b DEF Kept
<1>1. ASSUME NEW i \in Items, Push(i)  PROVE Kept'
  <2>1. /\ status[i] = "new" /\ ~closed /\ chain' = Append(chain, i)
        /\ \A j \in Items : status'[j] = IF j = i THEN "queued" ELSE status[j]
        /\ UNCHANGED <<freshAgents, spawning, freshQueue, state, queue, batch, closed>>
    BY <1>1, <1>a DEF Push, workers, TypeOK
  <2>2. ~Loose(i)
    BY <2>1, <1>a DEF Held, Pushed
  <2>3. \A j : In(j, chain') <=> In(j, chain) \/ j = i
    BY <2>1, <2>2, <1>a, AppendKeeps DEF TypeOK, Held, OneWait, Loose
  <2>4. \A j \in Items : Loose(j)' <=> Loose(j) \/ j = i
    BY <2>1, <2>3 DEF Loose
  <2> QED  BY <2>1, <2>4 DEF Kept
<1>2. ASSUME NEW i \in Items, Spawned(i)  PROVE Kept'
  <2>1. UNCHANGED <<freshAgents, chain, freshQueue, closed>> /\ i \in spawning /\ spawning' = spawning \ {i}
    BY <1>2 DEF Spawned
  <2>2. \A j \in Items : Loose(j)' <=> Loose(j) /\ j # i
    BY <2>1, <1>a DEF Loose, Held, OneWait
  <2>3. CASE UNCHANGED <<status, workers>> /\ (closed \/ status[i] # "queued")
    BY <2>1, <2>2, <2>3 DEF Kept, workers
  <2>4. CASE status[i] = "queued" /\ \E w \in Workers \ Agents : StartBatch(w, {i})
    <3>1. PICK w \in Workers \ Agents : StartBatch(w, {i})
      BY <2>4
    <3>2. batch[w] = {} /\ queue[w] = {}
      BY <3>1, <1>a DEF Agents, TypeOK, Kept
    <3> QED  BY <2>1, <2>2, <2>4, <3>1, <3>2, BatchKept
  <2> QED  BY <1>2, <2>3, <2>4 DEF Spawned
<1>3. ASSUME NEW i \in Items, SpawnFails(i)  PROVE Kept'
  <2>1. /\ UNCHANGED <<freshAgents, chain, freshQueue, closed, state, queue, batch>>
        /\ i \in spawning /\ spawning' = spawning \ {i}
        /\ \A j \in Items : status'[j] = IF j = i /\ status[i] = "queued" THEN "failed" ELSE status[j]
    BY <1>3, <1>a DEF SpawnFails, workers, TypeOK
  <2>2. \A j \in Items : Loose(j)' <=> Loose(j) /\ j # i
    BY <2>1, <1>a DEF Loose, Held, OneWait
  <2> QED  BY <2>1, <2>2 DEF Kept
<1>4. ASSUME NEW w \in Workers, TurnEnds(w)  PROVE Kept'
  <2>1. /\ UNCHANGED <<freshAgents, chain, spawning, freshQueue, state, queue, closed>>
        /\ \A v \in Workers : batch'[v] = IF v = w THEN {} ELSE batch[v]
    BY <1>4, <1>a DEF TurnEnds, TypeOK
  <2>2. \A j \in Items : IF j \in batch[w] THEN status'[j] \in Final ELSE status'[j] = status[j]
    BY <1>4 DEF TurnEnds
  <2> QED  BY <2>1, <2>2 DEF Kept, Loose, Final
<1>5. ASSUME NEW w \in Workers, Keep(w)  PROVE Kept'
  <2>1. UNCHANGED <<freshAgents, chain, spawning, freshQueue, closed>> /\ turn[w] = "ending"
    BY <1>5 DEF Keep
  <2>2. \A j \in Items : Loose(j)' <=> Loose(j)
    BY <2>1 DEF Loose
  <2>3. CASE queue[w] = {}
    BY <1>5, <1>a, <2>1, <2>2, <2>3 DEF Keep, Kept, TypeOK
  <2>4. CASE StartBatch(w, queue[w])
    <3>1. /\ queue[w] \in SUBSET Items /\ batch[w] = {}
          /\ \A j \in queue[w] : status[j] = "queued" /\ ~Loose(j)
      BY <2>1, <1>a DEF Held, QueueInv, TypeOK
    <3> QED  BY <2>1, <2>2, <2>4, <3>1, BatchKept
  <2> QED  BY <1>5, <2>3, <2>4 DEF Keep
<1>6. ASSUME Close  PROVE Kept'
  <2>1. /\ UNCHANGED <<chain, spawning, batch>> /\ freshQueue' = <<>>
        /\ \A w \in Workers : queue'[w] = {}
        /\ \A j \in Items : status'[j] = IF status[j] = "queued" THEN "cancelled" ELSE status[j]
    BY <1>6 DEF Close
  <2>2. \A j : ~In(j, freshQueue')
    BY <2>1 DEF In
  <2>3. \A j \in Items : Loose(j)' => Loose(j)
    BY <2>1, <2>2 DEF Loose
  <2> QED  BY <2>1, <2>3 DEF Kept
<1>7. ASSUME PoolSettles  PROVE Kept'
  <2>1. \A j \in Items : status[j] # "queued"
    BY <1>7, <1>a DEF PoolSettles, PoolInv, Drained
  <2> QED  BY <1>7, <2>1 DEF PoolSettles, Kept, Loose, workers
<1>8. ASSUME UNCHANGED vars  PROVE Kept'
  BY <1>8, <1>b DEF vars, workers, Loose
<1> QED
  BY <1>1, <1>2, <1>3, <1>4, <1>5, <1>6, <1>7, <1>8, DispatchKept, RetireKept DEF Next, Work

LEMMA PlacesAre ==
  ASSUME NEW i, NEW p
  PROVE  p \in Places(i) <=>
           \/ \E n \in DOMAIN chain : chain[n] = i /\ p = <<"chain", n>>
           \/ \E n \in DOMAIN freshQueue : freshQueue[n] = i /\ p = <<"fresh", n>>
           \/ \E w \in Workers : i \in queue[w] /\ p = <<"queue", w>>
           \/ \E w \in Workers : i \in batch[w] /\ p = <<"batch", w>>
           \/ i \in spawning /\ p = <<"spawning", i>>
BY DEF Places

\* An item held somewhere, and nowhere else, has one place.
LEMMA OnePlace ==
  ASSUME Inv, Kept, NEW i \in Items, status[i] \in {"queued", "running"}
  PROVE  Cardinality(Places(i)) = 1
<1>1. TypeOK /\ OneWait /\ QueueInv /\ BatchInv
  BY DEF Inv, Held
<1>2. \E p : Places(i) = {p}
  <2>1. CASE In(i, chain)
    <3>1. PICK n \in DOMAIN chain : chain[n] = i
      BY <2>1 DEF In
    <3>2. \A m \in DOMAIN chain : chain[m] = i => m = n
      BY <1>1, <3>1 DEF OneWait, NoDup
    <3>3. /\ \A m \in DOMAIN freshQueue : freshQueue[m] # i
          /\ i \notin spawning
          /\ \A w \in Workers : i \notin queue[w] /\ i \notin batch[w]
      BY <1>1, <2>1 DEF OneWait, In, QueueInv, BatchInv, Loose, Kept
    <3>4. \A p : p \in Places(i) <=> p \in {<<"chain", n>>}
      BY <3>1, <3>2, <3>3, PlacesAre
    <3>5. Places(i) = {<<"chain", n>>}
      BY <3>4
    <3> QED  BY <3>5
  <2>2. CASE In(i, freshQueue)
    <3>1. PICK n \in DOMAIN freshQueue : freshQueue[n] = i
      BY <2>2 DEF In
    <3>2. \A m \in DOMAIN freshQueue : freshQueue[m] = i => m = n
      BY <1>1, <3>1 DEF OneWait, NoDup
    <3>3. /\ \A m \in DOMAIN chain : chain[m] # i
          /\ i \notin spawning
          /\ \A w \in Workers : i \notin queue[w] /\ i \notin batch[w]
      BY <1>1, <2>2 DEF OneWait, In, QueueInv, BatchInv, Loose, Kept
    <3>4. \A p : p \in Places(i) <=> p \in {<<"fresh", n>>}
      BY <3>1, <3>2, <3>3, PlacesAre
    <3>5. Places(i) = {<<"fresh", n>>}
      BY <3>4
    <3> QED  BY <3>5
  <2>3. CASE i \in spawning
    <3>1. /\ \A m \in DOMAIN chain : chain[m] # i
          /\ \A m \in DOMAIN freshQueue : freshQueue[m] # i
          /\ \A w \in Workers : i \notin queue[w] /\ i \notin batch[w]
      BY <1>1, <2>3 DEF OneWait, In, QueueInv, BatchInv, Loose, Kept
    <3>4. \A p : p \in Places(i) <=> p \in {<<"spawning", i>>}
      BY <2>3, <3>1, PlacesAre
    <3>5. Places(i) = {<<"spawning", i>>}
      BY <3>4
    <3> QED  BY <3>5
  <2>4. CASE ~Loose(i)
    <3>1. /\ \A m \in DOMAIN chain : chain[m] # i
          /\ \A m \in DOMAIN freshQueue : freshQueue[m] # i
          /\ i \notin spawning
      BY <2>4 DEF Loose, In
    <3>2. CASE \E w \in Workers : i \in queue[w]
      <4>1. PICK w \in Workers : i \in queue[w]
        BY <3>2
      <4>2. \A v \in Workers : i \notin batch[v] /\ (i \in queue[v] => v = w)
        BY <1>1, <4>1 DEF QueueInv, BatchInv
      <4>3. \A p : p \in Places(i) <=> p \in {<<"queue", w>>}
        BY <3>1, <4>1, <4>2, PlacesAre
      <4>4. Places(i) = {<<"queue", w>>}
        BY <4>3
      <4> QED  BY <4>4
    <3>3. CASE status[i] = "running"
      <4>1. PICK w \in Workers : i \in batch[w]
        BY <3>3 DEF Kept
      <4>2. \A v \in Workers : i \notin queue[v] /\ (i \in batch[v] => v = w)
        BY <1>1, <3>3, <4>1 DEF QueueInv, BatchInv
      <4>3. \A p : p \in Places(i) <=> p \in {<<"batch", w>>}
        BY <3>1, <4>1, <4>2, PlacesAre
      <4>4. Places(i) = {<<"batch", w>>}
        BY <4>3
      <4> QED  BY <4>4
    <3> QED  BY <2>4, <3>2, <3>3 DEF Kept
  <2> QED  BY <2>1, <2>2, <2>3, <2>4 DEF Loose
<1> QED  BY <1>2, FS_Singleton

\* Whatever workers die, hand over or are never there, an item that has not settled is
\* in exactly one place, and runs in exactly one batch.
THEOREM ItemsAreHeldOnce == (LatePush = FALSE) /\ Spec => []HeldOnce
<1>1. CASE LatePush = FALSE
  <2>1. Inv /\ [Next]_vars => Inv'
    BY <1>1, DrainStep
  <2>2. Inv /\ Kept /\ [Next]_vars => Kept'
    BY <1>1, KeptStep
  <2>3. Init => Kept
    BY DEF Init, Kept
  <2>4. Inv /\ Kept => HeldOnce
    BY OnePlace DEF HeldOnce, Inv, Held, BatchInv, Kept
  <2> QED BY <2>1, <2>2, <2>3, <2>4, DrainInit, PTL DEF Spec
<1> QED BY <1>1
-----------------------------------------------------------------------------
(* The aggregate report.  A drained pool starts no batch, so the jobs it    *)
(* takes when it stops waiting are all it has, and each leaves when it      *)
(* settles.                                                                *)

CollectInv ==
  /\ poolJob = "collecting" => Jobs \subseteq collecting
  /\ poolJob = "done" => Jobs = {}

LEMMA NotifyCollects ==
  ASSUME TypeOK, PoolInv, CollectInv, NotifyDrained, Jobs' \subseteq Jobs
  PROVE  CollectInv'
BY DEF CollectInv, NotifyDrained, Jobs, TypeOK

LEMMA CollectedCollects ==
  ASSUME TypeOK, PoolInv, CollectInv, NEW w \in Workers, Collected(w),
         \/ w \notin Jobs' /\ Jobs' \subseteq Jobs
         \/ poolJob \notin {"collecting", "done"} /\ ~Drained(status')
  PROVE  CollectInv'
<1>1. CASE poolJob = "collecting"
  BY <1>1 DEF Collected, CollectInv
<1>2. CASE poolJob # "collecting" /\ w \notin Jobs' /\ Jobs' \subseteq Jobs
  BY <1>2, NotifyCollects DEF Collected
<1>3. CASE poolJob \notin {"collecting", "done"} /\ ~Drained(status')
  BY <1>3 DEF Collected, NotifyDrained, CollectInv
<1> QED  BY <1>1, <1>2, <1>3

LEMMA CollectStep ==
  ASSUME LatePush = FALSE, Inv, Kept, CollectInv, [Next]_vars
  PROVE  CollectInv'
<1>a. TypeOK /\ Held /\ PoolInv
  BY DEF Inv
<1>b. ASSUME UNCHANGED <<turn, poolJob, collecting>>  PROVE CollectInv'
  BY <1>b DEF CollectInv, Jobs
<1>c. ASSUME NEW i \in Items, status[i] = "queued", UNCHANGED <<poolJob, collecting>>
      PROVE  CollectInv'
  BY <1>a, <1>c DEF CollectInv, PoolInv, Drained
<1>1. ASSUME NEW i \in Items, Push(i)  PROVE CollectInv'
  BY <1>1, <1>a DEF Push, workers, CollectInv, Jobs, PoolInv
<1>2. CASE Dispatch
  <2>1. chain # <<>> /\ Head(chain) \in Items /\ UNCHANGED <<poolJob, collecting>>
    BY <1>2, <1>a, DispatchCases DEF TypeOK
  <2>2. CASE Dropped
    BY <1>b, <2>1, <2>2 DEF Dropped, workers
  <2>3. CASE status[Head(chain)] = "queued"
    BY <1>c, <2>1, <2>3
  <2> QED  BY <1>2, <2>2, <2>3, DispatchCases DEF ToSpawn, ToFresh, ToIdle, ToBusy
<1>3. ASSUME NEW i \in Items, Spawned(i)  PROVE CollectInv'
  <2>1. UNCHANGED <<poolJob, collecting>>
    BY <1>3 DEF Spawned
  <2>2. CASE UNCHANGED workers
    BY <1>b, <2>1, <2>2 DEF workers
  <2>3. CASE status[i] = "queued"
    BY <1>c, <2>1, <2>3
  <2> QED  BY <1>3, <2>2, <2>3 DEF Spawned
<1>4. ASSUME NEW i \in Items, SpawnFails(i)  PROVE CollectInv'
  BY <1>4, <1>a, NotifyCollects DEF SpawnFails, workers, Jobs
<1>5. ASSUME NEW w \in Workers, TurnEnds(w)  PROVE CollectInv'
  <2>1. Jobs' = Jobs
    BY <1>5, <1>a DEF TurnEnds, Jobs, TypeOK
  <2> QED  BY <1>5, <2>1 DEF TurnEnds, CollectInv
<1>6. ASSUME NEW w \in Workers, Keep(w)  PROVE CollectInv'
  <2>1. CASE queue[w] = {}
    <3>1. w \notin Jobs' /\ Jobs' \subseteq Jobs
      BY <1>6, <1>a, <2>1 DEF Keep, Jobs, TypeOK
    <3> QED  BY <1>6, <1>a, <3>1, CollectedCollects DEF Keep
  <2>2. CASE queue[w] # {}
    <3>1. PICK i \in queue[w] : i \in Items
      BY <1>a, <2>2 DEF TypeOK
    <3>2. poolJob \notin {"collecting", "done"}
      BY <1>a, <3>1 DEF PoolInv, Drained, Held, QueueInv
    <3>3. ~Drained(status')
      BY <1>6, <1>a, <2>2, <3>1 DEF Keep, StartBatch, Drained, TypeOK
    <3> QED  BY <1>6, <1>a, <3>2, <3>3, CollectedCollects DEF Keep
  <2> QED  BY <2>1, <2>2
<1>7. ASSUME NEW w \in Workers, Retire(w)  PROVE CollectInv'
  <2>1. w \notin Jobs' /\ Jobs' \subseteq Jobs
    BY <1>7, <1>a DEF Retire, Jobs, TypeOK
  <2> QED  BY <1>7, <1>a, <2>1, CollectedCollects DEF Retire
<1>8. CASE Close
  BY <1>8, <1>a, NotifyCollects DEF Close, Jobs
<1>9. CASE PoolSettles
  BY <1>9 DEF PoolSettles, workers, CollectInv, Jobs
<1>10. CASE UNCHANGED vars
  BY <1>10, <1>b DEF vars
<1> QED  BY <1>1, <1>2, <1>3, <1>4, <1>5, <1>6, <1>7, <1>8, <1>9, <1>10 DEF Next, Work

\* The result reported when the pool's job settles is that of the whole pool, unless its
\* owner pushed while the last batches were collected (the finding of the late push).
THEOREM ReportIsComplete == (LatePush = FALSE) /\ Spec => []AggregateIsComplete
<1>1. CASE LatePush = FALSE
  <2>1. Inv /\ [Next]_vars => Inv'
    BY <1>1, DrainStep
  <2>2. Inv /\ Kept /\ [Next]_vars => Kept'
    BY <1>1, KeptStep
  <2>3. Inv /\ Kept /\ CollectInv /\ [Next]_vars => CollectInv'
    BY <1>1, CollectStep
  <2>4. Init => Kept /\ CollectInv
    BY DEF Init, Kept, CollectInv
  <2>5. Inv /\ CollectInv => AggregateIsComplete
    BY DEF Inv, PoolInv, CollectInv, AggregateIsComplete
  <2> QED BY <2>1, <2>2, <2>3, <2>4, <2>5, DrainInit, PTL DEF Spec
<1> QED BY <1>1
=============================================================================
