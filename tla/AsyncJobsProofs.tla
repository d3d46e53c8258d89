--------------------------- MODULE AsyncJobsProofs ---------------------------
(***************************************************************************)
(* For any number of ids, job objects and readers: the types of AsyncJobs, *)
(* and that the row of a job which has not ended is never taken away.      *)
(*                                                                         *)
(* The manager's methods are operators from one value of `m` to the next,  *)
(* so the induction is over values: `Sound` is what every method preserves,*)
(* each method has a lemma, and a step of the specification is a chain of  *)
(* them.                                                                   *)
(***************************************************************************)
EXTENDS AsyncJobs, TLAPS

\* A registered job whose run has not ended.
Unended(s, j) == s.job[j].st # "none" /\ ~s.job[j].ended

\* No id of I names such a job.
Free(s, I) == \A j \in Job : Unended(s, j) => IdOf[j] \notin I

\* What the argument needs of a value of the manager.
Core(s) ==
  /\ \A j \in Job : Unended(s, j) => s.row[IdOf[j]] = j /\ s.timer[IdOf[j]] = "none"
  /\ \A j \in Job : Settled(s, j) => s.job[j].ended
  /\ \A i \in Id : HasRow(s, i) => s.job[s.row[i]].st # "none"
  /\ \A i \in s.consumed : HasRow(s, i) /\ s.job[s.row[i]].ended
  /\ \A i \in Id : s.timer[i] # "none" => HasRow(s, i)

Sound(s) == s \in Manager /\ Core(s)

\* The methods that only touch markers and deliveries leave this alone.
SameCore(s, t) ==
  t.row = s.row /\ t.job = s.job /\ t.timer = s.timer /\ t.consumed = s.consumed
  /\ t.released = s.released

LEMMA SameCoreSound ==
  ASSUME NEW s, NEW t, Sound(s), t \in Manager, SameCore(s, t)
  PROVE  Sound(t)
BY DEF Sound, Core, SameCore, Unended, Settled, HasRow

\* Nothing un-ended has the id of a row whose job has ended.
LEMMA EndedIsFree ==
  ASSUME NEW s, Sound(s), NEW I \in SUBSET Id,
         \A i \in I : HasRow(s, i) /\ s.job[s.row[i]].ended
  PROVE  Free(s, I)
BY IdAssumption DEF Sound, Core, Free, Unended, HasRow

\* Nor has a timed row's.
LEMMA TimedIsFree ==
  ASSUME NEW s, Sound(s), NEW i \in Id, s.timer[i] # "none"
  PROVE  Free(s, {i})
BY DEF Sound, Core, Free

LEMMA ScheduleSound ==
  ASSUME NEW s, Sound(s), NEW I \in SUBSET Id, NEW delay \in Timer, Free(s, I),
         delay = "none" \/ \A i \in I : HasRow(s, i)
  PROVE  Sound(Schedule(s, I, delay))
<1>1. Schedule(s, I, delay) \in Manager
  BY DEF Schedule, Sound, Manager
<1>2. Core(Schedule(s, I, delay))
  BY IdAssumption DEF Schedule, Sound, Manager, Core, Free, Unended, Settled, HasRow
<1> QED BY <1>1, <1>2 DEF Sound

LEMMA EvictSound ==
  ASSUME NEW s, Sound(s), NEW I \in SUBSET Id, Free(s, I)
  PROVE  Sound(Evict(s, I))
<1> DEFINE t == Schedule(s, I, "none")
           emptied == [i \in Id |-> IF i \in I THEN NoJob ELSE s.row[i]]
<1>1. Sound(t)
  BY ScheduleSound DEF Timer
<1>2. /\ t.row = s.row /\ t.job = s.job /\ t.consumed = s.consumed
      /\ \A i \in Id : t.timer[i] = IF i \in I THEN "none" ELSE s.timer[i]
  BY DEF Schedule, Sound, Manager
<1>3. Evict(s, I) = [t EXCEPT !.suppressed = @ \ I, !.watched = @ \ I,
                              !.consumed = @ \ I, !.row = emptied]
  BY DEF Evict
<1>4. emptied \in [Id -> OptJob]
  BY DEF OptJob, Sound, Manager
<1> HIDE DEF t
<1>5. Evict(s, I) \in Manager
  <2> HIDE DEF emptied
  <2>1. t \in Manager
    BY <1>1 DEF Sound
  <2>2. /\ t.suppressed \ I \in SUBSET Id /\ t.watched \ I \in SUBSET Id
        /\ t.consumed \ I \in SUBSET Id
    BY <2>1 DEF Manager
  <2> QED BY <1>3, <1>4, <2>1, <2>2 DEF Manager
<1>6. Core(Evict(s, I))
  BY <1>1, <1>2, <1>3, IdAssumption, NilAssumption
  DEF Sound, Manager, Core, Free, Unended, Settled, HasRow
<1> QED BY <1>5, <1>6 DEF Sound

LEMMA DiscardSound ==
  ASSUME NEW s, Sound(s), NEW i \in Id, Free(s, {i})
  PROVE  Sound(Discard(s, i))
<1> DEFINE t == [s EXCEPT !.released = @ \ {i}]
<1>1. Sound(t)
  BY DEF Sound, Manager, Core, Unended, Settled, HasRow
<1>2. Free(t, {i})
  BY DEF Free, Unended, Sound, Manager
<1> QED BY <1>1, <1>2, EvictSound DEF Discard

LEMMA AttemptSame ==
  ASSUME NEW s, s \in Manager, NEW D \in SUBSET Delivery
  PROVE  Attempt(s, D) \in Manager /\ SameCore(s, Attempt(s, D))
<1>1. {d[1] : d \in D} \subseteq Job
  BY DEF Delivery
<1> QED BY <1>1 DEF Attempt, Manager, SameCore, Pc, Flying

LEMMA EnqueueSame ==
  ASSUME NEW s, s \in Manager, NEW J \in SUBSET Job, NEW now
  PROVE  Enqueue(s, J, now) \in Manager /\ SameCore(s, Enqueue(s, J, now))
<1> DEFINE D == {Slot(s, j) : j \in {k \in J : ~Suppressed(s, IdOf[k])}}
           q == [s EXCEPT !.dlv = [d \in Delivery |-> IF d \in D THEN "queued" ELSE s.dlv[d]]]
           A == {d \in D : d[1] \in now}
<1>1. A \in SUBSET Delivery
  <2>1. ASSUME NEW j \in J PROVE Slot(s, j) \in Delivery
    BY DEF Slot, Delivery
  <2> QED BY <2>1
<1>2. q \in Manager /\ SameCore(s, q)
  BY DEF Manager, SameCore, Pc
<1>3. Enqueue(s, J, now) = Attempt(q, A)
  BY DEF Enqueue
<1> HIDE DEF q, A
<1>4. Attempt(q, A) \in Manager /\ SameCore(q, Attempt(q, A))
  BY <1>1, <1>2, AttemptSame
<1> QED BY <1>2, <1>3, <1>4 DEF SameCore

LEMMA AcknowledgeSame ==
  ASSUME NEW s, s \in Manager, NEW I \in SUBSET Id
  PROVE  Acknowledge(s, I) \in Manager /\ SameCore(s, Acknowledge(s, I))
<1> DEFINE a == [s EXCEPT !.suppressed = @ \cup I]
<1>1. a \in Manager /\ SameCore(s, a) /\ a.dlv = s.dlv
  BY DEF Manager, SameCore
<1>2. Acknowledge(s, I) = [a EXCEPT !.dlv = [d \in Delivery |->
         IF s.dlv[d] \in {"queued", "retrying"} /\ Suppressed(a, IdFor(d)) THEN "none" ELSE s.dlv[d]]]
  BY DEF Acknowledge
<1> HIDE DEF a
<1> QED BY <1>1, <1>2 DEF Manager, SameCore, Pc

LEMMA UnwatchSame ==
  ASSUME NEW s, s \in Manager, NEW I \in SUBSET Id, NEW now
  PROVE  Unwatch(s, I, now) \in Manager /\ SameCore(s, Unwatch(s, I, now))
<1> DEFINE u == [s EXCEPT !.watched = @ \ I]
<1>1. u \in Manager /\ SameCore(s, u)
  BY DEF Manager, SameCore
<1>2. Skipped(s, I) \in SUBSET Job
  BY DEF Skipped
<1>3. Unwatch(s, I, now) = Enqueue(u, Skipped(s, I), now)
  BY DEF Unwatch
<1> HIDE DEF u
<1>4. Enqueue(u, Skipped(s, I), now) \in Manager /\ SameCore(u, Enqueue(u, Skipped(s, I), now))
  BY <1>1, <1>2, EnqueueSame
<1> QED BY <1>1, <1>3, <1>4 DEF SameCore

LEMMA ConsumeResultsSound ==
  ASSUME NEW s, Sound(s), NEW I \in SUBSET Id
  PROVE  Sound(ConsumeResults(s, I)) /\ ConsumeResults(s, I).job = s.job
<1> DEFINE C == {i \in I : HasRow(s, i) /\ i \notin s.consumed
                           /\ s.job[s.row[i]].st # "running" /\ s.job[s.row[i]].ended}
           c == [s EXCEPT !.consumed = @ \cup C]
           G == {i \in C : Pending(s, i) = {}}
<1>1. Sound(c)
  <2>1. c \in Manager
    BY DEF Sound, Manager
  <2>2. Core(c)
    BY DEF Sound, Manager, Core, Unended, Settled, HasRow
  <2> QED BY <2>1, <2>2 DEF Sound
<1>2. G \in SUBSET Id /\ \A i \in G : HasRow(c, i) /\ c.job[c.row[i]].ended
  BY DEF Sound, Manager, HasRow
<1>3. ConsumeResults(s, I) = Schedule(c, G, "grace")
  BY DEF ConsumeResults
<1>4. c.job = s.job
  BY DEF Sound, Manager
<1> HIDE DEF c, G
<1>5. Sound(Schedule(c, G, "grace"))
  BY <1>1, <1>2, EndedIsFree, ScheduleSound DEF Timer
<1>6. Schedule(c, G, "grace").job = c.job
  BY <1>1 DEF Schedule, Sound, Manager
<1> QED BY <1>3, <1>4, <1>5, <1>6

LEMMA ConsumeSound ==
  ASSUME NEW s, Sound(s), NEW I \in SUBSET Id
  PROVE  Sound(Consume(s, I))
<1>1. Sound(Acknowledge(s, I))
  BY AcknowledgeSame, SameCoreSound DEF Sound
<1> QED BY <1>1, ConsumeResultsSound DEF Consume

LEMMA UnwatchSound ==
  ASSUME NEW s, Sound(s), NEW I \in SUBSET Id, NEW now
  PROVE  Sound(Unwatch(s, I, now))
BY UnwatchSame, SameCoreSound DEF Sound

LEMMA CancelSound ==
  ASSUME NEW s, Sound(s), NEW J
  PROVE  Sound(CancelJobs(s, J))
<1> DEFINE f == [j \in Job |-> IF j \in J /\ s.job[j].st = "running"
                              THEN [s.job[j] EXCEPT !.st = "cancelled"] ELSE s.job[j]]
<1>1. CancelJobs(s, J) \in Manager
  <2>1. ASSUME NEW j \in Job
        PROVE  [s.job[j] EXCEPT !.st = "cancelled"] \in [st: Status, ended: BOOLEAN, fore: BOOLEAN]
    BY DEF Sound, Manager, Status
  <2>2. f \in [Job -> [st: Status, ended: BOOLEAN, fore: BOOLEAN]]
    BY <2>1 DEF Sound, Manager
  <2>3. CancelJobs(s, J) = [s EXCEPT !.job = f]
    BY DEF CancelJobs
  <2> HIDE DEF f
  <2> QED BY <2>2, <2>3 DEF Sound, Manager
<1>2. Core(CancelJobs(s, J))
  BY NilAssumption DEF CancelJobs, Sound, Manager, OptJob, Core, Unended, Settled, HasRow
<1> QED BY <1>1, <1>2 DEF Sound

LEMMA EvictCompletedSound ==
  ASSUME NEW s, Sound(s)
  PROVE  Sound(EvictCompleted(s))
<1> DEFINE I == {i \in Id : HasRow(s, i) /\ Settled(s, s.row[i])}
<1>1. I \in SUBSET Id
  OBVIOUS
<1>2. \A i \in I : HasRow(s, i) /\ s.job[s.row[i]].ended
  BY NilAssumption DEF Sound, Manager, OptJob, Core, HasRow
<1>3. EvictCompleted(s) = Evict(Acknowledge(s, I), I)
  BY DEF EvictCompleted
<1> HIDE DEF I
<1>4. Sound(Acknowledge(s, I)) /\ SameCore(s, Acknowledge(s, I))
  BY <1>1, AcknowledgeSame, SameCoreSound DEF Sound
<1>5. Free(Acknowledge(s, I), I)
  BY <1>1, <1>2, <1>4, EndedIsFree DEF SameCore, HasRow
<1> QED BY <1>1, <1>3, <1>4, <1>5, EvictSound

LEMMA SupersededSound ==
  ASSUME NEW s, Sound(s)
  PROVE  Sound(Superseded(s))
<1>1. Superseded(s) \in Manager /\ SameCore(s, Superseded(s))
  BY DEF Superseded, Sound, Manager, SameCore, Pc, Flying
<1> QED BY <1>1, SameCoreSound

LEMMA SinkSame ==
  ASSUME NEW s, Sound(s), NEW on \in BOOLEAN
  PROVE  Sound([s EXCEPT !.sink = on])
<1>1. [s EXCEPT !.sink = on] \in Manager /\ SameCore(s, [s EXCEPT !.sink = on])
  BY DEF Sound, Manager, SameCore
<1> QED BY <1>1, SameCoreSound

LEMMA CancelOwnSound ==
  ASSUME NEW s, Sound(s)
  PROVE  Sound(CancelOwn(s))
BY CancelSound, EvictCompletedSound, SupersededSound DEF CancelOwn

LEMMA AttemptEndsSound ==
  ASSUME NEW s, Sound(s), NEW d \in Delivery
  PROVE  Sound(AttemptEnds(s, d))
<1>1. IdFor(d) \in Id
  BY IdAssumption DEF IdFor, Delivery
<1> QED BY <1>1, TimedIsFree, EvictSound DEF AttemptEnds

LEMMA RegisteredSound ==
  ASSUME NEW s, Sound(s), NEW j \in Job, NEW fore \in BOOLEAN,
         s.job[j].st = "none", ~HasRow(s, IdOf[j])
  PROVE  Sound(Registered(s, j, fore))
<1> DEFINE i == IdOf[j]
           r == Registered(s, j, fore)
<1>1. i \in Id
  BY IdAssumption
<1>2. /\ r.row = [s.row EXCEPT ![i] = j]
      /\ r.job = [s.job EXCEPT ![j] = [st |-> "running", ended |-> FALSE, fore |-> fore]]
      /\ r.consumed = s.consumed \ {i} /\ r.timer = s.timer
  BY DEF Registered, Sound, Manager
<1>3. r \in Manager
  <2> DEFINE new == [st |-> "running", ended |-> FALSE, fore |-> fore]
             marks == IF fore THEN s.suppressed \cup {i} ELSE s.suppressed \ {i}
  <2>1. new \in [st: Status, ended: BOOLEAN, fore: BOOLEAN]
    BY DEF Status
  <2>2. marks \in SUBSET Id /\ s.consumed \ {i} \in SUBSET Id /\ s.released \ {i} \in SUBSET Id
    BY <1>1 DEF Sound, Manager
  <2>3. [s.row EXCEPT ![i] = j] \in [Id -> OptJob]
    BY <1>1 DEF Sound, Manager, OptJob
  <2>4. r = [s EXCEPT !.suppressed = marks, !.consumed = @ \ {i}, !.released = @ \ {i},
                      !.row[i] = j, !.job[j] = new]
    BY DEF Registered
  <2> HIDE DEF r, new, marks
  <2> QED BY <2>1, <2>2, <2>3, <2>4 DEF Sound, Manager
<1> HIDE DEF r
<1>4. Core(r)
  <2> USE <1>1, <1>2 DEF Sound, Manager
  <2>1. \A k \in Job : Unended(r, k) => r.row[IdOf[k]] = k /\ r.timer[IdOf[k]] = "none"
    BY IdAssumption, NilAssumption DEF Core, Unended, HasRow
  <2>2. \A k \in Job : Settled(r, k) => r.job[k].ended
    BY DEF Core, Settled
  <2>3. \A h \in Id : HasRow(r, h) => r.job[r.row[h]].st # "none"
    BY DEF Core, HasRow, OptJob
  <2>4. \A h \in r.consumed : HasRow(r, h) /\ r.job[r.row[h]].ended
    <3> TAKE h \in r.consumed
    <3>1. h # i /\ h \in Id /\ HasRow(s, h) /\ s.job[s.row[h]].ended
      BY DEF Core
    <3>2. s.row[h] \in Job /\ s.job[s.row[h]].st # "none"
      BY <3>1 DEF Core, HasRow, OptJob
    <3> QED BY <3>1, <3>2 DEF HasRow
  <2>5. \A h \in Id : r.timer[h] # "none" => HasRow(r, h)
    BY NilAssumption DEF Core, HasRow
  <2> QED BY <2>1, <2>2, <2>3, <2>4, <2>5 DEF Core
<1> QED BY <1>3, <1>4 DEF Sound, r

\* When the run of a job ends, nothing un-ended has its id any more.
LEMMA RunEndsSound ==
  ASSUME NEW s, Sound(s), NEW j \in Job, Unended(s, j),
         NEW st \in Status \ {"none"}, NEW t,
         t = [s EXCEPT !.job[j] = [st |-> st, ended |-> TRUE, fore |-> s.job[j].fore]]
  PROVE  Sound(t) /\ Free(t, {IdOf[j]}) /\ HasRow(t, IdOf[j])
<1>1. t \in Manager
  <2> DEFINE new == [st |-> st, ended |-> TRUE, fore |-> s.job[j].fore]
  <2>1. new \in [st: Status, ended: BOOLEAN, fore: BOOLEAN]
    BY DEF Sound, Manager
  <2> HIDE DEF new
  <2>2. t = [s EXCEPT !.job[j] = new]
    BY DEF new
  <2>3. [s.job EXCEPT ![j] = new] \in [Job -> [st: Status, ended: BOOLEAN, fore: BOOLEAN]]
    BY <2>1 DEF Sound, Manager
  <2>4. ASSUME NEW f \in [Job -> [st: Status, ended: BOOLEAN, fore: BOOLEAN]]
        PROVE  [s EXCEPT !.job = f] \in Manager
    BY DEF Sound, Manager
  <2> QED BY <2>2, <2>3, <2>4
<1>2. /\ t.row = s.row /\ t.timer = s.timer /\ t.consumed = s.consumed
      /\ \A k \in Job : k # j => t.job[k] = s.job[k]
      /\ t.job[j].ended /\ t.job[j].st = st
  BY DEF Sound, Manager
<1>3. Core(t)
  <2>1. \A k \in Job : Unended(t, k) => t.row[IdOf[k]] = k /\ t.timer[IdOf[k]] = "none"
    BY <1>2 DEF Sound, Core, Unended
  <2>2. \A k \in Job : Settled(t, k) => t.job[k].ended
    BY <1>2 DEF Sound, Core, Settled
  <2>3. \A h \in Id : HasRow(t, h) => t.row[h] \in Job /\ t.job[t.row[h]].st # "none"
    BY <1>1, <1>2 DEF Sound, Manager, OptJob, Core, HasRow
  <2>4. \A h \in t.consumed : HasRow(t, h) /\ t.job[t.row[h]].ended
    BY <1>2 DEF Sound, Core, HasRow
  <2>5. \A h \in Id : t.timer[h] # "none" => HasRow(t, h)
    BY <1>2 DEF Sound, Core, HasRow
  <2> QED BY <2>1, <2>2, <2>3, <2>4, <2>5 DEF Core
<1>4. Free(t, {IdOf[j]}) /\ HasRow(t, IdOf[j])
  BY <1>2, NilAssumption, IdAssumption DEF Sound, Core, Free, Unended, HasRow
<1> QED BY <1>1, <1>3, <1>4 DEF Sound

LEMMA ReleaseForegroundSound ==
  ASSUME NEW s, Sound(s), NEW i \in Id
  PROVE  Sound(ReleaseForeground(s, i))
<1>1. CASE ~HasRow(s, i) \/ ~s.job[s.row[i]].fore
  BY <1>1 DEF ReleaseForeground
<1>2. CASE HasRow(s, i) /\ s.job[s.row[i]].fore /\ s.job[s.row[i]].ended
  <2>1. Free(s, {i})
    BY <1>2, EndedIsFree
  <2> QED BY <1>2, <2>1, DiscardSound DEF ReleaseForeground
<1>3. CASE HasRow(s, i) /\ s.job[s.row[i]].fore /\ ~s.job[s.row[i]].ended
  <2>1. ReleaseForeground(s, i) = [s EXCEPT !.released = @ \cup {i}]
    BY <1>3 DEF ReleaseForeground
  <2>2. ReleaseForeground(s, i) \in Manager
    BY <2>1 DEF Sound, Manager
  <2>3. Core(ReleaseForeground(s, i))
    BY <2>1 DEF Sound, Manager, Core, Unended, Settled, HasRow
  <2> QED BY <2>2, <2>3 DEF Sound
<1> QED BY <1>1, <1>2, <1>3

-----------------------------------------------------------------------------

\* The inductive invariant: the types, and what the manager's row, timers and marks
\* must agree on for a timer never to meet a job that runs.
Inv == TypeOK /\ Core(m)

LEMMA ManagesSound ==
  ASSUME Inv, NEW s, Sound(s), Manages(s)
  PROVE  Inv'
BY DEF Inv, TypeOK, Sound, Manages, Core, Unended, Settled, HasRow

LEMMA InvSound ==
  ASSUME Inv
  PROVE  Sound(m)
BY DEF Inv, TypeOK, Sound

LEMMA SettleInv ==
  ASSUME Inv, NEW j \in Job, NEW outcome \in {"completed", "failed"},
         NEW acked \in BOOLEAN, NEW now, Settle(j, outcome, acked, now)
  PROVE  Inv'
<1> DEFINE i == IdOf[j]
           a == IF acked THEN Acknowledge(m, {i}) ELSE m
           st == IF m.job[j].st = "cancelled" THEN "cancelled" ELSE outcome
           b == [a EXCEPT !.job[j] = [st |-> st, ended |-> TRUE, fore |-> a.job[j].fore]]
           e == IF m.job[j].st = "cancelled" THEN b ELSE Enqueue(b, {j}, now)
<1>1. i \in Id /\ Unended(m, j)
  BY IdAssumption DEF Settle, Unended
<1>2. Sound(a) /\ SameCore(m, a)
  <2>1. Sound(m) /\ SameCore(m, m)
    BY InvSound DEF SameCore
  <2>2. Sound(Acknowledge(m, {i})) /\ SameCore(m, Acknowledge(m, {i}))
    BY <1>1, <2>1, AcknowledgeSame, SameCoreSound DEF Sound
  <2> QED BY <2>1, <2>2
<1>3. Manages(IF i \in e.released THEN Discard(e, i) ELSE Schedule(e, {i}, "retention"))
  BY DEF Settle
<1> HIDE DEF a
<1>4. Sound(b) /\ Free(b, {i}) /\ HasRow(b, i)
  <2>1. Unended(a, j) /\ st \in Status \ {"none"}
    BY <1>1, <1>2 DEF SameCore, Unended, Status
  <2> QED BY <1>2, <2>1, RunEndsSound
<1> HIDE DEF b
<1>5. Sound(e) /\ Free(e, {i}) /\ HasRow(e, i)
  <2>1. Sound(Enqueue(b, {j}, now)) /\ SameCore(b, Enqueue(b, {j}, now))
    BY <1>4, EnqueueSame, SameCoreSound DEF Sound
  <2> QED BY <1>4, <2>1 DEF SameCore, Free, Unended, HasRow
<1> HIDE DEF e
<1>6. Sound(Discard(e, i)) /\ Sound(Schedule(e, {i}, "retention"))
  BY <1>1, <1>5, DiscardSound, ScheduleSound DEF Timer
<1> QED BY <1>3, <1>6, ManagesSound

LEMMA JobStepInv ==
  ASSUME Inv, JobStep
  PROVE  Inv'
<1>1. ASSUME NEW j \in Job, NEW fore \in BOOLEAN, Register(j, fore) PROVE Inv'
  <2>1. m.job[j].st = "none" /\ ~HasRow(m, IdOf[j]) /\ Manages(Registered(m, j, fore))
    BY <1>1 DEF Register, CanRegister
  <2> QED BY <2>1, InvSound, RegisteredSound, ManagesSound
<1>2. ASSUME NEW j \in Job, Cancel(j) PROVE Inv'
  BY <1>2, InvSound, CancelSound, ManagesSound DEF Cancel
<1>3. ASSUME NEW j \in Job, NEW now, Background(j, now) PROVE Inv'
  <2> DEFINE i == IdOf[j]
             b == [m EXCEPT !.job[j].fore = FALSE, !.suppressed = @ \ {i}]
  <2>1. /\ b.row = m.row /\ b.timer = m.timer /\ b.consumed = m.consumed
        /\ \A k \in Job : b.job[k].st = m.job[k].st /\ b.job[k].ended = m.job[k].ended
    BY InvSound DEF Sound, Manager
  <2>2. b \in Manager
    <3>1. [m.job EXCEPT ![j].fore = FALSE] \in [Job -> [st: Status, ended: BOOLEAN, fore: BOOLEAN]]
      BY InvSound DEF Sound, Manager
    <3>2. m.suppressed \ {i} \in SUBSET Id
      BY InvSound DEF Sound, Manager
    <3> QED BY <3>1, <3>2, InvSound DEF Sound, Manager
  <2>3. Core(b)
    BY <2>1, InvSound, NilAssumption
    DEF Sound, Manager, OptJob, Core, Unended, Settled, HasRow
  <2>4. Manages(IF Settled(m, j) THEN Enqueue(b, {j}, now) ELSE b)
    BY <1>3 DEF Background
  <2> HIDE DEF b
  <2>5. Sound(b) /\ Sound(Enqueue(b, {j}, now))
    BY <2>2, <2>3, EnqueueSame, SameCoreSound DEF Sound
  <2> QED BY <2>4, <2>5, ManagesSound
<1>4. ASSUME NEW j \in Job, NEW aborted \in BOOLEAN, ForegroundDone(j, aborted) PROVE Inv'
  <2> DEFINE c == IF aborted THEN CancelJobs(m, {j}) ELSE m
  <2>1. Sound(c)
    BY InvSound, CancelSound
  <2>2. Manages(ReleaseForeground(c, IdOf[j]))
    BY <1>4 DEF ForegroundDone
  <2> HIDE DEF c
  <2> QED BY <2>1, <2>2, IdAssumption, ReleaseForegroundSound, ManagesSound
<1> QED BY <1>1, <1>2, <1>3, <1>4, SettleInv DEF JobStep

\* The state of one delivery is no business of Core's.
LEMMA DeliverySame ==
  ASSUME NEW s, Sound(s), NEW d \in Delivery, NEW pc \in Pc
  PROVE  Sound([s EXCEPT !.dlv[d] = pc])
<1>1. [s EXCEPT !.dlv[d] = pc] \in Manager /\ SameCore(s, [s EXCEPT !.dlv[d] = pc])
  BY DEF Sound, Manager, SameCore
<1> QED BY <1>1, SameCoreSound

LEMMA DeliveredInv ==
  ASSUME Inv, NEW d \in Delivery, Delivered(d)
  PROVE  Inv'
<1> DEFINE i == IdFor(d)
           c == IF i \in m.consumed /\ HasRow(m, i) THEN Schedule(m, {i}, "grace") ELSE m
           l == [c EXCEPT !.dlv[d] = "none"]
           e == IF i \in m.consumed THEN l ELSE ConsumeResults(l, {i})
<1>1. i \in Id
  BY IdAssumption DEF IdFor, Delivery
<1>2. Sound(c)
  <2>1. CASE i \in m.consumed /\ HasRow(m, i)
    <3>1. Free(m, {i})
      BY <1>1, <2>1, InvSound, EndedIsFree DEF Sound, Core
    <3> QED BY <1>1, <2>1, <3>1, InvSound, ScheduleSound DEF Timer
  <2>2. CASE ~(i \in m.consumed /\ HasRow(m, i))
    BY <2>2, InvSound
  <2> QED BY <2>1, <2>2
<1>3. Manages(AttemptEnds(e, d))
  BY DEF Delivered
<1> HIDE DEF c
<1>4. Sound(l)
  BY <1>2, DeliverySame DEF Pc
<1> HIDE DEF l
<1>5. Sound(e)
  BY <1>1, <1>4, ConsumeResultsSound
<1> HIDE DEF e
<1> QED BY <1>3, <1>5, AttemptEndsSound, ManagesSound

LEMMA DeliveryStepInv ==
  ASSUME Inv, DeliveryStep
  PROVE  Inv'
<1> USE InvSound
<1>1. ASSUME NEW d \in Delivery, DeliveryLoop(d) PROVE Inv'
  <2>1. Sound([m EXCEPT !.dlv[d] = "none"])
    BY DeliverySame DEF Pc
  <2>2. Sound(Attempt(m, {d}))
    BY AttemptSame, SameCoreSound DEF Sound
  <2> QED BY <1>1, <2>1, <2>2, ManagesSound DEF DeliveryLoop
<1>2. ASSUME NEW d \in Delivery, Formatted(d) PROVE Inv'
  <2> DEFINE pc == IF m.dlv[d] = "outdated" \/ Suppressed(m, IdFor(d)) THEN "ok" ELSE "parked"
  <2>1. Sound([m EXCEPT !.dlv[d] = pc])
    BY DeliverySame DEF Pc, Flying
  <2> QED BY <1>2, <2>1, ManagesSound DEF Formatted
<1>3. ASSUME NEW d \in Delivery, Flush(d) PROVE Inv'
  <2> DEFINE pc == IF Suppressed(m, IdFor(d)) THEN "err" ELSE "picked"
  <2>1. Sound([m EXCEPT !.dlv[d] = pc])
    BY DeliverySame DEF Pc, Flying
  <2> QED BY <1>3, <2>1, ManagesSound DEF Flush
<1>4. ASSUME NEW d \in Delivery, Commit(d) PROVE Inv'
  <2>1. Sound(m')
    BY <1>4, DeliverySame DEF Commit, Pc, Flying
  <2>2. injected' \in [Job -> Nat]
    BY <1>4 DEF Commit, Inv, TypeOK, Delivery
  <2> QED BY <1>4, <2>1, <2>2 DEF Commit, Inv, TypeOK, Sound, Core, Unended, Settled, HasRow
<1>5. ASSUME NEW d \in Delivery, Reject(d) PROVE Inv'
  BY <1>5, DeliverySame, ManagesSound DEF Reject, Pc, Flying
<1>6. ASSUME NEW d \in Delivery, DeliveryFailed(d) PROVE Inv'
  <2> DEFINE retry == ~Suppressed(m, IdFor(d)) /\ HasRow(m, IdFor(d))
             f == [m EXCEPT !.dlv[d] = IF retry THEN "retrying" ELSE "none"]
  <2>1. Sound(f)
    BY DeliverySame DEF Pc
  <2>2. Manages(AttemptEnds(f, d))
    BY <1>6 DEF DeliveryFailed
  <2> HIDE DEF f
  <2> QED BY <2>1, <2>2, AttemptEndsSound, ManagesSound
<1> QED BY <1>1, <1>2, <1>3, <1>4, <1>5, <1>6, DeliveredInv DEF DeliveryStep

LEMMA TimerFiresInv ==
  ASSUME Inv, NEW i \in Id, TimerFires(i)
  PROVE  Inv'
<1>1. CASE Manages(Evict(m, {i}))
  <2>1. Free(m, {i})
    BY InvSound, TimedIsFree DEF TimerFires
  <2> QED BY <1>1, <2>1, InvSound, EvictSound, ManagesSound
<1>2. ASSUME NEW d \in InFlight(m, i), Manages([m EXCEPT !.timer[i] = "held", !.holder[i] = d])
      PROVE  Inv'
  <2> DEFINE h == [m EXCEPT !.timer[i] = "held", !.holder[i] = d]
  <2>1. m.timer[i] # "none"
    BY DEF TimerFires
  <2>2. h \in Manager
    BY InvSound DEF Sound, Manager, Timer, InFlight
  <2>3. Core(h)
    BY <2>1, InvSound DEF Sound, Manager, Core, Unended, Settled, HasRow
  <2> QED BY <1>2, <2>2, <2>3, ManagesSound DEF Sound
<1> QED BY <1>1, <1>2 DEF TimerFires

-----------------------------------------------------------------------------

\* What is left to show of a reader's or a session's step.
LEMMA StepInv ==
  ASSUME Inv, Sound(m'), session' \in {"open", "disposing", "gone"},
         waiter' \in [Waiter -> [kind: Kind, jobs: SUBSET Job]],
         injected' = injected, read' \subseteq Job
  PROVE  Inv'
BY DEF Inv, TypeOK, Sound, Core, Unended, Settled, HasRow

LEMMA WatchSame ==
  ASSUME NEW s, Sound(s), NEW I \in SUBSET Id
  PROVE  Sound([s EXCEPT !.watched = @ \cup I])
<1>1. /\ [s EXCEPT !.watched = @ \cup I] \in Manager
      /\ SameCore(s, [s EXCEPT !.watched = @ \cup I])
  BY DEF Sound, Manager, SameCore
<1> QED BY <1>1, SameCoreSound

LEMMA CapturesTyped ==
  ASSUME Inv, NEW w \in Waiter, NEW kind \in Kind, NEW J \in SUBSET Job
  PROVE  /\ Captures(w, kind, J) => waiter' \in [Waiter -> [kind: Kind, jobs: SUBSET Job]]
         /\ Leaves(w) => waiter' \in [Waiter -> [kind: Kind, jobs: SUBSET Job]]
BY DEF Inv, TypeOK, Captures, Leaves, NotWaiting, Kind

\* The rows name jobs, and the ids of jobs are ids.
LEMMA RowsAreJobs ==
  ASSUME Inv
  PROVE  /\ Rows(m) \subseteq Job /\ Visible \subseteq Job
         /\ RunningVisible \subseteq Job /\ Undelivered \subseteq Job
         /\ \A J \in SUBSET Job : Ids(J) \in SUBSET Id
         /\ \A w \in Waiter : waiter[w].jobs \in SUBSET Job
<1>1. Rows(m) \subseteq Job
  BY InvSound DEF Sound, Manager, OptJob, Rows
<1>2. \A J \in SUBSET Job : Ids(J) \in SUBSET Id
  BY IdAssumption DEF Ids
<1>3. \A w \in Waiter : waiter[w].jobs \in SUBSET Job
  BY DEF Inv, TypeOK
<1> QED BY <1>1, <1>2, <1>3 DEF Visible, RunningVisible, Undelivered

LEMMA ReadsTyped ==
  ASSUME Inv, NEW J \in SUBSET Job, Reads(J)
  PROVE  read' \subseteq Job
BY DEF Inv, TypeOK, Reads

LEMMA WaitInv ==
  ASSUME Inv, NEW w \in Waiter
  PROVE  /\ StartWait(w) => Inv'
         /\ \A now : EndWait(w, now) => Inv'
         /\ \A now : InterruptWait(w, now) => Inv'
<1> USE InvSound, RowsAreJobs DEF Inv, TypeOK
<1>1. ASSUME StartWait(w) PROVE Inv'
  <2>1. CASE Undelivered # {}
    <3>1. Sound(m')
      BY <1>1, <2>1, ConsumeSound DEF StartWait
    <3> QED BY <1>1, <2>1, <3>1, ReadsTyped, StepInv DEF StartWait
  <2>2. CASE Undelivered = {}
    <3>1. Sound(m')
      BY <1>1, <2>2, WatchSame DEF StartWait
    <3>2. waiter' \in [Waiter -> [kind: Kind, jobs: SUBSET Job]]
      BY <1>1, <2>2, CapturesTyped DEF StartWait, Kind
    <3> QED BY <1>1, <2>2, <3>1, <3>2, StepInv DEF StartWait
  <2> QED BY <2>1, <2>2
<1>2. ASSUME NEW now, EndWait(w, now) PROVE Inv'
  <2> DEFINE cur(j) == IF HasRow(m, IdOf[j]) THEN m.row[IdOf[j]] ELSE j
             stopped == {k \in {cur(j) : j \in waiter[w].jobs} : m.job[k].st # "running"}
             shown == {k \in stopped : IdOf[k] \notin m.consumed}
  <2>1. \A j \in Job : cur(j) \in Job
    BY IdAssumption DEF Sound, Manager, OptJob, HasRow
  <2>2. stopped \in SUBSET Job /\ shown \in SUBSET Job
    BY <2>1
  <2>3. /\ m' = Unwatch(Consume(m, Ids(stopped)), Ids(waiter[w].jobs), now)
        /\ Reads(shown) /\ Leaves(w) /\ UNCHANGED <<session, injected>>
    BY <1>2 DEF EndWait
  <2> HIDE DEF stopped, shown
  <2>4. Sound(m')
    BY <2>2, <2>3, ConsumeSound, UnwatchSound
  <2>5. waiter' \in [Waiter -> [kind: Kind, jobs: SUBSET Job]]
    BY <2>3, CapturesTyped DEF Kind
  <2> QED BY <2>2, <2>3, <2>4, <2>5, ReadsTyped, StepInv
<1>3. ASSUME NEW now, InterruptWait(w, now) PROVE Inv'
  <2>1. Sound(m')
    BY <1>3, UnwatchSound DEF InterruptWait
  <2>2. waiter' \in [Waiter -> [kind: Kind, jobs: SUBSET Job]]
    BY <1>3, CapturesTyped DEF InterruptWait, Kind
  <2> QED BY <1>3, <2>1, <2>2, StepInv DEF InterruptWait
<1> QED BY <1>1, <1>2, <1>3

LEMMA HoldInv ==
  ASSUME Inv, NEW w \in Waiter
  PROVE  /\ \A j \in Job, kind \in {"vibe", "sidekick"} : StartHold(w, kind, j) => Inv'
         /\ \A now : EndVibe(w, now) => Inv'
         /\ \A now : EndSidekick(w, now) => Inv'
<1> USE InvSound, RowsAreJobs DEF Inv, TypeOK
<1>1. ASSUME NEW j \in Job, NEW kind \in {"vibe", "sidekick"}, StartHold(w, kind, j)
      PROVE  Inv'
  <2>1. Sound(m')
    BY <1>1, IdAssumption, WatchSame DEF StartHold
  <2>2. waiter' \in [Waiter -> [kind: Kind, jobs: SUBSET Job]]
    BY <1>1, CapturesTyped DEF StartHold, Kind
  <2> QED BY <1>1, <2>1, <2>2, StepInv DEF StartHold
<1>2. ASSUME NEW now, EndVibe(w, now) PROVE Inv'
  <2> DEFINE I == Ids(waiter[w].jobs)
             u == Unwatch(m, I, now)
             stopped == {j \in Rows(u) : IdOf[j] \in I /\ u.job[j].st # "running"}
  <2>1. /\ m' = Consume(u, Ids(stopped)) /\ Reads(stopped)
        /\ Leaves(w) /\ UNCHANGED <<session, injected>>
    BY <1>2 DEF EndVibe
  <2>2. Sound(u)
    BY UnwatchSound
  <2> HIDE DEF u
  <2>3. stopped \in SUBSET Job
    BY <2>2 DEF Sound, Manager, OptJob, Rows
  <2> HIDE DEF stopped
  <2>4. Sound(m')
    BY <2>1, <2>2, <2>3, ConsumeSound
  <2>5. waiter' \in [Waiter -> [kind: Kind, jobs: SUBSET Job]]
    BY <2>1, CapturesTyped DEF Kind
  <2> QED BY <2>1, <2>3, <2>4, <2>5, ReadsTyped, StepInv
<1>3. ASSUME NEW now, EndSidekick(w, now) PROVE Inv'
  <2> DEFINE u == Unwatch(m, Ids(waiter[w].jobs), now)
             stopped == {j \in waiter[w].jobs : m.job[j].st # "running"}
  <2>1. /\ m' = Consume(u, Ids(stopped)) /\ Reads(stopped)
        /\ Leaves(w) /\ UNCHANGED <<session, injected>>
    BY <1>3 DEF EndSidekick
  <2>2. Sound(u) /\ stopped \in SUBSET Job
    BY UnwatchSound
  <2> HIDE DEF u, stopped
  <2>3. Sound(m')
    BY <2>1, <2>2, ConsumeSound
  <2>4. waiter' \in [Waiter -> [kind: Kind, jobs: SUBSET Job]]
    BY <2>1, CapturesTyped DEF Kind
  <2> QED BY <2>1, <2>2, <2>3, <2>4, ReadsTyped, StepInv
<1> QED BY <1>1, <1>2, <1>3

LEMMA CellInv ==
  ASSUME Inv, NEW w \in Waiter
  PROVE  /\ \A J \in SUBSET Job : StartCell(w, J) => Inv'
         /\ EndCell(w) => Inv'
         /\ AbortCell(w) => Inv'
<1> USE InvSound, RowsAreJobs DEF Inv, TypeOK
<1>1. ASSUME NEW J \in SUBSET Job, StartCell(w, J) PROVE Inv'
  <2>1. waiter' \in [Waiter -> [kind: Kind, jobs: SUBSET Job]]
    BY <1>1, CapturesTyped DEF StartCell, Kind
  <2>2. Sound(m')
    BY <1>1 DEF StartCell
  <2> QED BY <1>1, <2>1, <2>2, StepInv DEF StartCell
<1>2. ASSUME EndCell(w) PROVE Inv'
  <2> DEFINE stopped == {j \in waiter[w].jobs : m.job[j].st # "running"}
  <2>1. /\ m' = (IF stopped = {} THEN m ELSE Consume(m, Ids(stopped))) /\ Reads(stopped)
        /\ Leaves(w) /\ UNCHANGED <<session, injected>>
    BY <1>2 DEF EndCell
  <2>2. stopped \in SUBSET Job
    OBVIOUS
  <2> HIDE DEF stopped
  <2>3. Sound(m')
    BY <2>1, <2>2, ConsumeSound
  <2>4. waiter' \in [Waiter -> [kind: Kind, jobs: SUBSET Job]]
    BY <2>1, CapturesTyped DEF Kind
  <2> QED BY <2>1, <2>2, <2>3, <2>4, ReadsTyped, StepInv
<1>3. ASSUME AbortCell(w) PROVE Inv'
  <2>1. waiter' \in [Waiter -> [kind: Kind, jobs: SUBSET Job]]
    BY <1>3, CapturesTyped DEF AbortCell, Kind
  <2>2. Sound(m')
    BY <1>3, CancelSound DEF AbortCell
  <2> QED BY <1>3, <2>1, <2>2, StepInv DEF AbortCell
<1> QED BY <1>1, <1>2, <1>3

LEMMA PoolInv ==
  ASSUME Inv, NEW w \in Waiter
  PROVE  /\ \A j \in Job : StartPool(w, j) => Inv'
         /\ \A now : EndPool(w, now) => Inv'
<1> USE InvSound, RowsAreJobs DEF Inv, TypeOK
<1>1. ASSUME NEW j \in Job, StartPool(w, j) PROVE Inv'
  <2> DEFINE r == Registered(m, j, FALSE)
  <2>1. m' = [r EXCEPT !.watched = @ \cup {IdOf[j]}]
    BY <1>1 DEF StartPool
  <2>2. Sound(r)
    BY <1>1, RegisteredSound DEF StartPool, CanRegister
  <2> HIDE DEF r
  <2>3. Sound(m')
    BY <2>1, <2>2, IdAssumption, WatchSame
  <2>4. waiter' \in [Waiter -> [kind: Kind, jobs: SUBSET Job]]
    BY <1>1, CapturesTyped DEF StartPool, Kind
  <2> QED BY <1>1, <2>3, <2>4, StepInv DEF StartPool
<1>2. ASSUME NEW now, EndPool(w, now) PROVE Inv'
  <2>1. Sound(m')
    BY <1>2, ConsumeSound, UnwatchSound DEF EndPool
  <2>2. waiter' \in [Waiter -> [kind: Kind, jobs: SUBSET Job]]
    BY <1>2, CapturesTyped DEF EndPool, Kind
  <2> QED BY <1>2, <2>1, <2>2, ReadsTyped, StepInv DEF EndPool
<1> QED BY <1>1, <1>2

LEMMA SessionStepInv ==
  ASSUME Inv, SessionStep
  PROVE  Inv'
<1> USE InvSound, RowsAreJobs DEF Inv, TypeOK
<1>1. Aborted \in [Waiter -> [kind: Kind, jobs: SUBSET Job]]
  BY DEF Aborted, Kind, NotWaiting
<1>2. CASE NewSession
  <2>1. Sound(m')
    BY <1>2, CancelOwnSound DEF NewSession
  <2> QED BY <1>1, <1>2, <2>1, StepInv DEF NewSession
<1>3. CASE BeginDispose
  <2>1. Sound(m')
    BY <1>3, SupersededSound DEF BeginDispose
  <2> QED BY <1>3, <2>1, StepInv DEF BeginDispose
<1>4. CASE FinishDispose
  <2>1. Sound([m EXCEPT !.sink = FALSE])
    BY SinkSame
  <2>2. Sound(m')
    BY <1>4, <2>1, CancelOwnSound DEF FinishDispose
  <2> QED BY <1>1, <1>4, <2>2, StepInv DEF FinishDispose
<1>5. CASE Reopen
  <2>1. Sound(m')
    BY <1>5, SinkSame DEF Reopen
  <2> QED BY <1>5, <2>1, StepInv DEF Reopen
<1> QED BY <1>2, <1>3, <1>4, <1>5 DEF SessionStep

-----------------------------------------------------------------------------

\* Initially the invariant holds.
LEMMA JobsInit ==
  ASSUME Init
  PROVE  Inv
<1>1. TypeOK
  BY DEF Init, TypeOK, Manager, OptJob, Status, Timer, Kind, Pc, Delivery, NotWaiting
<1>2. Core(m)
  BY DEF Init, Core, Unended, Settled, HasRow
<1> QED BY <1>1, <1>2 DEF Inv

\* Every step keeps it.
LEMMA JobsNext ==
  ASSUME Inv, [Next]_vars
  PROVE  Inv'
<1>1. CASE JobStep
  BY <1>1, JobStepInv
<1>2. CASE DeliveryStep
  BY <1>2, DeliveryStepInv
<1>3. CASE \E i \in Id : TimerFires(i)
  BY <1>3, TimerFiresInv
<1>4. CASE WaiterStep
  BY <1>4, WaitInv, HoldInv, CellInv, PoolInv DEF WaiterStep
<1>5. CASE SessionStep
  BY <1>5, SessionStepInv
<1>6. CASE UNCHANGED vars
  BY <1>6 DEF vars, Inv, TypeOK, Core, Unended, Settled, HasRow
<1> QED BY <1>1, <1>2, <1>3, <1>4, <1>5, <1>6 DEF Next

\* The methods of the manager keep the types, the rows and the timers together.
THEOREM JobsInvariant == Spec => []Inv
<1>1. Init => Inv
  BY JobsInit
<1>2. Inv /\ [Next]_vars => Inv'
  BY JobsNext
<1> QED BY <1>1, <1>2, PTL DEF Spec

\* Every manager, session and reader state has its type (job-manager.ts, class fields).
THEOREM JobsTypeCorrect == Spec => []TypeOK
<1>1. Inv => TypeOK
  BY DEF Inv
<1> QED BY <1>1, JobsInvariant, PTL

\* No timer, discard or eviction takes the row of a job whose run has not ended: not
\* #evictJob, evictCompletedJobs, nor a timer left by an earlier job of the same id
\* (job-manager.ts:966).
THEOREM RowsAreKept == Spec => []RunningRowIsKept
<1>1. Inv => RunningRowIsKept
  BY DEF Inv, Core, Unended, RunningRowIsKept
<1> QED BY <1>1, JobsInvariant, PTL
=============================================================================
