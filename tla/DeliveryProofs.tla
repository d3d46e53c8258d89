--------------------------- MODULE DeliveryProofs ---------------------------
(***************************************************************************)
(* What becomes of a result, for any number of ids, job objects and        *)
(* readers.  As in AsyncJobsProofs the induction is over values of the     *)
(* manager: each method has a lemma, a step is a chain of them.            *)
(*                                                                         *)
(* Part one, for any ids: a job has one delivery at a time, a job that     *)
(* backs a foreground call has none, and a result is inserted at most      *)
(* once.  Most methods only advance deliveries, drop rows and add marks:   *)
(* they are `Tame`, and tameness composes.  What is left is the three      *)
(* places that enqueue a delivery, the promotion of a foreground job and   *)
(* the commit.                                                             *)
(*                                                                         *)
(* Part two, for ids that name one job only (`Single`; automatic ids do):  *)
(* what is owed has a delivery on its way, what counts as consumed was     *)
(* seen, and what a reader returned is not put into a message again.  The  *)
(* methods are compared by `OwesNoMore`, `KeepsSpent` and `ExposesNoMore`, *)
(* which compose as well; what is left is each place that enqueues,        *)
(* consumes or promotes.                                                   *)
(***************************************************************************)
EXTENDS AsyncJobsProofs

\* The job has no delivery.
Quiet(s, j) == s.dlv[<<j, 1>>] = "none" /\ s.dlv[<<j, 2>>] = "none"

\* The row of a result that was inserted is consumed, or the manager is about to.
Followed(s, j) ==
  s.row[IdOf[j]] = j =>
    IdOf[j] \in s.consumed \/ s.dlv[<<j, 1>>] = "ok" \/ s.dlv[<<j, 2>>] = "ok"

\* What every method keeps of a manager whose results were inserted `inj` times.
Deliveries(s, inj) ==
  /\ \A j \in Job : ~Quiet(s, j) => s.job[j].ended /\ Settled(s, j)
  /\ \A j \in Job : s.job[j].ended => s.job[j].st \notin {"none", "running"}
  /\ \A j \in Job : s.job[j].fore =>
       Quiet(s, j) /\ inj[j] = 0 /\ (s.row[IdOf[j]] = j => IdOf[j] \in s.suppressed)
  /\ \A j \in Job : s.dlv[<<j, 1>>] = "none" \/ s.dlv[<<j, 2>>] = "none"
  /\ \A j \in Job : inj[j] # 0 => inj[j] = 1 /\ s.job[j].ended /\ Followed(s, j)
  /\ \A d \in Delivery : s.dlv[d] \notin {"none", "ok"} => inj[d[1]] = 0
  /\ \A i \in Id : HasRow(s, i) => IdOf[s.row[i]] = i

\* A step that starts no delivery, ends none the manager has still to follow up, and
\* takes a mark only with its row.
Tame(s, t) ==
  /\ \A j \in Job : /\ t.job[j].ended = s.job[j].ended /\ t.job[j].fore = s.job[j].fore
                    /\ t.job[j].st = s.job[j].st \/ s.job[j].st = "running"
  /\ \A j \in Job : s.job[j].st = "running" => t.job[j].st # "none"
  /\ \A d \in Delivery : s.dlv[d] \in {"none", "ok"} => t.dlv[d] = s.dlv[d]
  /\ \A i \in Id : t.row[i] # NoJob =>
       /\ t.row[i] = s.row[i]
       /\ i \in s.suppressed => i \in t.suppressed
       /\ i \in s.consumed => i \in t.consumed

-----------------------------------------------------------------------------

\* The two slots of a job are deliveries, and a delivery is one of them.
LEMMA Slots ==
  /\ \A j \in Job : <<j, 1>> \in Delivery /\ <<j, 2>> \in Delivery
  /\ \A d \in Delivery : d[1] \in Job /\ (d = <<d[1], 1>> \/ d = <<d[1], 2>>)
BY DEF Delivery

\* Tame steps keep the invariant.
LEMMA TameKeeps ==
  ASSUME NEW s, NEW t, NEW inj, Deliveries(s, inj), Tame(s, t)
  PROVE  Deliveries(t, inj)
<1> USE Slots, IdAssumption, NilAssumption
<1>1. ASSUME NEW j \in Job
      PROVE  /\ Quiet(s, j) => Quiet(t, j)
             /\ t.dlv[<<j, 1>>] = "none" \/ t.dlv[<<j, 2>>] = "none"
             /\ s.job[j].ended => t.job[j].ended /\ t.job[j].st = s.job[j].st
  BY DEF Tame, Deliveries, Quiet
<1>2. ASSUME NEW j \in Job, Followed(s, j) PROVE Followed(t, j)
  BY <1>2 DEF Tame, Followed
<1>3. \A j \in Job : ~Quiet(t, j) => t.job[j].ended /\ Settled(t, j)
  BY <1>1 DEF Deliveries, Settled
<1>4. \A j \in Job : t.job[j].ended => t.job[j].st \notin {"none", "running"}
  BY DEF Tame, Deliveries
<1>5. ASSUME NEW j \in Job, t.job[j].fore
      PROVE  Quiet(t, j) /\ inj[j] = 0 /\ (t.row[IdOf[j]] = j => IdOf[j] \in t.suppressed)
  <2>1. s.job[j].fore
    BY <1>5 DEF Tame
  <2>2. Quiet(s, j) /\ inj[j] = 0 /\ (s.row[IdOf[j]] = j => IdOf[j] \in s.suppressed)
    BY <2>1 DEF Deliveries
  <2>3. t.row[IdOf[j]] = j => s.row[IdOf[j]] = j /\ IdOf[j] \in t.suppressed
    BY <2>2 DEF Tame
  <2> QED BY <1>1, <2>2, <2>3
<1>6. \A j \in Job : inj[j] # 0 => inj[j] = 1 /\ t.job[j].ended /\ Followed(t, j)
  BY <1>1, <1>2 DEF Deliveries
<1>7. \A d \in Delivery : t.dlv[d] \notin {"none", "ok"} => inj[d[1]] = 0
  BY DEF Tame, Deliveries
<1>8. \A i \in Id : HasRow(t, i) => IdOf[t.row[i]] = i
  BY DEF Tame, Deliveries, HasRow
<1> QED BY <1>1, <1>3, <1>4, <1>5, <1>6, <1>7, <1>8 DEF Deliveries

LEMMA TameTwice ==
  ASSUME NEW s, NEW t, NEW u, Tame(s, t), Tame(t, u)
  PROVE  Tame(s, u)
BY DEF Tame

LEMMA ScheduleTame ==
  ASSUME NEW s, s \in Manager, NEW I, NEW delay
  PROVE  Tame(s, Schedule(s, I, delay))
BY DEF Manager, Schedule, Tame

LEMMA EvictTame ==
  ASSUME NEW s, s \in Manager, NEW I
  PROVE  Tame(s, Evict(s, I))
<1> DEFINE t == Schedule(s, I, "none")
<1>1. /\ t.dlv = s.dlv /\ t.job = s.job /\ t.suppressed = s.suppressed
      /\ t.consumed = s.consumed
  BY DEF Manager, Schedule
<1>2. /\ Evict(s, I).dlv = s.dlv /\ Evict(s, I).job = s.job
      /\ Evict(s, I).suppressed = s.suppressed \ I
      /\ Evict(s, I).consumed = s.consumed \ I
      /\ Evict(s, I).row = [i \in Id |-> IF i \in I THEN NoJob ELSE s.row[i]]
  BY <1>1 DEF Evict, Schedule, Manager
<1> QED BY <1>2 DEF Tame

LEMMA DiscardTame ==
  ASSUME NEW s, s \in Manager, NEW i \in Id
  PROVE  Tame(s, Discard(s, i))
<1> DEFINE t == [s EXCEPT !.released = @ \ {i}]
<1>1. t \in Manager /\ Tame(s, t)
  BY DEF Manager, Tame
<1>2. Discard(s, i) = Evict(t, {i})
  BY DEF Discard
<1> HIDE DEF t
<1> QED BY <1>1, <1>2, EvictTame, TameTwice

LEMMA AttemptTame ==
  ASSUME NEW s, s \in Manager, NEW D \in SUBSET Delivery,
         \A d \in D : s.dlv[d] \notin {"none", "ok"}
  PROVE  Tame(s, Attempt(s, D))
BY DEF Manager, Attempt, Tame

LEMMA AcknowledgeTame ==
  ASSUME NEW s, s \in Manager, NEW I \in SUBSET Id
  PROVE  Tame(s, Acknowledge(s, I))
BY DEF Manager, Acknowledge, Tame

LEMMA ConsumeResultsTame ==
  ASSUME NEW s, s \in Manager, NEW I \in SUBSET Id
  PROVE  Tame(s, ConsumeResults(s, I))
<1> DEFINE C == {i \in I : HasRow(s, i) /\ i \notin s.consumed
                           /\ s.job[s.row[i]].st # "running" /\ s.job[s.row[i]].ended}
           c == [s EXCEPT !.consumed = @ \cup C]
           G == {i \in C : Pending(s, i) = {}}
<1>1. c \in Manager /\ Tame(s, c)
  BY DEF Manager, Tame
<1>2. ConsumeResults(s, I) = Schedule(c, G, "grace")
  BY DEF ConsumeResults
<1> HIDE DEF c, G
<1> QED BY <1>1, <1>2, ScheduleTame, TameTwice

LEMMA ConsumeTame ==
  ASSUME NEW s, s \in Manager, NEW I \in SUBSET Id
  PROVE  Tame(s, Consume(s, I))
BY AcknowledgeSame, AcknowledgeTame, ConsumeResultsTame, TameTwice DEF Consume

LEMMA CancelTame ==
  ASSUME NEW s, s \in Manager, NEW J
  PROVE  Tame(s, CancelJobs(s, J))
BY DEF Manager, CancelJobs, Tame

LEMMA EvictCompletedTame ==
  ASSUME NEW s, s \in Manager
  PROVE  Tame(s, EvictCompleted(s))
<1> DEFINE I == {i \in Id : HasRow(s, i) /\ Settled(s, s.row[i])}
<1>1. I \in SUBSET Id /\ EvictCompleted(s) = Evict(Acknowledge(s, I), I)
  BY DEF EvictCompleted
<1> HIDE DEF I
<1> QED BY <1>1, AcknowledgeSame, AcknowledgeTame, EvictTame, TameTwice

LEMMA SupersededTame ==
  ASSUME NEW s, s \in Manager
  PROVE  Tame(s, Superseded(s))
BY DEF Manager, Superseded, Tame

LEMMA CancelOwnTame ==
  ASSUME NEW s, Sound(s)
  PROVE  Tame(s, CancelOwn(s))
BY CancelSound, CancelTame, EvictCompletedSound, EvictCompletedTame, SupersededTame,
   TameTwice DEF CancelOwn, Sound

LEMMA AttemptEndsTame ==
  ASSUME NEW s, s \in Manager, NEW d
  PROVE  Tame(s, AttemptEnds(s, d))
BY EvictTame DEF AttemptEnds, Tame

LEMMA ReleaseForegroundTame ==
  ASSUME NEW s, s \in Manager, NEW i \in Id
  PROVE  Tame(s, ReleaseForeground(s, i))
<1>1. Tame(s, s) /\ Tame(s, [s EXCEPT !.released = @ \cup {i}])
  BY DEF Tame, Manager
<1> QED BY <1>1, DiscardTame DEF ReleaseForeground

\* Moving a delivery that is on its way, to wherever it goes, is tame.
LEMMA MoveTame ==
  ASSUME NEW s, s \in Manager, NEW d \in Delivery, NEW pc, s.dlv[d] \notin {"none", "ok"}
  PROVE  Tame(s, [s EXCEPT !.dlv[d] = pc])
BY DEF Manager, Tame

-----------------------------------------------------------------------------
(* The places that enqueue a delivery.                                     *)

\* A job whose result may be enqueued.
Ready(s, inj, j) ==
  Quiet(s, j) /\ s.job[j].ended /\ Settled(s, j) /\ ~s.job[j].fore /\ inj[j] = 0

LEMMA EnqueueKeeps ==
  ASSUME NEW s, s \in Manager, NEW inj, Deliveries(s, inj), NEW J \in SUBSET Job, NEW now,
         \A j \in J : ~Suppressed(s, IdOf[j]) => Ready(s, inj, j)
  PROVE  Deliveries(Enqueue(s, J, now), inj)
<1> DEFINE K == {k \in J : ~Suppressed(s, IdOf[k])}
           D == {Slot(s, j) : j \in K}
           q == [s EXCEPT !.dlv = [d \in Delivery |-> IF d \in D THEN "queued" ELSE s.dlv[d]]]
           A == {d \in D : d[1] \in now}
<1>1. D = {<<j, 1>> : j \in K} /\ \A j \in K : j \in Job /\ Ready(s, inj, j)
  BY DEF Slot, Ready, Quiet
<1>2. D \in SUBSET Delivery /\ A \in SUBSET Delivery
  BY <1>1 DEF Delivery
<1>3. q \in Manager
  BY DEF Manager, Pc
<1>4. /\ q.job = s.job /\ q.row = s.row /\ q.suppressed = s.suppressed
      /\ q.consumed = s.consumed
      /\ \A d \in Delivery : q.dlv[d] = IF d \in D THEN "queued" ELSE s.dlv[d]
  BY DEF Manager
<1>5. Enqueue(s, J, now) = Attempt(q, A)
  BY DEF Enqueue
<1> HIDE DEF K, q, A, D
<1>9. \A j \in Job : <<j, 2>> \notin D /\ (<<j, 1>> \in D <=> j \in K)
  BY <1>1
<1>6. /\ \A j \in Job : q.dlv[<<j, 2>>] = s.dlv[<<j, 2>>]
      /\ \A j \in Job : q.dlv[<<j, 1>>] = IF j \in K THEN "queued" ELSE s.dlv[<<j, 1>>]
  BY <1>4, <1>9, Slots
<1>7. Deliveries(q, inj)
  <2>1. \A j \in Job : ~Quiet(q, j) => q.job[j].ended /\ Settled(q, j)
    BY <1>1, <1>4, <1>6 DEF Deliveries, Quiet, Settled, Ready
  <2>2. \A j \in Job : q.job[j].fore =>
          Quiet(q, j) /\ inj[j] = 0 /\ (q.row[IdOf[j]] = j => IdOf[j] \in q.suppressed)
    BY <1>1, <1>4, <1>6 DEF Deliveries, Quiet, Ready
  <2>3. \A j \in Job : q.dlv[<<j, 1>>] = "none" \/ q.dlv[<<j, 2>>] = "none"
    BY <1>1, <1>6 DEF Deliveries, Quiet, Ready
  <2>4. \A j \in Job : inj[j] # 0 => inj[j] = 1 /\ q.job[j].ended /\ Followed(q, j)
    BY <1>1, <1>4, <1>6 DEF Deliveries, Followed, Ready
  <2>5. \A d \in Delivery : q.dlv[d] \notin {"none", "ok"} => inj[d[1]] = 0
    <3> SUFFICES ASSUME NEW d \in Delivery, q.dlv[d] \notin {"none", "ok"}, d \in D
                 PROVE  inj[d[1]] = 0
      BY <1>4 DEF Deliveries
    <3> QED BY <1>1 DEF Ready
  <2>6. \A j \in Job : q.job[j].ended => q.job[j].st \notin {"none", "running"}
    BY <1>4 DEF Deliveries
  <2>7. \A i \in Id : HasRow(q, i) => IdOf[q.row[i]] = i
    BY <1>4 DEF Deliveries, HasRow
  <2> QED BY <2>1, <2>2, <2>3, <2>4, <2>5, <2>6, <2>7 DEF Deliveries
<1>8. \A d \in A : q.dlv[d] \notin {"none", "ok"}
  BY <1>2, <1>4 DEF A
<1> QED BY <1>2, <1>3, <1>5, <1>7, <1>8, AttemptTame, TameKeeps

\* unwatchJobs enqueues only for settled rows nobody consumed and that have no delivery.
LEMMA UnwatchKeeps ==
  ASSUME NEW s, Sound(s), NEW inj, Deliveries(s, inj), NEW I \in SUBSET Id, NEW now
  PROVE  Deliveries(Unwatch(s, I, now), inj)
<1> DEFINE u == [s EXCEPT !.watched = @ \ I]
<1>1. u \in Manager /\ Tame(s, u) /\ u.dlv = s.dlv /\ u.job = s.job
      /\ u.suppressed = s.suppressed
  BY DEF Sound, Manager, Tame
<1>2. Unwatch(s, I, now) = Enqueue(u, Skipped(s, I), now)
  BY DEF Unwatch
<1>3. \A j \in Skipped(s, I) : ~Suppressed(u, IdOf[j]) => Ready(u, inj, j)
  <2> SUFFICES ASSUME NEW j \in Job, NEW i \in I \cap s.watched,
                      s.row[i] = j, Settled(s, j), ~Suppressed(u, i), i \notin s.consumed,
                      Pending(s, i) = {}
               PROVE  ~Suppressed(u, IdOf[j]) => Ready(u, inj, j)
    BY DEF Skipped
  <2>1. i \in Id /\ HasRow(s, i) /\ IdOf[j] = i
    BY NilAssumption DEF Sound, Manager, Deliveries, HasRow
  <2>2. Quiet(s, j)
    BY <2>1, Slots DEF Pending, IdFor, Quiet
  <2>3. s.job[j].ended
    BY DEF Sound, Core
  <2>4. i \notin s.suppressed
    BY <1>1 DEF Suppressed
  <2>5. ~s.job[j].fore
    BY <2>1, <2>4 DEF Deliveries
  <2>6. inj[j] = 0
    BY <2>1, <2>2 DEF Deliveries, Followed, Quiet
  <2> QED BY <1>1, <2>2, <2>3, <2>5, <2>6 DEF Ready, Quiet, Settled
<1>4. Skipped(s, I) \in SUBSET Job
  BY DEF Skipped
<1> HIDE DEF u
<1> QED BY <1>1, <1>2, <1>3, <1>4, TameKeeps, EnqueueKeeps

\* Registering under a free id clears the marks of no job but the one before.
LEMMA RegisteredKeeps ==
  ASSUME NEW s, Sound(s), NEW inj, Deliveries(s, inj), NEW j \in Job, NEW fore \in BOOLEAN,
         s.job[j].st = "none", ~HasRow(s, IdOf[j])
  PROVE  Deliveries(Registered(s, j, fore), inj)
<1> DEFINE i == IdOf[j]
           r == Registered(s, j, fore)
<1>1. i \in Id /\ s.row[i] = NoJob
  BY IdAssumption DEF HasRow
<1>2. /\ r.row = [s.row EXCEPT ![i] = j]
      /\ r.job = [s.job EXCEPT ![j] = [st |-> "running", ended |-> FALSE, fore |-> fore]]
      /\ r.consumed = s.consumed \ {i} /\ r.dlv = s.dlv
      /\ r.suppressed = IF fore THEN s.suppressed \cup {i} ELSE s.suppressed \ {i}
  BY DEF Registered, Sound, Manager
<1>3. /\ \A k \in Job : k # j => r.job[k] = s.job[k]
      /\ \A k \in Job : k # j =>
           (r.row[IdOf[k]] = k => s.row[IdOf[k]] = k /\ IdOf[k] # i)
      /\ r.job[j].st = "running" /\ ~r.job[j].ended /\ r.row[i] = j
  BY <1>1, <1>2, IdAssumption, NilAssumption DEF Sound, Manager
<1> HIDE DEF r
<1>4. Quiet(s, j) /\ inj[j] = 0
  BY DEF Deliveries
<1>5. \A k \in Job : ~Quiet(r, k) => r.job[k].ended /\ Settled(r, k)
  BY <1>2, <1>3, <1>4 DEF Deliveries, Quiet, Settled
<1>6. \A k \in Job : r.job[k].ended => r.job[k].st \notin {"none", "running"}
  BY <1>3 DEF Deliveries
<1>7. ASSUME NEW k \in Job, r.job[k].fore
      PROVE  Quiet(r, k) /\ inj[k] = 0 /\ (r.row[IdOf[k]] = k => IdOf[k] \in r.suppressed)
  <2>1. CASE k = j
    BY <1>2, <1>4, <1>7, <2>1 DEF Quiet, Sound, Manager
  <2>2. CASE k # j
    BY <1>2, <1>3, <1>7, <2>2, IdAssumption DEF Deliveries, Quiet
  <2> QED BY <2>1, <2>2
<1>8. ASSUME NEW k \in Job PROVE r.dlv[<<k, 1>>] = "none" \/ r.dlv[<<k, 2>>] = "none"
  BY <1>2 DEF Deliveries
<1>9. ASSUME NEW k \in Job, inj[k] # 0 PROVE inj[k] = 1 /\ r.job[k].ended /\ Followed(r, k)
  <2>1. k # j
    BY <1>4, <1>9
  <2> QED BY <1>2, <1>3, <1>9, <2>1 DEF Deliveries, Followed
<1>10. \A d \in Delivery : r.dlv[d] \notin {"none", "ok"} => inj[d[1]] = 0
  BY <1>2 DEF Deliveries
<1>11. \A h \in Id : HasRow(r, h) => IdOf[r.row[h]] = h
  BY <1>2 DEF Deliveries, HasRow, Sound, Manager
<1> QED BY <1>5, <1>6, <1>7, <1>8, <1>9, <1>10, <1>11 DEF Deliveries, r

\* When a run ends its job has no delivery yet.
LEMMA RunEndsKeeps ==
  ASSUME NEW s, Sound(s), NEW inj, Deliveries(s, inj), NEW j \in Job, Unended(s, j),
         NEW st \in Status \ {"none", "running"}, NEW t,
         t = [s EXCEPT !.job[j] = [st |-> st, ended |-> TRUE, fore |-> s.job[j].fore]]
  PROVE  /\ Deliveries(t, inj)
         /\ st # "cancelled" /\ ~Suppressed(t, IdOf[j]) => Ready(t, inj, j)
<1>1. /\ t.row = s.row /\ t.consumed = s.consumed /\ t.suppressed = s.suppressed
      /\ t.watched = s.watched /\ t.dlv = s.dlv
      /\ \A k \in Job : k # j => t.job[k] = s.job[k]
      /\ t.job[j].ended /\ t.job[j].st = st /\ t.job[j].fore = s.job[j].fore
  BY DEF Sound, Manager
<1>2. Quiet(s, j) /\ inj[j] = 0 /\ s.row[IdOf[j]] = j
  BY DEF Deliveries, Unended, Sound, Core
<1>3. Deliveries(t, inj)
  <2>1. \A k \in Job : ~Quiet(t, k) => t.job[k].ended /\ Settled(t, k)
    BY <1>1, <1>2 DEF Deliveries, Quiet, Settled
  <2>2. \A k \in Job : t.job[k].ended => t.job[k].st \notin {"none", "running"}
    BY <1>1 DEF Deliveries
  <2>3. \A k \in Job : t.job[k].fore =>
          Quiet(t, k) /\ inj[k] = 0 /\ (t.row[IdOf[k]] = k => IdOf[k] \in t.suppressed)
    BY <1>1 DEF Deliveries, Quiet
  <2>4. ASSUME NEW k \in Job PROVE t.dlv[<<k, 1>>] = "none" \/ t.dlv[<<k, 2>>] = "none"
    BY <1>1 DEF Deliveries
  <2>5. \A k \in Job : inj[k] # 0 => inj[k] = 1 /\ t.job[k].ended /\ Followed(t, k)
    BY <1>1 DEF Deliveries, Followed
  <2>6. \A d \in Delivery : t.dlv[d] \notin {"none", "ok"} => inj[d[1]] = 0
    BY <1>1 DEF Deliveries
  <2>7. \A i \in Id : HasRow(t, i) => IdOf[t.row[i]] = i
    BY <1>1 DEF Deliveries, HasRow
  <2> QED BY <2>1, <2>2, <2>3, <2>4, <2>5, <2>6, <2>7 DEF Deliveries
<1>4. ASSUME st # "cancelled", ~Suppressed(t, IdOf[j]) PROVE Ready(t, inj, j)
  <2>1. ~s.job[j].fore
    BY <1>1, <1>2, <1>4 DEF Deliveries, Suppressed
  <2>2. st \in {"completed", "failed"}
    BY <1>4 DEF Status
  <2> QED BY <1>1, <1>2, <2>1, <2>2 DEF Ready, Quiet, Settled
<1> QED BY <1>3, <1>4

\* A promoted job loses its suppression with its foreground call.
LEMMA PromotedKeeps ==
  ASSUME NEW s, Sound(s), NEW inj, Deliveries(s, inj), NEW j \in Job,
         s.row[IdOf[j]] = j, s.job[j].fore, NEW t,
         t = [s EXCEPT !.job[j].fore = FALSE, !.suppressed = @ \ {IdOf[j]}]
  PROVE  Deliveries(t, inj) /\ (Settled(t, j) => Ready(t, inj, j))
<1>1. /\ t.row = s.row /\ t.consumed = s.consumed /\ t.dlv = s.dlv
      /\ t.suppressed = s.suppressed \ {IdOf[j]}
      /\ \A k \in Job : k # j => t.job[k] = s.job[k]
      /\ t.job[j].ended = s.job[j].ended /\ t.job[j].st = s.job[j].st /\ ~t.job[j].fore
  BY DEF Sound, Manager
<1>2. Quiet(s, j) /\ inj[j] = 0
  BY DEF Deliveries
<1>3. Deliveries(t, inj)
  <2>1. \A k \in Job : ~Quiet(t, k) => t.job[k].ended /\ Settled(t, k)
    BY <1>1 DEF Deliveries, Quiet, Settled
  <2>2. \A k \in Job : t.job[k].ended => t.job[k].st \notin {"none", "running"}
    BY <1>1 DEF Deliveries
  <2>3. \A k \in Job : t.job[k].fore =>
          Quiet(t, k) /\ inj[k] = 0 /\ (t.row[IdOf[k]] = k => IdOf[k] \in t.suppressed)
    BY <1>1 DEF Deliveries, Quiet
  <2>4. ASSUME NEW k \in Job PROVE t.dlv[<<k, 1>>] = "none" \/ t.dlv[<<k, 2>>] = "none"
    BY <1>1 DEF Deliveries
  <2>5. \A k \in Job : inj[k] # 0 => inj[k] = 1 /\ t.job[k].ended /\ Followed(t, k)
    BY <1>1 DEF Deliveries, Followed
  <2>6. \A d \in Delivery : t.dlv[d] \notin {"none", "ok"} => inj[d[1]] = 0
    BY <1>1 DEF Deliveries
  <2>7. \A i \in Id : HasRow(t, i) => IdOf[t.row[i]] = i
    BY <1>1 DEF Deliveries, HasRow
  <2> QED BY <2>1, <2>2, <2>3, <2>4, <2>5, <2>6, <2>7 DEF Deliveries
<1>4. Settled(t, j) => t.job[j].ended
  BY <1>1 DEF Settled, Sound, Core
<1> QED BY <1>1, <1>2, <1>3, <1>4 DEF Ready, Quiet

-----------------------------------------------------------------------------

\* The inductive invariant.
DInv == Inv /\ Deliveries(m, injected)

LEMMA ManagesKeeps ==
  ASSUME NEW s, Deliveries(s, injected), Manages(s)
  PROVE  Deliveries(m, injected)'
BY DEF Manages, Deliveries, Quiet, Settled, Followed, HasRow

LEMMA DInvSound ==
  ASSUME DInv
  PROVE  Sound(m) /\ m \in Manager /\ Deliveries(m, injected)
BY InvSound DEF DInv, Sound

\* A step of the manager that is tame.
LEMMA TameStep ==
  ASSUME DInv, NEW s, Tame(m, s), Manages(s)
  PROVE  Deliveries(m, injected)'
BY DInvSound, TameKeeps, ManagesKeeps

LEMMA SettleDelivers ==
  ASSUME DInv, NEW j \in Job, NEW outcome \in {"completed", "failed"},
         NEW acked \in BOOLEAN, NEW now, Settle(j, outcome, acked, now)
  PROVE  Deliveries(m, injected)'
<1> DEFINE i == IdOf[j]
           a == IF acked THEN Acknowledge(m, {i}) ELSE m
           st == IF m.job[j].st = "cancelled" THEN "cancelled" ELSE outcome
           b == [a EXCEPT !.job[j] = [st |-> st, ended |-> TRUE, fore |-> a.job[j].fore]]
           e == IF m.job[j].st = "cancelled" THEN b ELSE Enqueue(b, {j}, now)
<1>1. i \in Id /\ Unended(m, j)
  BY IdAssumption DEF Settle, Unended
<1>2. Sound(a) /\ SameCore(m, a) /\ Deliveries(a, injected)
  <2>1. Sound(m) /\ SameCore(m, m) /\ Deliveries(m, injected)
    BY DInvSound DEF SameCore
  <2>2. Sound(Acknowledge(m, {i})) /\ SameCore(m, Acknowledge(m, {i}))
    BY <1>1, <2>1, AcknowledgeSame, SameCoreSound DEF Sound
  <2>3. Deliveries(Acknowledge(m, {i}), injected)
    BY <1>1, <2>1, AcknowledgeTame, TameKeeps DEF Sound
  <2> QED BY <2>1, <2>2, <2>3
<1>3. Manages(IF i \in e.released THEN Discard(e, i) ELSE Schedule(e, {i}, "retention"))
  BY DEF Settle
<1> HIDE DEF a
<1>4. Unended(a, j)
  BY <1>1, <1>2 DEF SameCore, Unended
<1>5. st \in Status \ {"none", "running"} /\ (m.job[j].st # "cancelled" => st # "cancelled")
  BY DEF Status
<1> HIDE DEF st
<1>6. Sound(b) /\ Deliveries(b, injected)
      /\ (st # "cancelled" /\ ~Suppressed(b, i) => Ready(b, injected, j))
  BY <1>2, <1>4, <1>5, RunEndsSound, RunEndsKeeps
<1> HIDE DEF b
<1>7. e \in Manager /\ Deliveries(e, injected)
  <2>1. CASE m.job[j].st = "cancelled"
    BY <1>6, <2>1 DEF Sound
  <2>2. CASE m.job[j].st # "cancelled"
    BY <1>5, <1>6, <2>2, EnqueueSame, EnqueueKeeps DEF Sound
  <2> QED BY <2>1, <2>2
<1> HIDE DEF e
<1>8. Deliveries(Discard(e, i), injected) /\ Deliveries(Schedule(e, {i}, "retention"), injected)
  BY <1>1, <1>7, DiscardTame, ScheduleTame, TameKeeps
<1> QED BY <1>3, <1>8, ManagesKeeps

LEMMA BackgroundDelivers ==
  ASSUME DInv, NEW j \in Job, NEW now, Background(j, now)
  PROVE  Deliveries(m, injected)'
<1> DEFINE i == IdOf[j]
           b == [m EXCEPT !.job[j].fore = FALSE, !.suppressed = @ \ {i}]
<1>1. Deliveries(b, injected) /\ (Settled(b, j) => Ready(b, injected, j))
  BY DInvSound, PromotedKeeps DEF Background
<1>2. b \in Manager /\ (Settled(m, j) => Settled(b, j))
  <2>1. [m.job EXCEPT ![j].fore = FALSE] \in [Job -> [st: Status, ended: BOOLEAN, fore: BOOLEAN]]
    BY DInvSound DEF Manager
  <2>2. m.suppressed \ {i} \in SUBSET Id
    BY DInvSound DEF Manager
  <2>3. b \in Manager
    BY <2>1, <2>2, DInvSound DEF Manager
  <2>4. Settled(m, j) => Settled(b, j)
    BY DInvSound DEF Manager, Settled
  <2> QED BY <2>3, <2>4
<1>3. Manages(IF Settled(m, j) THEN Enqueue(b, {j}, now) ELSE b)
  BY DEF Background
<1> HIDE DEF b
<1> QED BY <1>1, <1>2, <1>3, EnqueueKeeps, ManagesKeeps

LEMMA JobStepDelivers ==
  ASSUME DInv, JobStep
  PROVE  Deliveries(m, injected)'
<1> USE DInvSound
<1>1. ASSUME NEW j \in Job, NEW fore \in BOOLEAN, Register(j, fore)
      PROVE  Deliveries(m, injected)'
  BY <1>1, RegisteredKeeps, ManagesKeeps DEF Register, CanRegister
<1>2. ASSUME NEW j \in Job, Cancel(j) PROVE Deliveries(m, injected)'
  BY <1>2, CancelTame, TameStep DEF Cancel
<1>3. ASSUME NEW j \in Job, NEW aborted \in BOOLEAN, ForegroundDone(j, aborted)
      PROVE  Deliveries(m, injected)'
  <2> DEFINE c == IF aborted THEN CancelJobs(m, {j}) ELSE m
  <2>1. c \in Manager /\ Tame(m, c)
    BY CancelSound, CancelTame DEF Sound, Tame
  <2>2. Manages(ReleaseForeground(c, IdOf[j]))
    BY <1>3 DEF ForegroundDone
  <2> HIDE DEF c
  <2> QED BY <2>1, <2>2, IdAssumption, ReleaseForegroundTame, TameTwice, TameStep
<1> QED BY <1>1, <1>2, <1>3, SettleDelivers, BackgroundDelivers DEF JobStep

LEMMA CommitDelivers ==
  ASSUME DInv, NEW d \in Delivery, Commit(d)
  PROVE  Deliveries(m, injected)'
<1> DEFINE j == d[1]
           t == [m EXCEPT !.dlv[d] = "ok"]
           inj == [injected EXCEPT ![j] = @ + 1]
<1> USE Slots
<1>1. m' = t /\ injected' = inj /\ m.dlv[d] = "picked"
  BY DEF Commit
<1>2. /\ t.row = m.row /\ t.job = m.job /\ t.consumed = m.consumed
      /\ t.suppressed = m.suppressed
      /\ t.dlv[d] = "ok" /\ \A x \in Delivery : x # d => t.dlv[x] = m.dlv[x]
  BY DInvSound DEF Manager
<1>3. injected[j] = 0 /\ ~Quiet(m, j) /\ m.job[j].ended /\ ~m.job[j].fore
  BY <1>1, DInvSound DEF Deliveries, Quiet
<1>4. inj[j] = 1 /\ \A k \in Job : k # j => inj[k] = injected[k]
  BY <1>3 DEF DInv, Inv, TypeOK
<1>5. \A x \in Delivery : x[1] = j /\ x # d => t.dlv[x] = "none"
  BY <1>1, <1>2, DInvSound DEF Deliveries
<1>6. \A k \in Job : k # j => t.dlv[<<k, 1>>] = m.dlv[<<k, 1>>] /\ t.dlv[<<k, 2>>] = m.dlv[<<k, 2>>]
  BY <1>2
<1>7. t.dlv[<<j, 1>>] = "ok" \/ t.dlv[<<j, 2>>] = "ok"
  BY <1>2
<1> HIDE DEF t, inj, j
<1>8. j \in Job
  BY DEF j
<1>9. Deliveries(t, inj)
  <2>1. \A k \in Job : ~Quiet(t, k) => t.job[k].ended /\ Settled(t, k)
    BY <1>2, <1>3, <1>6, DInvSound DEF Deliveries, Quiet, Settled
  <2>2. \A k \in Job : t.job[k].ended => t.job[k].st \notin {"none", "running"}
    BY <1>2, DInvSound DEF Deliveries
  <2>3. \A k \in Job : t.job[k].fore =>
          Quiet(t, k) /\ inj[k] = 0 /\ (t.row[IdOf[k]] = k => IdOf[k] \in t.suppressed)
    BY <1>2, <1>3, <1>4, <1>6, DInvSound DEF Deliveries, Quiet
  <2>4. ASSUME NEW k \in Job PROVE t.dlv[<<k, 1>>] = "none" \/ t.dlv[<<k, 2>>] = "none"
    <3>1. CASE k = j
      BY <1>5, <3>1 DEF j
    <3>2. CASE k # j
      BY <1>6, <3>2, DInvSound DEF Deliveries
    <3> QED BY <3>1, <3>2
  <2>5. \A k \in Job : inj[k] # 0 => inj[k] = 1 /\ t.job[k].ended /\ Followed(t, k)
    BY <1>2, <1>3, <1>4, <1>6, <1>7, DInvSound DEF Deliveries, Followed
  <2>6. \A x \in Delivery : t.dlv[x] \notin {"none", "ok"} => inj[x[1]] = 0
    BY <1>2, <1>4, <1>5, DInvSound DEF Deliveries
  <2>7. \A i \in Id : HasRow(t, i) => IdOf[t.row[i]] = i
    BY <1>2, DInvSound DEF Deliveries, HasRow
  <2> QED BY <2>1, <2>2, <2>3, <2>4, <2>5, <2>6, <2>7 DEF Deliveries
<1> QED BY <1>1, <1>9 DEF Deliveries, Quiet, Settled, Followed, HasRow

\* After a sink call returned the row, if it still is that job's, is consumed.
LEMMA DeliveredDelivers ==
  ASSUME DInv, NEW d \in Delivery, Delivered(d)
  PROVE  Deliveries(m, injected)'
<1> DEFINE i == IdFor(d)
           j == d[1]
           c == IF i \in m.consumed /\ HasRow(m, i) THEN Schedule(m, {i}, "grace") ELSE m
           l == [c EXCEPT !.dlv[d] = "none"]
           e == IF i \in m.consumed THEN l ELSE ConsumeResults(l, {i})
           inj == [injected EXCEPT ![j] = 0]
<1> USE Slots, IdAssumption
<1>1. Manages(AttemptEnds(e, d)) /\ m.dlv[d] = "ok"
  BY DEF Delivered
<1>2. i \in Id /\ i = IdOf[j] /\ j \in Job
  BY DEF IdFor
<1>3. Sound(m) /\ Deliveries(m, injected)
  BY DInvSound
<1>4. ~Quiet(m, j) /\ m.job[j].ended /\ Settled(m, j) /\ ~m.job[j].fore
  BY <1>1, <1>3 DEF Deliveries, Quiet
<1>5. Tame(m, c) /\ c \in Manager /\ c.dlv = m.dlv /\ c.job = m.job /\ c.row = m.row
      /\ c.consumed = m.consumed /\ c.suppressed = m.suppressed
  <2>1. Tame(m, m)
    BY DEF Tame
  <2>2. Schedule(m, {i}, "grace") \in Manager
    BY <1>3 DEF Schedule, Sound, Manager, Timer
  <2>3. /\ Schedule(m, {i}, "grace").dlv = m.dlv /\ Schedule(m, {i}, "grace").job = m.job
        /\ Schedule(m, {i}, "grace").row = m.row
        /\ Schedule(m, {i}, "grace").consumed = m.consumed
        /\ Schedule(m, {i}, "grace").suppressed = m.suppressed
    BY <1>3 DEF Schedule, Sound, Manager
  <2> QED BY <1>3, <2>1, <2>2, <2>3, ScheduleTame DEF Sound
<1> HIDE DEF c
<1>6. /\ l \in Manager /\ l.job = m.job /\ l.row = m.row /\ l.consumed = m.consumed
      /\ l.suppressed = m.suppressed
      /\ l.dlv[d] = "none" /\ \A x \in Delivery : x # d => l.dlv[x] = m.dlv[x]
  BY <1>5 DEF Manager, Pc
<1> HIDE DEF l
<1>7. inj[j] = 0 /\ \A k \in Job : k # j => inj[k] = injected[k]
  BY <1>2 DEF DInv, Inv, TypeOK
<1>8. \A k \in Job : k # j => l.dlv[<<k, 1>>] = m.dlv[<<k, 1>>] /\ l.dlv[<<k, 2>>] = m.dlv[<<k, 2>>]
  BY <1>6
<1>9. Quiet(l, j)
  BY <1>1, <1>3, <1>6 DEF Deliveries, Quiet
<1> HIDE DEF inj, j
<1>10. Deliveries(l, inj)
  <2>1. \A k \in Job : ~Quiet(l, k) => l.job[k].ended /\ Settled(l, k)
    BY <1>3, <1>4, <1>6, <1>8 DEF Deliveries, Quiet, Settled
  <2>2. \A k \in Job : l.job[k].ended => l.job[k].st \notin {"none", "running"}
    BY <1>3, <1>6 DEF Deliveries
  <2>3. \A k \in Job : l.job[k].fore =>
          Quiet(l, k) /\ inj[k] = 0 /\ (l.row[IdOf[k]] = k => IdOf[k] \in l.suppressed)
    BY <1>3, <1>4, <1>6, <1>7, <1>8 DEF Deliveries, Quiet
  <2>4. ASSUME NEW k \in Job PROVE l.dlv[<<k, 1>>] = "none" \/ l.dlv[<<k, 2>>] = "none"
    <3>1. CASE k = j
      BY <1>9, <3>1 DEF Quiet
    <3>2. CASE k # j
      BY <1>3, <1>8, <3>2 DEF Deliveries
    <3> QED BY <3>1, <3>2
  <2>5. \A k \in Job : inj[k] # 0 => inj[k] = 1 /\ l.job[k].ended /\ Followed(l, k)
    BY <1>3, <1>6, <1>7, <1>8 DEF Deliveries, Followed
  <2>6. \A x \in Delivery : l.dlv[x] \notin {"none", "ok"} => inj[x[1]] = 0
    BY <1>3, <1>6, <1>7, <1>9 DEF Deliveries
  <2>7. \A h \in Id : HasRow(l, h) => IdOf[l.row[h]] = h
    BY <1>3, <1>6 DEF Deliveries, HasRow
  <2> QED BY <2>1, <2>2, <2>3, <2>4, <2>5, <2>6, <2>7 DEF Deliveries
<1>11. Tame(l, e) /\ e \in Manager
       /\ (e.row[i] # NoJob => e.row[i] = m.row[i] /\ (m.row[i] = j => i \in e.consumed))
  <2>1. CASE i \in m.consumed
    BY <1>2, <1>6, <2>1 DEF Tame
  <2>2. CASE i \notin m.consumed
    <3> DEFINE C == {h \in {i} : HasRow(l, h) /\ h \notin l.consumed
                       /\ l.job[l.row[h]].st # "running" /\ l.job[l.row[h]].ended}
               a == [l EXCEPT !.consumed = @ \cup C]
               G == {h \in C : Pending(l, h) = {}}
    <3>1. e = Schedule(a, G, "grace")
      BY <2>2 DEF ConsumeResults
    <3>2. a \in Manager /\ a.row = l.row /\ a.consumed = l.consumed \cup C
      BY <1>2, <1>6 DEF Manager
    <3>3. m.row[i] = j => i \in C
      BY <1>2, <1>4, <1>6, <2>2, NilAssumption DEF HasRow, Settled
    <3>4. Tame(l, e)
      BY <1>2, <1>6, <2>2, ConsumeResultsTame
    <3> HIDE DEF a, C, G, e
    <3>5. e \in Manager /\ e.row = a.row /\ e.consumed = a.consumed
      BY <3>1, <3>2 DEF Schedule, Manager, Timer
    <3> QED BY <1>6, <3>2, <3>3, <3>4, <3>5
  <2> QED BY <2>1, <2>2
<1> HIDE DEF e
<1> DEFINE t == AttemptEnds(e, d)
<1>12. Tame(e, t)
  BY <1>11, AttemptEndsTame
<1> HIDE DEF t
<1>13. Deliveries(t, inj) /\ Quiet(t, j) /\ t.job[j].ended /\ ~t.job[j].fore /\ Followed(t, j)
  <2>1. Tame(l, t)
    BY <1>11, <1>12, TameTwice
  <2>2. Deliveries(t, inj)
    BY <1>10, <2>1, TameKeeps
  <2>3. Quiet(t, j)
    BY <1>2, <1>9, <2>1 DEF Tame, Quiet
  <2>4. t.job[j].ended /\ ~t.job[j].fore
    BY <1>2, <1>4, <1>6, <2>1 DEF Tame
  <2>5. Followed(t, j)
    BY <1>2, <1>11, <1>12, NilAssumption DEF Tame, Followed
  <2> QED BY <2>2, <2>3, <2>4, <2>5
<1>14. Deliveries(t, injected)
  <2>1. \A k \in Job : t.job[k].fore =>
          Quiet(t, k) /\ injected[k] = 0 /\ (t.row[IdOf[k]] = k => IdOf[k] \in t.suppressed)
    BY <1>7, <1>13 DEF Deliveries
  <2>2. \A k \in Job : injected[k] # 0 => injected[k] = 1 /\ t.job[k].ended /\ Followed(t, k)
    BY <1>3, <1>7, <1>13 DEF Deliveries
  <2>3. \A x \in Delivery : t.dlv[x] \notin {"none", "ok"} => injected[x[1]] = 0
    BY <1>7, <1>13 DEF Deliveries, Quiet
  <2> QED BY <1>13, <2>1, <2>2, <2>3 DEF Deliveries
<1> QED BY <1>1, <1>14, ManagesKeeps DEF t

LEMMA DeliveryStepDelivers ==
  ASSUME DInv, DeliveryStep
  PROVE  Deliveries(m, injected)'
<1> USE DInvSound
<1>1. ASSUME NEW d \in Delivery, DeliveryLoop(d) PROVE Deliveries(m, injected)'
  <2>1. m.dlv[d] \notin {"none", "ok"}
    BY <1>1 DEF DeliveryLoop
  <2>2. Tame(m, [m EXCEPT !.dlv[d] = "none"]) /\ Tame(m, Attempt(m, {d}))
    BY <2>1, MoveTame, AttemptTame
  <2> QED BY <1>1, <2>2, TameStep DEF DeliveryLoop
<1>2. ASSUME NEW d \in Delivery, Formatted(d) PROVE Deliveries(m, injected)'
  BY <1>2, MoveTame, TameStep DEF Formatted
<1>3. ASSUME NEW d \in Delivery, Flush(d) PROVE Deliveries(m, injected)'
  BY <1>3, MoveTame, TameStep DEF Flush
<1>4. ASSUME NEW d \in Delivery, Reject(d) PROVE Deliveries(m, injected)'
  BY <1>4, MoveTame, TameStep DEF Reject
<1>5. ASSUME NEW d \in Delivery, DeliveryFailed(d) PROVE Deliveries(m, injected)'
  <2> DEFINE retry == ~Suppressed(m, IdFor(d)) /\ HasRow(m, IdFor(d))
             f == [m EXCEPT !.dlv[d] = IF retry THEN "retrying" ELSE "none"]
  <2>1. Tame(m, f)
    BY <1>5, MoveTame DEF DeliveryFailed
  <2>2. f \in Manager
    BY DEF Manager, Pc
  <2>3. Manages(AttemptEnds(f, d))
    BY <1>5 DEF DeliveryFailed
  <2> HIDE DEF f
  <2> QED BY <2>1, <2>2, <2>3, AttemptEndsTame, TameTwice, TameStep
<1> QED BY <1>1, <1>2, <1>3, <1>4, <1>5, CommitDelivers, DeliveredDelivers DEF DeliveryStep

LEMMA TimerFiresDelivers ==
  ASSUME DInv, NEW i \in Id, TimerFires(i)
  PROVE  Deliveries(m, injected)'
<1>1. CASE Manages(Evict(m, {i}))
  BY <1>1, DInvSound, EvictTame, TameStep
<1>2. ASSUME NEW d \in InFlight(m, i), Manages([m EXCEPT !.timer[i] = "held", !.holder[i] = d])
      PROVE  Deliveries(m, injected)'
  <2>1. Tame(m, [m EXCEPT !.timer[i] = "held", !.holder[i] = d])
    BY DInvSound DEF Manager, Tame
  <2> QED BY <1>2, <2>1, TameStep
<1> QED BY <1>1, <1>2 DEF TimerFires

-----------------------------------------------------------------------------

\* Watching is tame.
LEMMA WatchTame ==
  ASSUME NEW s, s \in Manager, NEW I
  PROVE  Tame(s, [s EXCEPT !.watched = @ \cup I])
BY DEF Manager, Tame

\* A reader's and a session's step insert nothing.
LEMMA ReaderKeeps ==
  ASSUME Deliveries(m', injected), injected' = injected
  PROVE  Deliveries(m, injected)'
BY DEF Deliveries, Quiet, Settled, Followed, HasRow

\* The order in which the readers consume and unwatch makes no difference to this.
LEMMA ConsumeUnwatchKeep ==
  ASSUME DInv, NEW C \in SUBSET Id, NEW I \in SUBSET Id, NEW now
  PROVE  /\ Deliveries(Consume(m, C), injected)
         /\ Deliveries(Unwatch(m, I, now), injected)
         /\ Deliveries(Unwatch(Consume(m, C), I, now), injected)
         /\ Deliveries(Consume(Unwatch(m, I, now), C), injected)
BY DInvSound, ConsumeSound, ConsumeTame, TameKeeps, UnwatchSound, UnwatchKeeps DEF Sound

LEMMA WaiterStepDelivers ==
  ASSUME DInv, WaiterStep
  PROVE  Deliveries(m, injected)'
<1> USE DInvSound, IdAssumption DEF DInv
<1>0. PICK w \in Waiter :
        \/ StartWait(w) \/ EndCell(w) \/ AbortCell(w)
        \/ \E j \in Job : StartPool(w, j)
        \/ \E j \in Job, kind \in {"vibe", "sidekick"} : StartHold(w, kind, j)
        \/ \E J \in SUBSET Job : StartCell(w, J)
        \/ \E now \in SUBSET waiter[w].jobs :
             \/ EndWait(w, now) \/ InterruptWait(w, now)
             \/ EndVibe(w, now) \/ EndSidekick(w, now) \/ EndPool(w, now)
  BY DEF WaiterStep
<1>1. ASSUME NEW J PROVE Ids(J \cap Job) \in SUBSET Id
  BY DEF Ids
<1>2. CASE StartWait(w)
  <2>1. Deliveries(Consume(m, Ids(Undelivered)), injected)
    BY RowsAreJobs, ConsumeUnwatchKeep
  <2>2. Deliveries([m EXCEPT !.watched = @ \cup Ids(RunningVisible)], injected)
    BY WatchTame, TameKeeps
  <2> QED BY <1>2, <2>1, <2>2, ReaderKeeps DEF StartWait
<1>3. CASE EndCell(w)
  <2> DEFINE stopped == {j \in waiter[w].jobs : m.job[j].st # "running"}
  <2>1. Ids(stopped) \in SUBSET Id
    BY RowsAreJobs DEF Ids
  <2>2. Deliveries(Consume(m, Ids(stopped)), injected)
    BY <2>1, ConsumeUnwatchKeep
  <2> QED BY <1>3, <2>2, ReaderKeeps DEF EndCell
<1>4. CASE AbortCell(w)
  BY <1>4, CancelTame, TameKeeps, ReaderKeeps DEF AbortCell
<1>5. ASSUME NEW j \in Job, StartPool(w, j) PROVE Deliveries(m, injected)'
  <2> DEFINE r == Registered(m, j, FALSE)
  <2>1. m' = [r EXCEPT !.watched = @ \cup {IdOf[j]}]
    BY <1>5 DEF StartPool
  <2>2. Sound(r) /\ Deliveries(r, injected)
    BY <1>5, RegisteredSound, RegisteredKeeps DEF StartPool, CanRegister
  <2>3. injected' = injected
    BY <1>5 DEF StartPool
  <2> HIDE DEF r
  <2> QED BY <2>1, <2>2, <2>3, WatchTame, TameKeeps, ReaderKeeps DEF Sound
<1>6. ASSUME NEW j \in Job, NEW kind, StartHold(w, kind, j) PROVE Deliveries(m, injected)'
  BY <1>6, WatchTame, TameKeeps, ReaderKeeps DEF StartHold
<1>7. ASSUME NEW J, StartCell(w, J) PROVE Deliveries(m, injected)'
  BY <1>7, ReaderKeeps DEF StartCell
<1>8. ASSUME NEW now, EndWait(w, now) PROVE Deliveries(m, injected)'
  <2> DEFINE cur(j) == IF HasRow(m, IdOf[j]) THEN m.row[IdOf[j]] ELSE j
             stopped == {k \in {cur(j) : j \in waiter[w].jobs} : m.job[k].st # "running"}
  <2>1. \A j \in Job : cur(j) \in Job
    BY DEF Sound, Manager, OptJob, HasRow
  <2>2. stopped \subseteq Job
    BY <2>1, RowsAreJobs
  <2>3. m' = Unwatch(Consume(m, Ids(stopped)), Ids(waiter[w].jobs), now) /\ injected' = injected
    BY <1>8 DEF EndWait
  <2> HIDE DEF stopped
  <2>4. Ids(stopped) \in SUBSET Id /\ Ids(waiter[w].jobs) \in SUBSET Id
    BY <2>2, RowsAreJobs DEF Ids
  <2> QED BY <2>3, <2>4, ConsumeUnwatchKeep, ReaderKeeps
<1>9. ASSUME NEW now, InterruptWait(w, now) PROVE Deliveries(m, injected)'
  BY <1>9, RowsAreJobs, ConsumeUnwatchKeep, ReaderKeeps DEF InterruptWait
<1>10. ASSUME NEW now, EndVibe(w, now) PROVE Deliveries(m, injected)'
  <2> DEFINE I == Ids(waiter[w].jobs)
             u == Unwatch(m, I, now)
             stopped == {j \in Rows(u) : IdOf[j] \in I /\ u.job[j].st # "running"}
  <2>1. m' = Consume(u, Ids(stopped)) /\ injected' = injected
    BY <1>10 DEF EndVibe
  <2>2. I \in SUBSET Id
    BY RowsAreJobs
  <2>3. Ids(stopped) \in SUBSET Id
    BY <2>2 DEF Ids
  <2> HIDE DEF I, stopped
  <2> QED BY <2>1, <2>2, <2>3, ConsumeUnwatchKeep, ReaderKeeps
<1>11. ASSUME NEW now, EndSidekick(w, now) PROVE Deliveries(m, injected)'
  <2> DEFINE stopped == {j \in waiter[w].jobs : m.job[j].st # "running"}
  <2>1. m' = Consume(Unwatch(m, Ids(waiter[w].jobs), now), Ids(stopped)) /\ injected' = injected
    BY <1>11 DEF EndSidekick
  <2>2. Ids(waiter[w].jobs) \in SUBSET Id /\ Ids(stopped) \in SUBSET Id
    BY RowsAreJobs DEF Ids
  <2> HIDE DEF stopped
  <2> QED BY <2>1, <2>2, ConsumeUnwatchKeep, ReaderKeeps
<1>12. ASSUME NEW now, EndPool(w, now) PROVE Deliveries(m, injected)'
  BY <1>12, RowsAreJobs, ConsumeUnwatchKeep, ReaderKeeps DEF EndPool
<1> QED BY <1>0, <1>2, <1>3, <1>4, <1>5, <1>6, <1>7, <1>8, <1>9, <1>10, <1>11, <1>12

LEMMA SessionStepDelivers ==
  ASSUME DInv, SessionStep
  PROVE  Deliveries(m, injected)'
<1> USE DInvSound
<1>1. ASSUME NEW on \in BOOLEAN
      PROVE  Sound([m EXCEPT !.sink = on]) /\ Deliveries([m EXCEPT !.sink = on], injected)
  <2>1. Tame(m, [m EXCEPT !.sink = on])
    BY DEF Manager, Tame
  <2> QED BY <2>1, SinkSame, TameKeeps
<1>2. CASE NewSession
  BY <1>2, CancelOwnTame, TameKeeps, ReaderKeeps DEF NewSession
<1>3. CASE BeginDispose
  BY <1>3, SupersededTame, TameKeeps, ReaderKeeps DEF BeginDispose
<1>4. CASE FinishDispose
  BY <1>1, <1>4, CancelOwnTame, TameKeeps, ReaderKeeps DEF FinishDispose
<1>5. CASE Reopen
  BY <1>1, <1>5, ReaderKeeps DEF Reopen
<1> QED BY <1>2, <1>3, <1>4, <1>5 DEF SessionStep

-----------------------------------------------------------------------------

LEMMA DeliveriesInit ==
  ASSUME Init
  PROVE  DInv
<1>1. Inv
  BY JobsInit
<1>2. Deliveries(m, injected)
  BY Slots, IdAssumption DEF Init, Deliveries, Quiet, Settled, Followed, HasRow
<1> QED BY <1>1, <1>2 DEF DInv

LEMMA DeliveriesNext ==
  ASSUME DInv, [Next]_vars
  PROVE  DInv'
<1>1. Inv'
  BY JobsNext DEF DInv
<1>2. Deliveries(m, injected)'
  <2>1. CASE JobStep
    BY <2>1, JobStepDelivers
  <2>2. CASE DeliveryStep
    BY <2>2, DeliveryStepDelivers
  <2>3. CASE \E i \in Id : TimerFires(i)
    BY <2>3, TimerFiresDelivers
  <2>4. CASE WaiterStep
    BY <2>4, WaiterStepDelivers
  <2>5. CASE SessionStep
    BY <2>5, SessionStepDelivers
  <2>6. CASE UNCHANGED vars
    BY <2>6 DEF vars, DInv, Deliveries, Quiet, Settled, Followed, HasRow
  <2> QED BY <2>1, <2>2, <2>3, <2>4, <2>5, <2>6 DEF Next
<1> QED BY <1>1, <1>2 DEF DInv

\* Every method of the manager keeps a result from being sent on its way twice.
THEOREM DeliveriesInvariant == Spec => []DInv
<1>1. Init => DInv
  BY DeliveriesInit
<1>2. DInv /\ [Next]_vars => DInv'
  BY DeliveriesNext
<1> QED BY <1>1, <1>2, PTL DEF Spec

\* Settling, promoting, unwatching and retrying all enqueue a delivery, yet a job never
\* has two at once (job-manager.ts, #enqueueDelivery).
THEOREM NoSecondDelivery == Spec => []OneDelivery
<1>1. DInv => OneDelivery
  BY DEF DInv, Deliveries, OneDelivery
<1> QED BY <1>1, DeliveriesInvariant, PTL

\* A job that backs a foreground call is suppressed until it is promoted or released, so
\* whoever watches, waits or settles meanwhile its result is not delivered as well.
THEOREM ForegroundKeepsItsResult == Spec => []ForegroundIsNotDelivered
<1>1. DInv => ForegroundIsNotDelivered
  BY DEF DInv, Deliveries, Quiet, ForegroundIsNotDelivered
<1> QED BY <1>1, DeliveriesInvariant, PTL

\* A result is inserted into the transcript at most once, also when its id has named
\* other jobs since: after the commit nothing enqueues that job again.
THEOREM InsertedOnce == Spec => []InjectedOnce
<1>1. DInv => InjectedOnce
  <2> SUFFICES ASSUME DInv, NEW j \in Job PROVE injected[j] <= 1
    BY DEF InjectedOnce
  <2> QED BY DEF DInv, Deliveries
<1> QED BY <1>1, DeliveriesInvariant, PTL

-----------------------------------------------------------------------------
(* Automatic ids.  An id that names one job only ties what the manager     *)
(* knows of an id to the job object a reader captured.                     *)

\* No id is given to a second job.
Single == \A j \in Job : Automatic(j)

\* The manager owes the owner a delivery of this job's result.
Owed(s, j) ==
  /\ s.row[IdOf[j]] = j /\ Settled(s, j) /\ ~Suppressed(s, IdOf[j])
  /\ IdOf[j] \notin s.consumed /\ j \notin s.dead

\* A delivery of this job can no longer get into a message: none is due, and one on its
\* way is stopped by the suppressed id or was stopped when the row went away.
Spent(s, j) ==
  /\ s.job[j].ended /\ ~s.job[j].fore
  /\ s.dlv[<<j, 1>>] \notin {"queued", "retrying"} /\ s.dlv[<<j, 2>>] \notin {"queued", "retrying"}
  /\ \/ IdOf[j] \in s.suppressed
     \/ /\ s.row[IdOf[j]] # j
        /\ s.dlv[<<j, 1>>] \notin {"formatting", "parked"}
        /\ s.dlv[<<j, 2>>] \notin {"formatting", "parked"}

\* The end of this delivery will be taken for a consumption of its row.
Exposed(s, d) ==
  /\ s.dlv[d] # "none" /\ s.row[IdFor(d)] = d[1]
  /\ IdFor(d) \in s.suppressed \/ s.dlv[d] \in {"ok", "outdated"}

\* An ended job that is watched while a delivery of it is on its way.
Overwatched(s, j) ==
  s.row[IdOf[j]] = j /\ IdOf[j] \in s.watched /\ s.job[j].ended /\ ~Quiet(s, j)

\* Steps that owe nothing new, leave no delivery that was stopped, and neither consume nor
\* expose a result.  Each of them composes.
OwesNoMore(s, t) ==
  \A j \in Job : Owed(t, j) => Owed(s, j) /\ (~Quiet(s, j) => ~Quiet(t, j))
KeepsSpent(s, t) == \A j \in Job : Spent(s, j) => Spent(t, j)
ExposesNoMore(s, t) ==
  /\ \A d \in Delivery : Exposed(t, d) => Exposed(s, d)
  /\ \A j \in Job : Overwatched(t, j) => Overwatched(s, j)
  /\ \A i \in t.consumed : i \in s.consumed /\ t.row[i] = s.row[i]
                           /\ (Settled(s, s.row[i]) => Settled(t, s.row[i]))

\* For readers: a job they hold has been registered, in the background.
Held(s, j) == s.job[j].st # "none" /\ ~s.job[j].fore
KeepsHeld(s, t) == t.sink = s.sink /\ \A j \in Job : Held(s, j) => Held(t, j)

LEMMA Compose ==
  ASSUME NEW s, NEW t, NEW u
  PROVE  /\ OwesNoMore(s, t) /\ OwesNoMore(t, u) => OwesNoMore(s, u)
         /\ KeepsSpent(s, t) /\ KeepsSpent(t, u) => KeepsSpent(s, u)
         /\ KeepsHeld(s, t) /\ KeepsHeld(t, u) => KeepsHeld(s, u)
<1>1. OwesNoMore(s, t) /\ OwesNoMore(t, u) => OwesNoMore(s, u)
  BY DEF OwesNoMore
<1>2. KeepsSpent(s, t) /\ KeepsSpent(t, u) => KeepsSpent(s, u)
  BY DEF KeepsSpent
<1>3. KeepsHeld(s, t) /\ KeepsHeld(t, u) => KeepsHeld(s, u)
  BY DEF KeepsHeld
<1> QED BY <1>1, <1>2, <1>3

LEMMA ComposeExposes ==
  ASSUME NEW s, NEW t, NEW u, ExposesNoMore(s, t), ExposesNoMore(t, u)
  PROVE  ExposesNoMore(s, u)
<1>1. \A d \in Delivery : Exposed(u, d) => Exposed(s, d)
  BY DEF ExposesNoMore
<1>2. \A j \in Job : Overwatched(u, j) => Overwatched(s, j)
  BY DEF ExposesNoMore
<1>3. \A i \in u.consumed : i \in s.consumed /\ u.row[i] = s.row[i]
                            /\ (Settled(s, s.row[i]) => Settled(u, s.row[i]))
  BY DEF ExposesNoMore
<1> QED BY <1>1, <1>2, <1>3 DEF ExposesNoMore

\* The state of a job or of its deliveries is the same.
SameJob(s, t, j) ==
  /\ t.job[j] = s.job[j]
  /\ t.dlv[<<j, 1>>] = s.dlv[<<j, 1>>] /\ t.dlv[<<j, 2>>] = s.dlv[<<j, 2>>]

-----------------------------------------------------------------------------
(* What each method leaves alone.                                          *)

LEMMA ScheduleFrame ==
  ASSUME NEW s, s \in Manager, NEW I, NEW delay \in Timer
  PROVE  LET t == Schedule(s, I, delay)
         IN  /\ t \in Manager /\ t.row = s.row /\ t.job = s.job /\ t.dlv = s.dlv
             /\ t.suppressed = s.suppressed /\ t.watched = s.watched
             /\ t.consumed = s.consumed /\ t.dead = s.dead /\ t.sink = s.sink
             /\ t.released = s.released
BY DEF Schedule, Manager

LEMMA EvictFrame ==
  ASSUME NEW s, s \in Manager, NEW I
  PROVE  LET t == Evict(s, I)
         IN  /\ t.row = [i \in Id |-> IF i \in I THEN NoJob ELSE s.row[i]]
             /\ t.job = s.job /\ t.dlv = s.dlv
             /\ t.suppressed = s.suppressed \ I /\ t.watched = s.watched \ I
             /\ t.consumed = s.consumed \ I /\ t.dead = s.dead /\ t.sink = s.sink
<1> DEFINE t == Schedule(s, I, "none")
<1>1. /\ t \in Manager /\ t.job = s.job /\ t.dlv = s.dlv
      /\ t.suppressed = s.suppressed /\ t.watched = s.watched
      /\ t.consumed = s.consumed /\ t.dead = s.dead /\ t.sink = s.sink
  BY ScheduleFrame DEF Timer
<1>2. Evict(s, I) = [t EXCEPT !.suppressed = @ \ I, !.watched = @ \ I, !.consumed = @ \ I,
                              !.row = [i \in Id |-> IF i \in I THEN NoJob ELSE s.row[i]]]
  BY DEF Evict
<1> HIDE DEF t
<1> QED BY <1>1, <1>2 DEF Manager

LEMMA DiscardFrame ==
  ASSUME NEW s, s \in Manager, NEW i
  PROVE  LET t == Discard(s, i)
         IN  /\ t.row = [h \in Id |-> IF h = i THEN NoJob ELSE s.row[h]]
             /\ t.job = s.job /\ t.dlv = s.dlv
             /\ t.suppressed = s.suppressed \ {i} /\ t.watched = s.watched \ {i}
             /\ t.consumed = s.consumed \ {i} /\ t.dead = s.dead /\ t.sink = s.sink
<1> DEFINE r == [s EXCEPT !.released = @ \ {i}]
<1>1. /\ r \in Manager /\ r.row = s.row /\ r.job = s.job /\ r.dlv = s.dlv
      /\ r.suppressed = s.suppressed /\ r.watched = s.watched
      /\ r.consumed = s.consumed /\ r.dead = s.dead /\ r.sink = s.sink
  BY DEF Manager
<1>2. Discard(s, i) = Evict(r, {i})
  BY DEF Discard
<1> HIDE DEF r
<1>3. /\ Evict(r, {i}).row = [h \in Id |-> IF h \in {i} THEN NoJob ELSE s.row[h]]
  BY <1>1, EvictFrame
<1> QED BY <1>1, <1>2, <1>3, EvictFrame

LEMMA AcknowledgeFrame ==
  ASSUME NEW s, s \in Manager, NEW I \in SUBSET Id
  PROVE  LET t == Acknowledge(s, I)
         IN  /\ t \in Manager /\ t.row = s.row /\ t.job = s.job
             /\ t.suppressed = s.suppressed \cup I /\ t.watched = s.watched
             /\ t.consumed = s.consumed /\ t.dead = s.dead /\ t.sink = s.sink
             /\ t.dlv = [d \in Delivery |->
                  IF s.dlv[d] \in {"queued", "retrying"}
                     /\ IdFor(d) \in s.suppressed \cup I \cup s.watched
                  THEN "none" ELSE s.dlv[d]]
<1> DEFINE a == [s EXCEPT !.suppressed = @ \cup I]
<1>1. /\ a \in Manager /\ a.row = s.row /\ a.job = s.job /\ a.watched = s.watched
      /\ a.suppressed = s.suppressed \cup I
      /\ a.consumed = s.consumed /\ a.dead = s.dead /\ a.sink = s.sink
  BY DEF Manager
<1>2. Acknowledge(s, I) = [a EXCEPT !.dlv = [d \in Delivery |->
         IF s.dlv[d] \in {"queued", "retrying"} /\ Suppressed(a, IdFor(d)) THEN "none" ELSE s.dlv[d]]]
  BY DEF Acknowledge
<1>3. \A i : Suppressed(a, i) <=> i \in s.suppressed \cup I \cup s.watched
  BY <1>1 DEF Suppressed
<1> HIDE DEF a
<1>4. Acknowledge(s, I) \in Manager
  BY AcknowledgeSame
<1> QED BY <1>1, <1>2, <1>3, <1>4 DEF Manager

LEMMA ConsumeResultsFrame ==
  ASSUME NEW s, s \in Manager, NEW I \in SUBSET Id
  PROVE  LET t == ConsumeResults(s, I)
             C == {i \in I : HasRow(s, i) /\ i \notin s.consumed
                             /\ s.job[s.row[i]].st # "running" /\ s.job[s.row[i]].ended}
         IN  /\ t \in Manager /\ t.row = s.row /\ t.job = s.job /\ t.dlv = s.dlv
             /\ t.suppressed = s.suppressed /\ t.watched = s.watched
             /\ t.consumed = s.consumed \cup C /\ t.dead = s.dead /\ t.sink = s.sink
<1> DEFINE C == {i \in I : HasRow(s, i) /\ i \notin s.consumed
                           /\ s.job[s.row[i]].st # "running" /\ s.job[s.row[i]].ended}
           c == [s EXCEPT !.consumed = @ \cup C]
           G == {i \in C : Pending(s, i) = {}}
<1>1. /\ c \in Manager /\ c.row = s.row /\ c.job = s.job /\ c.dlv = s.dlv
      /\ c.suppressed = s.suppressed /\ c.watched = s.watched
      /\ c.consumed = s.consumed \cup C /\ c.dead = s.dead /\ c.sink = s.sink
  BY DEF Manager
<1>2. ConsumeResults(s, I) = Schedule(c, G, "grace")
  BY DEF ConsumeResults
<1> HIDE DEF c, G
<1>3. /\ Schedule(c, G, "grace") \in Manager
      /\ Schedule(c, G, "grace").row = c.row /\ Schedule(c, G, "grace").job = c.job
      /\ Schedule(c, G, "grace").dlv = c.dlv
      /\ Schedule(c, G, "grace").suppressed = c.suppressed
      /\ Schedule(c, G, "grace").watched = c.watched
      /\ Schedule(c, G, "grace").consumed = c.consumed
      /\ Schedule(c, G, "grace").dead = c.dead /\ Schedule(c, G, "grace").sink = c.sink
  BY <1>1, ScheduleFrame DEF Timer
<1> QED BY <1>1, <1>2, <1>3

\* The jobs of J that are not suppressed get a delivery, or lose it with the sink.
LEMMA EnqueueFrame ==
  ASSUME NEW s, s \in Manager, NEW J \in SUBSET Job, NEW now,
         \A j \in J : ~Suppressed(s, IdOf[j]) => Quiet(s, j)
  PROVE  LET t == Enqueue(s, J, now)
         IN  /\ t \in Manager /\ t.row = s.row /\ t.job = s.job
             /\ t.suppressed = s.suppressed /\ t.watched = s.watched
             /\ t.consumed = s.consumed /\ t.sink = s.sink /\ s.dead \subseteq t.dead
             /\ \A j \in Job : j \notin J \/ Suppressed(s, IdOf[j]) => SameJob(s, t, j)
             /\ \A j \in J : ~Suppressed(s, IdOf[j]) =>
                  /\ t.dlv[<<j, 1>>] \in {"none", "queued", "formatting", "ok"}
                  /\ t.dlv[<<j, 1>>] = "none" => j \in t.dead
                  /\ t.dlv[<<j, 1>>] = "ok" => s.sink /\ session # "open"
                  /\ t.dlv[<<j, 2>>] = "none"
<1> DEFINE K == {k \in J : ~Suppressed(s, IdOf[k])}
           D == {Slot(s, j) : j \in K}
           q == [s EXCEPT !.dlv = [d \in Delivery |-> IF d \in D THEN "queued" ELSE s.dlv[d]]]
           A == {d \in D : d[1] \in now}
           t == Attempt(q, A)
<1>1. D = {<<j, 1>> : j \in K} /\ K \subseteq Job
  BY DEF Slot, Quiet
<1>2. q \in Manager
  BY DEF Manager, Pc
<1>3. /\ q.job = s.job /\ q.row = s.row /\ q.suppressed = s.suppressed
      /\ q.watched = s.watched /\ q.consumed = s.consumed /\ q.sink = s.sink
      /\ q.dead = s.dead
      /\ \A d \in Delivery : q.dlv[d] = IF d \in D THEN "queued" ELSE s.dlv[d]
  BY DEF Manager
<1>4. Enqueue(s, J, now) = t
  BY DEF Enqueue
<1>5. A \subseteq D
  OBVIOUS
<1>6. D \in SUBSET Delivery
  BY <1>1 DEF Delivery
<1> HIDE DEF q
<1>7. /\ t.row = q.row /\ t.job = q.job /\ t.suppressed = q.suppressed
      /\ t.watched = q.watched /\ t.consumed = q.consumed /\ t.sink = q.sink
      /\ q.dead \subseteq t.dead
      /\ \A d \in Delivery : d \notin A => t.dlv[d] = q.dlv[d]
      /\ \A d \in A : t.dlv[d] \in {"none", "formatting", "ok"}
      /\ \A d \in A : t.dlv[d] = "none" => d[1] \in t.dead
      /\ \A d \in A : t.dlv[d] = "ok" => q.sink /\ session # "open"
  BY <1>2, <1>5, <1>6 DEF Attempt, Manager
<1>8. t \in Manager
  BY <1>2, <1>5, <1>6, AttemptSame
<1> HIDE DEF K, D, A, t
<1>9. ASSUME NEW j \in Job
      PROVE  <<j, 2>> \notin D /\ <<j, 2>> \notin A /\ (<<j, 1>> \in D <=> j \in K)
  BY <1>1, <1>5
<1>10. \A j \in Job : j \notin J \/ Suppressed(s, IdOf[j]) => SameJob(s, t, j)
  <2> SUFFICES ASSUME NEW j \in Job, j \notin K PROVE SameJob(s, t, j)
    BY DEF K
  <2>1. <<j, 1>> \notin D /\ <<j, 1>> \notin A
    BY <1>5, <1>9
  <2> QED BY <1>3, <1>7, <1>9, <2>1, Slots DEF SameJob
<1>11. ASSUME NEW j \in J, ~Suppressed(s, IdOf[j])
       PROVE  /\ t.dlv[<<j, 1>>] \in {"none", "queued", "formatting", "ok"}
              /\ t.dlv[<<j, 1>>] = "none" => j \in t.dead
              /\ t.dlv[<<j, 1>>] = "ok" => s.sink /\ session # "open"
              /\ t.dlv[<<j, 2>>] = "none"
  <2>1. j \in K /\ j \in Job
    BY <1>11 DEF K
  <2>2. t.dlv[<<j, 2>>] = "none"
    <3>1. <<j, 2>> \in Delivery /\ s.dlv[<<j, 2>>] = "none"
      BY <1>11, <2>1, Slots DEF Quiet
    <3> QED BY <1>3, <1>7, <1>9, <2>1, <3>1
  <2>3. <<j, 1>> \in D /\ q.dlv[<<j, 1>>] = "queued"
    BY <1>3, <1>9, <2>1, Slots
  <2>4. CASE <<j, 1>> \in A
    BY <1>3, <1>7, <2>2, <2>4
  <2>5. CASE <<j, 1>> \notin A
    BY <1>7, <2>1, <2>2, <2>3, <2>5, Slots
  <2> QED BY <2>4, <2>5
<1> QED BY <1>3, <1>4, <1>7, <1>8, <1>10, <1>11

-----------------------------------------------------------------------------
(* Which of the three each method keeps.                                   *)

\* Rows, deliveries, jobs and marks stay, whatever else changes.
SameMarks(s, t) ==
  /\ t.row = s.row /\ t.job = s.job /\ t.dlv = s.dlv
  /\ t.suppressed = s.suppressed /\ t.watched = s.watched
  /\ t.consumed = s.consumed /\ t.dead = s.dead /\ t.sink = s.sink

LEMMA SameMarksKeep ==
  ASSUME NEW s, NEW t, SameMarks(s, t)
  PROVE  OwesNoMore(s, t) /\ KeepsSpent(s, t) /\ ExposesNoMore(s, t) /\ KeepsHeld(s, t)
BY DEF SameMarks, OwesNoMore, KeepsSpent, ExposesNoMore, KeepsHeld, Owed, Spent, Exposed,
       Overwatched, Held, Quiet, Settled, Suppressed

LEMMA EvictKeeps ==
  ASSUME NEW s, s \in Manager, NEW I
  PROVE  /\ OwesNoMore(s, Evict(s, I)) /\ ExposesNoMore(s, Evict(s, I))
         /\ KeepsHeld(s, Evict(s, I))
<1> DEFINE t == Evict(s, I)
<1>1. /\ t.row = [i \in Id |-> IF i \in I THEN NoJob ELSE s.row[i]]
      /\ t.job = s.job /\ t.dlv = s.dlv
      /\ t.suppressed = s.suppressed \ I /\ t.watched = s.watched \ I
      /\ t.consumed = s.consumed \ I /\ t.dead = s.dead /\ t.sink = s.sink
  BY EvictFrame
<1> HIDE DEF t
<1>2. \A j \in Job : t.row[IdOf[j]] = j => s.row[IdOf[j]] = j /\ IdOf[j] \notin I
  BY <1>1, IdAssumption, NilAssumption
<1>3. OwesNoMore(s, t)
  BY <1>1, <1>2 DEF OwesNoMore, Owed, Quiet, Settled, Suppressed
<1>4. ExposesNoMore(s, t)
  <2>1. \A d \in Delivery : Exposed(t, d) => Exposed(s, d)
    BY <1>1, <1>2, Slots DEF Exposed, IdFor
  <2>2. \A j \in Job : Overwatched(t, j) => Overwatched(s, j)
    BY <1>1, <1>2 DEF Overwatched, Quiet
  <2>3. \A i \in t.consumed : i \in s.consumed /\ t.row[i] = s.row[i]
                              /\ (Settled(s, s.row[i]) => Settled(t, s.row[i]))
    BY <1>1 DEF Settled, Manager
  <2> QED BY <2>1, <2>2, <2>3 DEF ExposesNoMore
<1>5. KeepsHeld(s, t)
  BY <1>1 DEF KeepsHeld, Held
<1> QED BY <1>3, <1>4, <1>5 DEF t

\* A row may go while its id is suppressed only when none of its deliveries can still
\* reach a message.
LEMMA EvictKeepsSpent ==
  ASSUME NEW s, s \in Manager, NEW I,
         \A j \in Job : IdOf[j] \in I => \/ IdOf[j] \notin s.suppressed
                                         \/ /\ s.dlv[<<j, 1>>] \notin {"formatting", "parked"}
                                            /\ s.dlv[<<j, 2>>] \notin {"formatting", "parked"}
  PROVE  KeepsSpent(s, Evict(s, I))
<1> DEFINE t == Evict(s, I)
<1>1. /\ t.row = [i \in Id |-> IF i \in I THEN NoJob ELSE s.row[i]]
      /\ t.job = s.job /\ t.dlv = s.dlv /\ t.suppressed = s.suppressed \ I
  BY EvictFrame
<1> HIDE DEF t
<1>2. SUFFICES ASSUME NEW j \in Job, Spent(s, j) PROVE Spent(t, j)
  BY DEF KeepsSpent, t
<1>3. CASE IdOf[j] \in I
  <2>1. t.row[IdOf[j]] # j
    BY <1>1, <1>3, IdAssumption, NilAssumption
  <2> QED BY <1>1, <1>2, <1>3, <2>1 DEF Spent
<1>4. CASE IdOf[j] \notin I
  BY <1>1, <1>2, <1>4, IdAssumption DEF Spent
<1> QED BY <1>3, <1>4

LEMMA AcknowledgeKeeps ==
  ASSUME NEW s, s \in Manager, NEW I \in SUBSET Id
  PROVE  /\ OwesNoMore(s, Acknowledge(s, I)) /\ KeepsSpent(s, Acknowledge(s, I))
         /\ KeepsHeld(s, Acknowledge(s, I))
<1> DEFINE t == Acknowledge(s, I)
<1>1. /\ t.row = s.row /\ t.job = s.job /\ t.consumed = s.consumed /\ t.dead = s.dead
      /\ t.sink = s.sink /\ t.suppressed = s.suppressed \cup I /\ t.watched = s.watched
      /\ t.dlv = [d \in Delivery |->
           IF s.dlv[d] \in {"queued", "retrying"}
              /\ IdFor(d) \in s.suppressed \cup I \cup s.watched
           THEN "none" ELSE s.dlv[d]]
  BY AcknowledgeFrame
<1> HIDE DEF t
<1>2. ASSUME NEW j \in Job, NEW k \in 1..2
      PROVE  /\ t.dlv[<<j, k>>] = s.dlv[<<j, k>>] \/ t.dlv[<<j, k>>] = "none"
             /\ IdOf[j] \notin t.suppressed \cup t.watched => t.dlv[<<j, k>>] = s.dlv[<<j, k>>]
  <2>1. <<j, k>> \in Delivery /\ IdFor(<<j, k>>) = IdOf[j]
    BY DEF Delivery, IdFor
  <2> QED BY <1>1, <2>1
<1>3. OwesNoMore(s, t)
  BY <1>1, <1>2 DEF OwesNoMore, Owed, Quiet, Settled, Suppressed
<1>4. KeepsSpent(s, t)
  BY <1>1, <1>2 DEF KeepsSpent, Spent
<1>5. KeepsHeld(s, t)
  BY <1>1 DEF KeepsHeld, Held
<1> QED BY <1>3, <1>4, <1>5 DEF t

LEMMA ConsumeResultsKeep ==
  ASSUME NEW s, s \in Manager, NEW I \in SUBSET Id
  PROVE  /\ OwesNoMore(s, ConsumeResults(s, I)) /\ KeepsSpent(s, ConsumeResults(s, I))
         /\ KeepsHeld(s, ConsumeResults(s, I))
<1> DEFINE t == ConsumeResults(s, I)
<1>1. /\ t.row = s.row /\ t.job = s.job /\ t.dlv = s.dlv /\ t.dead = s.dead
      /\ t.suppressed = s.suppressed /\ t.watched = s.watched /\ t.sink = s.sink
      /\ s.consumed \subseteq t.consumed
  BY ConsumeResultsFrame
<1> HIDE DEF t
<1>2. OwesNoMore(s, t)
  BY <1>1 DEF OwesNoMore, Owed, Quiet, Settled, Suppressed
<1>3. KeepsSpent(s, t) /\ KeepsHeld(s, t)
  BY <1>1 DEF KeepsSpent, Spent, KeepsHeld, Held
<1> QED BY <1>2, <1>3 DEF t

LEMMA CancelKeeps ==
  ASSUME NEW s, Sound(s), NEW J
  PROVE  LET t == CancelJobs(s, J)
         IN  OwesNoMore(s, t) /\ KeepsSpent(s, t) /\ ExposesNoMore(s, t) /\ KeepsHeld(s, t)
<1> DEFINE t == CancelJobs(s, J)
<1>1. /\ t.row = s.row /\ t.consumed = s.consumed /\ t.dlv = s.dlv /\ t.dead = s.dead
      /\ t.suppressed = s.suppressed /\ t.watched = s.watched /\ t.sink = s.sink
      /\ t.job = [j \in Job |-> IF j \in J /\ s.job[j].st = "running"
                                THEN [s.job[j] EXCEPT !.st = "cancelled"] ELSE s.job[j]]
  BY DEF CancelJobs, Sound, Manager
<1>2. ASSUME NEW j \in Job
      PROVE  /\ t.job[j].ended = s.job[j].ended /\ t.job[j].fore = s.job[j].fore
             /\ \/ t.job[j].st = s.job[j].st
                \/ s.job[j].st = "running" /\ t.job[j].st = "cancelled"
  <2>1. s.job[j] \in [st: Status, ended: BOOLEAN, fore: BOOLEAN]
    BY DEF Sound, Manager
  <2> QED BY <1>1, <2>1
<1> HIDE DEF t
<1>3. OwesNoMore(s, t)
  BY <1>1, <1>2 DEF OwesNoMore, Owed, Quiet, Settled, Suppressed
<1>4. KeepsSpent(s, t) /\ KeepsHeld(s, t)
  BY <1>1, <1>2 DEF KeepsSpent, Spent, KeepsHeld, Held
<1>5. ExposesNoMore(s, t)
  <2>1. \A d \in Delivery : Exposed(t, d) => Exposed(s, d)
    BY <1>1, <1>2 DEF Exposed
  <2>2. \A j \in Job : Overwatched(t, j) => Overwatched(s, j)
    BY <1>1, <1>2 DEF Overwatched, Quiet
  <2>3. \A i \in t.consumed : Settled(s, s.row[i]) => Settled(t, s.row[i])
    BY <1>1, <1>2 DEF Settled, Sound, Core, Manager, OptJob, HasRow
  <2> QED BY <1>1, <2>1, <2>2, <2>3 DEF ExposesNoMore
<1> QED BY <1>3, <1>4, <1>5 DEF t

LEMMA SupersededKeeps ==
  ASSUME NEW s, s \in Manager
  PROVE  /\ OwesNoMore(s, Superseded(s)) /\ KeepsSpent(s, Superseded(s))
         /\ KeepsHeld(s, Superseded(s))
<1> DEFINE t == Superseded(s)
<1>1. /\ t.row = s.row /\ t.job = s.job /\ t.consumed = s.consumed /\ t.dead = s.dead
      /\ t.suppressed = s.suppressed /\ t.watched = s.watched /\ t.sink = s.sink
      /\ t.dlv = [d \in Delivery |-> CASE s.dlv[d] = "formatting" -> "outdated"
                                       [] s.dlv[d] = "parked" -> "err"
                                       [] OTHER -> s.dlv[d]]
  BY DEF Superseded, Manager
<1> HIDE DEF t
<1>2. \A j \in Job :
        /\ t.dlv[<<j, 1>>] \in {s.dlv[<<j, 1>>], "outdated", "err"}
        /\ t.dlv[<<j, 2>>] \in {s.dlv[<<j, 2>>], "outdated", "err"}
        /\ t.dlv[<<j, 1>>] = "none" => s.dlv[<<j, 1>>] = "none"
        /\ t.dlv[<<j, 2>>] = "none" => s.dlv[<<j, 2>>] = "none"
  BY <1>1, Slots
<1>3. OwesNoMore(s, t)
  BY <1>1, <1>2 DEF OwesNoMore, Owed, Quiet, Settled, Suppressed
<1>4. KeepsSpent(s, t) /\ KeepsHeld(s, t)
  BY <1>1, <1>2 DEF KeepsSpent, Spent, KeepsHeld, Held
<1> QED BY <1>3, <1>4 DEF t

\* A queued delivery is attempted, or lost with the sink.
LEMMA AttemptKeeps ==
  ASSUME NEW s, s \in Manager, NEW d \in Delivery, s.dlv[d] \in {"queued", "retrying"}
  PROVE  /\ OwesNoMore(s, Attempt(s, {d})) /\ KeepsSpent(s, Attempt(s, {d}))
         /\ KeepsHeld(s, Attempt(s, {d}))
<1> DEFINE t == Attempt(s, {d})
<1>1. /\ t.row = s.row /\ t.job = s.job /\ t.consumed = s.consumed /\ t.sink = s.sink
      /\ t.suppressed = s.suppressed /\ t.watched = s.watched /\ s.dead \subseteq t.dead
      /\ \A x \in Delivery : x # d => t.dlv[x] = s.dlv[x]
      /\ t.dlv[d] \in {"none", "formatting", "ok"}
      /\ t.dlv[d] = "none" => d[1] \in t.dead
  BY DEF Attempt, Manager
<1> HIDE DEF t
<1>2. OwesNoMore(s, t)
  <2> SUFFICES ASSUME NEW j \in Job, Owed(t, j), ~Quiet(s, j)
               PROVE  Owed(s, j) /\ ~Quiet(t, j)
    BY <1>1 DEF OwesNoMore, Owed, Settled, Suppressed
  <2>1. Owed(s, j) /\ j \notin t.dead
    BY <1>1 DEF Owed, Settled, Suppressed
  <2>2. ~Quiet(t, j)
    BY <1>1, <2>1, Slots DEF Quiet
  <2> QED BY <2>1, <2>2
<1>3. KeepsSpent(s, t)
  <2> SUFFICES ASSUME NEW j \in Job, Spent(s, j) PROVE Spent(t, j)
    BY DEF KeepsSpent
  <2>1. <<j, 1>> # d /\ <<j, 2>> # d
    BY DEF Spent
  <2> QED BY <1>1, <2>1, Slots DEF Spent
<1>4. KeepsHeld(s, t)
  BY <1>1 DEF KeepsHeld, Held
<1> QED BY <1>2, <1>3, <1>4 DEF t

-----------------------------------------------------------------------------
(* What is kept of a manager while the results in V have been seen, those  *)
(* of rd were read, and the session is in the state sess.                  *)

NothingOwed(s) == \A j \in Job : Owed(s, j) => ~Quiet(s, j)

Witnessed(s, V, sess) ==
  /\ \A d \in Delivery : Exposed(s, d) => d[1] \in V \/ sess = "disposing"
  /\ \A j \in Job : ~Overwatched(s, j)
  /\ \A i \in s.consumed : s.row[i] \in V \/ (sess = "disposing" /\ Settled(s, s.row[i]))

Results(s, V, rd, sess) ==
  NothingOwed(s) /\ (\A j \in rd : Spent(s, j)) /\ Witnessed(s, V, sess)

LEMMA QuietStepsKeep ==
  ASSUME NEW s, NEW t, NEW V, NEW rd \in SUBSET Job, NEW sess, Results(s, V, rd, sess),
         OwesNoMore(s, t), KeepsSpent(s, t), ExposesNoMore(s, t)
  PROVE  Results(t, V, rd, sess)
<1>1. NothingOwed(t)
  BY DEF Results, NothingOwed, OwesNoMore
<1>2. \A j \in rd : Spent(t, j)
  BY DEF Results, KeepsSpent
<1>3. Witnessed(t, V, sess)
  BY DEF Results, Witnessed, ExposesNoMore
<1> QED BY <1>1, <1>2, <1>3 DEF Results

LEMMA DiscardKeeps ==
  ASSUME NEW s, s \in Manager, NEW i \in Id,
         \A j \in Job : IdOf[j] = i => \/ i \notin s.suppressed
                                       \/ /\ s.dlv[<<j, 1>>] \notin {"formatting", "parked"}
                                          /\ s.dlv[<<j, 2>>] \notin {"formatting", "parked"}
  PROVE  LET t == Discard(s, i)
         IN  OwesNoMore(s, t) /\ KeepsSpent(s, t) /\ ExposesNoMore(s, t) /\ KeepsHeld(s, t)
<1> DEFINE r == [s EXCEPT !.released = @ \ {i}]
<1>1. r \in Manager /\ SameMarks(s, r)
  BY DEF Manager, SameMarks
<1>2. Discard(s, i) = Evict(r, {i})
  BY DEF Discard
<1> HIDE DEF r
<1>3. /\ OwesNoMore(s, r) /\ KeepsSpent(s, r) /\ ExposesNoMore(s, r) /\ KeepsHeld(s, r)
  BY <1>1, SameMarksKeep
<1>4. KeepsSpent(r, Evict(r, {i}))
  BY <1>1, EvictKeepsSpent DEF SameMarks
<1> QED BY <1>1, <1>2, <1>3, <1>4, EvictKeeps, Compose, ComposeExposes

\* Only job j and the marks of its id change: the others' obligations are as they were.
LEMMA OneJobChanges ==
  ASSUME Single, NEW s, Sound(s), NEW t, NEW j \in Job,
         NEW V, NEW rd \in SUBSET Job, NEW sess, Results(s, V, rd, sess), j \notin rd,
         \A i \in Id : HasRow(s, i) => IdOf[s.row[i]] = i,
         \A k \in Job : k # j =>
           /\ SameJob(s, t, k) /\ t.row[IdOf[k]] = s.row[IdOf[k]]
           /\ IdOf[k] \in t.suppressed <=> IdOf[k] \in s.suppressed
           /\ IdOf[k] \in t.watched <=> IdOf[k] \in s.watched
           /\ IdOf[k] \in t.consumed <=> IdOf[k] \in s.consumed,
         s.dead \subseteq t.dead, t.consumed \subseteq s.consumed,
         IdOf[j] \in t.consumed => \/ t.row[IdOf[j]] \in V
                                   \/ sess = "disposing" /\ Settled(t, t.row[IdOf[j]]),
         Owed(t, j) => ~Quiet(t, j),
         \A d \in Delivery : d[1] = j /\ Exposed(t, d) => sess = "disposing",
         ~Overwatched(t, j)
  PROVE  Results(t, V, rd, sess)
<1>1. NothingOwed(t)
  <2> SUFFICES ASSUME NEW k \in Job, k # j, Owed(t, k) PROVE ~Quiet(t, k)
    BY DEF NothingOwed
  <2>1. Owed(s, k)
    BY DEF Owed, Settled, Suppressed, SameJob
  <2> QED BY <2>1 DEF Results, NothingOwed, Quiet, SameJob
<1>2. ASSUME NEW k \in rd PROVE Spent(t, k)
  BY DEF Results, Spent, SameJob
<1>3. ASSUME NEW d \in Delivery, Exposed(t, d) PROVE d[1] \in V \/ sess = "disposing"
  <2>1. CASE d[1] = j
    BY <1>3, <2>1
  <2>2. CASE d[1] # j
    <3>1. PICK k \in Job : k = d[1] /\ (d = <<k, 1>> \/ d = <<k, 2>>)
      BY Slots
    <3>2. /\ SameJob(s, t, k) /\ t.row[IdOf[k]] = s.row[IdOf[k]]
          /\ IdOf[k] \in t.suppressed <=> IdOf[k] \in s.suppressed
      BY <2>2, <3>1
    <3>3. t.dlv[d] = s.dlv[d] /\ IdFor(d) = IdOf[k]
      BY <3>1, <3>2 DEF SameJob, IdFor
    <3>4. Exposed(s, d)
      BY <1>3, <3>1, <3>2, <3>3 DEF Exposed
    <3> QED BY <3>4 DEF Results, Witnessed
  <2> QED BY <2>1, <2>2
<1>4. ASSUME NEW k \in Job PROVE ~Overwatched(t, k)
  BY DEF Results, Witnessed, Overwatched, SameJob, Quiet
<1>5. ASSUME NEW i \in t.consumed
      PROVE  t.row[i] \in V \/ (sess = "disposing" /\ Settled(t, t.row[i]))
  <2>0. CASE i = IdOf[j]
    BY <2>0
  <2> SUFFICES ASSUME i # IdOf[j]
               PROVE  t.row[i] \in V \/ (sess = "disposing" /\ Settled(t, t.row[i]))
    BY <2>0
  <2>1. i \in s.consumed /\ i \in Id /\ HasRow(s, i)
    BY DEF Sound, Core, Manager
  <2>2. PICK k \in Job : k = s.row[i] /\ k # j /\ IdOf[k] = i
    BY <2>1 DEF Sound, Manager, OptJob, HasRow
  <2>3. t.row[i] = s.row[i] /\ t.job[s.row[i]] = s.job[s.row[i]]
    <3>1. SameJob(s, t, k) /\ t.row[IdOf[k]] = s.row[IdOf[k]]
      BY <2>2
    <3> QED BY <2>2, <3>1 DEF SameJob
  <2> QED BY <2>1, <2>3 DEF Results, Witnessed, Settled
<1> QED BY <1>1, <1>2, <1>3, <1>4, <1>5 DEF Results, Witnessed

\* unwatchJobs enqueues what was skipped while watched, and nothing a reader returned.
LEMMA UnwatchResults ==
  ASSUME Single, NEW s, Sound(s), NEW inj, Deliveries(s, inj), NEW I \in SUBSET Id, NEW now,
         NEW V, NEW rd \in SUBSET Job, Results(s, V, rd, session),
         s.sink = (session # "gone"), session \in {"open", "disposing", "gone"}
  PROVE  /\ Results(Unwatch(s, I, now), V, rd, session)
         /\ KeepsHeld(s, Unwatch(s, I, now))
<1> DEFINE u == [s EXCEPT !.watched = @ \ I]
           t == Unwatch(s, I, now)
           S == Skipped(s, I)
<1>1. /\ u \in Manager /\ u.row = s.row /\ u.job = s.job /\ u.dlv = s.dlv
      /\ u.suppressed = s.suppressed /\ u.watched = s.watched \ I
      /\ u.consumed = s.consumed /\ u.sink = s.sink /\ u.dead = s.dead
  BY DEF Sound, Manager
<1>2. t = Enqueue(u, S, now) /\ S \in SUBSET Job
  BY DEF Unwatch, Skipped
<1>3. ASSUME NEW j \in S
      PROVE  /\ s.row[IdOf[j]] = j /\ IdOf[j] \notin s.suppressed /\ Quiet(s, j)
             /\ ~Suppressed(u, IdOf[j])
  <2>1. PICK i \in I \cap s.watched :
          s.row[i] = j /\ ~Suppressed(u, i) /\ Pending(s, i) = {}
    BY DEF Skipped
  <2>2. j \in Job /\ i \in Id /\ HasRow(s, i) /\ IdOf[j] = i
    BY <1>2, <2>1, NilAssumption DEF Deliveries, HasRow
  <2>3. Quiet(s, j)
    BY <2>1, <2>2, Slots DEF Pending, IdFor, Quiet
  <2> QED BY <1>1, <2>1, <2>2, <2>3 DEF Suppressed
<1>4. \A j \in S : ~Suppressed(u, IdOf[j]) => Quiet(u, j)
  BY <1>1, <1>3 DEF Quiet
<1> HIDE DEF u, S, t
<1>5. /\ t.row = s.row /\ t.job = s.job /\ t.suppressed = s.suppressed
      /\ t.watched = s.watched \ I /\ t.consumed = s.consumed /\ t.sink = s.sink
      /\ s.dead \subseteq t.dead
      /\ \A j \in Job : j \notin S => SameJob(s, t, j)
      /\ \A j \in S :
           /\ t.dlv[<<j, 1>>] = "none" => j \in t.dead
           /\ t.dlv[<<j, 1>>] \in {"none", "queued", "formatting", "ok"}
           /\ t.dlv[<<j, 1>>] = "ok" => s.sink /\ session # "open"
           /\ t.dlv[<<j, 2>>] = "none"
  BY <1>1, <1>2, <1>3, <1>4, EnqueueFrame DEF SameJob
<1>6. KeepsHeld(s, t)
  BY <1>5 DEF KeepsHeld, Held
<1>7. NothingOwed(t)
  <2> SUFFICES ASSUME NEW j \in Job, Owed(t, j), Quiet(t, j) PROVE FALSE
    BY DEF NothingOwed
  <2>1. j \notin S
    BY <1>5 DEF Owed, Quiet
  <2>2. Quiet(s, j)
    BY <1>5, <2>1 DEF SameJob, Quiet
  <2>3. /\ s.row[IdOf[j]] = j /\ Settled(s, j) /\ IdOf[j] \notin s.suppressed
        /\ IdOf[j] \notin s.consumed /\ j \notin s.dead /\ IdOf[j] \notin s.watched \ I
    BY <1>5 DEF Owed, Settled, Suppressed
  <2>4. CASE IdOf[j] \in s.watched \cap I
    <3>1. Pending(s, IdOf[j]) = {}
      <4> SUFFICES ASSUME NEW d \in Delivery, IdFor(d) = IdOf[j] PROVE s.dlv[d] = "none"
        BY DEF Pending
      <4>1. d[1] = j
        BY Slots DEF IdFor, Single, Automatic
      <4> QED BY <2>2, <4>1, Slots DEF Quiet
    <3>2. ~Suppressed(u, IdOf[j])
      BY <1>1, <2>3 DEF Suppressed
    <3>3. j \in Skipped(s, I)
      BY <2>3, <2>4, <3>1, <3>2 DEF Skipped, u
    <3> QED BY <2>1, <3>3 DEF S
  <2>5. CASE IdOf[j] \notin s.watched
    <3>1. Owed(s, j)
      BY <2>3, <2>5 DEF Owed, Suppressed
    <3> QED BY <2>2, <3>1 DEF Results, NothingOwed
  <2> QED BY <2>3, <2>4, <2>5
<1>8. ASSUME NEW j \in rd PROVE Spent(t, j)
  <2>1. Spent(s, j) /\ j \in Job
    BY DEF Results
  <2>2. j \notin S
    BY <1>3, <2>1 DEF Spent
  <2> QED BY <1>5, <2>1, <2>2 DEF Spent, SameJob
<1>9. ASSUME NEW d \in Delivery, Exposed(t, d) PROVE d[1] \in V \/ session = "disposing"
  <2>1. CASE d[1] \in S
    <3>1. t.dlv[d] = "ok"
      BY <1>3, <1>5, <1>9, <2>1, Slots DEF Exposed, IdFor
    <3> QED BY <1>5, <2>1, <3>1, Slots
  <2>2. CASE d[1] \notin S
    <3>1. PICK k \in Job : k = d[1] /\ (d = <<k, 1>> \/ d = <<k, 2>>)
      BY Slots
    <3>2. t.dlv[d] = s.dlv[d]
      BY <1>5, <2>2, <3>1 DEF SameJob
    <3>3. Exposed(s, d)
      BY <1>5, <1>9, <3>2 DEF Exposed
    <3> QED BY <3>3 DEF Results, Witnessed
  <2> QED BY <2>1, <2>2
<1>10. ASSUME NEW j \in Job, Overwatched(t, j) PROVE FALSE
  <2>1. j \notin S
    BY <1>1, <1>3, <1>5, <1>10 DEF Overwatched, Suppressed
  <2>2. Overwatched(s, j)
    BY <1>5, <1>10, <2>1 DEF Overwatched, SameJob, Quiet
  <2> QED BY <2>2 DEF Results, Witnessed
<1>11. \A i \in t.consumed :
         t.row[i] \in V \/ (session = "disposing" /\ Settled(t, t.row[i]))
  BY <1>5 DEF Results, Witnessed, Settled
<1> QED BY <1>6, <1>7, <1>8, <1>9, <1>10, <1>11 DEF Results, Witnessed, t

-----------------------------------------------------------------------------

\* The jobs whose result was read or inserted.
SeenJobs == read \cup {j \in Job : injected[j] # 0}

\* The inductive invariant: what is owed, spent and seen, the sink of the session, and
\* that a reader holds background jobs.
RState ==
  /\ Results(m, SeenJobs, read, session)
  /\ m.sink = (session # "gone")
  /\ \A w \in Waiter : \A j \in waiter[w].jobs : Held(m, j)
RInv == DInv /\ Single /\ RState

LEMMA RInvFacts ==
  ASSUME RInv
  PROVE  /\ Sound(m) /\ m \in Manager /\ Deliveries(m, injected) /\ Single
         /\ Results(m, SeenJobs, read, session) /\ m.sink = (session # "gone")
         /\ session \in {"open", "disposing", "gone"} /\ read \in SUBSET Job
         /\ \A i \in Id : HasRow(m, i) => m.row[i] \in Job /\ IdOf[m.row[i]] = i
         /\ \A w \in Waiter : waiter[w].jobs \in SUBSET Job
BY DInvSound, RowsAreJobs DEF RInv, RState, DInv, Inv, TypeOK, Deliveries, Manager, OptJob, HasRow

\* What is left to show of a step of the manager.
LEMMA ManagesResults ==
  ASSUME RInv, NEW s, Manages(s), Results(s, SeenJobs, read, session), KeepsHeld(m, s)
  PROVE  RState'
<1>1. m' = s /\ UNCHANGED <<session, waiter, injected, read>>
  BY DEF Manages
<1>2. SeenJobs' = SeenJobs
  BY <1>1 DEF SeenJobs
<1>3. Results(m, SeenJobs, read, session)'
  BY <1>1, <1>2 DEF Results, NothingOwed, Witnessed, Owed, Spent, Exposed, Overwatched, Settled,
                    Suppressed, Quiet
<1>4. m'.sink = (session' # "gone")
  BY <1>1 DEF RInv, RState, KeepsHeld
<1>5. \A w \in Waiter : \A j \in waiter'[w].jobs : Held(m', j)
  BY <1>1, RInvFacts DEF RInv, RState, KeepsHeld
<1>6. (\A w \in Waiter : \A j \in waiter[w].jobs : Held(m, j))'
  BY <1>5 DEF Held
<1> QED BY <1>3, <1>4, <1>6 DEF RState

\* A step of the manager that owes, spends and exposes nothing.
LEMMA QuietStep ==
  ASSUME RInv, NEW s, Manages(s), OwesNoMore(m, s), KeepsSpent(m, s), ExposesNoMore(m, s),
         KeepsHeld(m, s)
  PROVE  RState'
<1>1. Results(s, SeenJobs, read, session)
  BY RInvFacts, QuietStepsKeep
<1> QED BY <1>1, ManagesResults

\* Registering a job, in the background or backing a foreground call.
LEMMA RegisteredResults ==
  ASSUME RInv, NEW j \in Job, NEW fore \in BOOLEAN, CanRegister(j)
  PROVE  LET r == Registered(m, j, fore)
         IN  /\ Results(r, SeenJobs, read, session) /\ KeepsHeld(m, r)
             /\ r.row[IdOf[j]] = j /\ r.job[j].st = "running" /\ r.job[j].fore = fore
             /\ Deliveries(r, injected) /\ Sound(r)
<1> DEFINE i == IdOf[j]
           r == Registered(m, j, fore)
<1>1. i \in Id /\ m.row[i] = NoJob /\ m.job[j].st = "none"
  BY IdAssumption DEF HasRow, CanRegister
<1>2. /\ r.row = [m.row EXCEPT ![i] = j]
      /\ r.job = [m.job EXCEPT ![j] = [st |-> "running", ended |-> FALSE, fore |-> fore]]
      /\ r.consumed = m.consumed \ {i} /\ r.dlv = m.dlv /\ r.watched = m.watched
      /\ r.suppressed = (IF fore THEN m.suppressed \cup {i} ELSE m.suppressed \ {i})
      /\ r.dead = m.dead /\ r.sink = m.sink
  BY RInvFacts DEF Registered, Manager
<1>3. Sound(r) /\ Deliveries(r, injected)
  BY <1>1, RInvFacts, RegisteredSound, RegisteredKeeps DEF CanRegister
<1> HIDE DEF r
<1>4. /\ \A k \in Job : k # j => r.job[k] = m.job[k] /\ IdOf[k] # i
      /\ r.job[j].st = "running" /\ ~r.job[j].ended /\ r.job[j].fore = fore /\ r.row[i] = j
  BY <1>1, <1>2, RInvFacts DEF Manager, Single, Automatic
<1>5. Quiet(r, j)
  BY <1>3, <1>4 DEF Deliveries
<1>6. j \notin read
  BY <1>1, RInvFacts DEF Results, Spent, Deliveries
<1>7. \A k \in Job : k # j =>
        /\ SameJob(m, r, k) /\ r.row[IdOf[k]] = m.row[IdOf[k]]
        /\ IdOf[k] \in r.suppressed <=> IdOf[k] \in m.suppressed
        /\ IdOf[k] \in r.watched <=> IdOf[k] \in m.watched
        /\ IdOf[k] \in r.consumed <=> IdOf[k] \in m.consumed
  BY <1>2, <1>4, IdAssumption, RInvFacts DEF SameJob, Manager
<1>8. ~Owed(r, j) /\ ~Overwatched(r, j) /\ \A d \in Delivery : d[1] = j => ~Exposed(r, d)
  BY <1>4, <1>5, Slots DEF Owed, Settled, Overwatched, Exposed, Quiet
<1>9. Results(r, SeenJobs, read, session)
  BY <1>2, <1>6, <1>7, <1>8, RInvFacts, OneJobChanges
<1>10. KeepsHeld(m, r)
  BY <1>1, <1>2, <1>4 DEF KeepsHeld, Held
<1> QED BY <1>3, <1>4, <1>9, <1>10 DEF r

\* When a run ends the result is enqueued, unless its id is suppressed or watched.
LEMMA SettleResults ==
  ASSUME RInv, NEW j \in Job, NEW outcome \in {"completed", "failed"},
         NEW acked \in BOOLEAN, NEW now, Settle(j, outcome, acked, now)
  PROVE  RState'
<1> DEFINE i == IdOf[j]
           a == IF acked THEN Acknowledge(m, {i}) ELSE m
           st == IF m.job[j].st = "cancelled" THEN "cancelled" ELSE outcome
           b == [a EXCEPT !.job[j] = [st |-> st, ended |-> TRUE, fore |-> a.job[j].fore]]
           e == IF m.job[j].st = "cancelled" THEN b ELSE Enqueue(b, {j}, now)
<1>1. i \in Id /\ Unended(m, j) /\ m.row[i] = j /\ ~m.job[j].ended /\ Quiet(m, j)
      /\ i \notin m.consumed /\ j \notin read /\ NoJob # j
  <2>1. i \in Id /\ Unended(m, j) /\ ~m.job[j].ended
    BY IdAssumption DEF Settle, Unended
  <2>2. m.row[i] = j
    BY <2>1, RInvFacts DEF Sound, Core
  <2> QED BY <2>1, <2>2, RInvFacts, NilAssumption DEF Sound, Core, Deliveries, Results, Spent
<1>2. Manages(IF i \in e.released THEN Discard(e, i) ELSE Schedule(e, {i}, "retention"))
  BY DEF Settle
<1>3. /\ Sound(a) /\ SameCore(m, a) /\ a.watched = m.watched /\ a.sink = m.sink
      /\ Deliveries(a, injected) /\ Results(a, SeenJobs, read, session) /\ KeepsHeld(m, a)
  <2>1. CASE ~acked
    BY <2>1, RInvFacts DEF SameCore, KeepsHeld
  <2>2. CASE acked
    <3> DEFINE I == {i}
               q == Acknowledge(m, I)
    <3>1. I \in SUBSET Id
      BY <1>1
    <3> HIDE DEF I
    <3>2. /\ q \in Manager /\ q.row = m.row /\ q.job = m.job /\ q.watched = m.watched
          /\ q.consumed = m.consumed /\ q.sink = m.sink
          /\ q.suppressed = m.suppressed \cup I
          /\ q.dlv = [d \in Delivery |->
               IF m.dlv[d] \in {"queued", "retrying"}
                  /\ IdFor(d) \in m.suppressed \cup I \cup m.watched
               THEN "none" ELSE m.dlv[d]]
      BY <3>1, RInvFacts, AcknowledgeFrame
    <3>3. Sound(q) /\ SameCore(m, q) /\ Deliveries(q, injected)
      BY <3>1, RInvFacts, AcknowledgeSame, SameCoreSound, AcknowledgeTame, TameKeeps
    <3>4. ExposesNoMore(m, q)
      <4>1. \A d \in Delivery : Exposed(q, d) => Exposed(m, d)
        <5> SUFFICES ASSUME NEW d \in Delivery, Exposed(q, d), IdFor(d) = i PROVE FALSE
          BY <3>2 DEF Exposed, I
        <5>1. d[1] = j
          BY <3>2, <1>1 DEF Exposed
        <5> QED BY <1>1, <3>2, <5>1, Slots DEF Exposed, Quiet
      <4>2. \A k \in Job : Overwatched(q, k) => Overwatched(m, k)
        BY <3>2, Slots DEF Overwatched, Quiet
      <4> QED BY <3>2, <4>1, <4>2 DEF ExposesNoMore, Settled
    <3>5. Results(q, SeenJobs, read, session) /\ KeepsHeld(m, q)
      BY <3>1, <3>4, RInvFacts, AcknowledgeKeeps, QuietStepsKeep
    <3>6. a = q
      BY <2>2 DEF I
    <3> QED BY <3>2, <3>3, <3>5, <3>6
  <2> QED BY <2>1, <2>2
<1>4. /\ Unended(a, j) /\ a.row[i] = j /\ i \notin a.consumed /\ ~a.job[j].ended
  BY <1>1, <1>3 DEF SameCore, Unended
<1>5. Quiet(a, j)
  BY <1>3, <1>4 DEF Deliveries
<1> HIDE DEF a
<1>6. st \in Status \ {"none", "running"} /\ (m.job[j].st # "cancelled" => st # "cancelled")
  BY DEF Status
<1>7. /\ b.row = a.row /\ b.consumed = a.consumed /\ b.suppressed = a.suppressed
      /\ b.watched = a.watched /\ b.dlv = a.dlv /\ b.sink = a.sink /\ b.dead = a.dead
      /\ \A k \in Job : k # j => b.job[k] = a.job[k]
      /\ b.job[j].ended /\ b.job[j].st = st /\ b.job[j].fore = a.job[j].fore
  BY <1>3 DEF Sound, Manager
<1>9. Sound(b)
  BY <1>3, <1>4, <1>6, RunEndsSound
<1>10. st = "cancelled" => m.job[j].st = "cancelled"
  BY <1>6
<1> HIDE DEF st, b
<1>11. Quiet(b, j)
  BY <1>5, <1>7 DEF Quiet
<1>12. /\ e \in Manager /\ e.row = b.row /\ e.job = b.job /\ e.suppressed = b.suppressed
       /\ e.watched = b.watched /\ e.consumed = b.consumed /\ e.sink = b.sink
       /\ b.dead \subseteq e.dead
       /\ \A k \in Job : k # j => SameJob(b, e, k)
       /\ Suppressed(b, i) => Quiet(e, j)
       /\ ~Suppressed(b, i) =>
            \/ st = "cancelled" /\ Quiet(e, j)
            \/ /\ e.dlv[<<j, 1>>] \in {"none", "queued", "formatting", "ok"}
               /\ e.dlv[<<j, 1>>] = "none" => j \in e.dead
               /\ e.dlv[<<j, 1>>] = "ok" => b.sink /\ session # "open"
               /\ e.dlv[<<j, 2>>] = "none"
  <2>1. CASE m.job[j].st = "cancelled"
    <3>1. e = b /\ st = "cancelled"
      BY <2>1 DEF st
    <3> HIDE DEF e
    <3> QED BY <1>9, <1>11, <3>1 DEF SameJob, Sound
  <2>2. CASE m.job[j].st # "cancelled"
    <3> DEFINE J == {j}
               q == Enqueue(b, J, now)
    <3>0. J \in SUBSET Job /\ \A k \in J : Quiet(b, k)
      BY <1>11
    <3> HIDE DEF J
    <3>1. /\ q \in Manager /\ q.row = b.row /\ q.job = b.job
          /\ q.suppressed = b.suppressed /\ q.watched = b.watched
          /\ q.consumed = b.consumed /\ q.sink = b.sink /\ b.dead \subseteq q.dead
          /\ \A k \in Job : k \notin J \/ Suppressed(b, IdOf[k]) => SameJob(b, q, k)
          /\ \A k \in J : ~Suppressed(b, IdOf[k]) =>
               /\ q.dlv[<<k, 1>>] \in {"none", "queued", "formatting", "ok"}
               /\ q.dlv[<<k, 1>>] = "none" => k \in q.dead
               /\ q.dlv[<<k, 1>>] = "ok" => b.sink /\ session # "open"
               /\ q.dlv[<<k, 2>>] = "none"
      BY <1>9, <3>0, EnqueueFrame DEF Sound
    <3>2. e = q /\ J = {j}
      BY <2>2 DEF J
    <3> HIDE DEF q, e
    <3>3. Suppressed(b, i) => Quiet(q, j)
      BY <1>11, <3>1 DEF Quiet, SameJob
    <3> QED BY <3>1, <3>2, <3>3
  <2> QED BY <2>1, <2>2
<1> HIDE DEF e
<1>13. Results(e, SeenJobs, read, session)
  <2>1. \A k \in Job : k # j =>
           /\ SameJob(a, e, k) /\ e.row[IdOf[k]] = a.row[IdOf[k]]
           /\ IdOf[k] \in e.suppressed <=> IdOf[k] \in a.suppressed
           /\ IdOf[k] \in e.watched <=> IdOf[k] \in a.watched
           /\ IdOf[k] \in e.consumed <=> IdOf[k] \in a.consumed
    BY <1>7, <1>12 DEF SameJob
  <2>2. Owed(e, j) => ~Quiet(e, j)
    BY <1>7, <1>12 DEF Owed, Settled, Suppressed, Quiet
  <2>3. ~Overwatched(e, j)
    BY <1>7, <1>12 DEF Overwatched, Suppressed
  <2>4. ASSUME NEW d \in Delivery, d[1] = j, Exposed(e, d) PROVE session = "disposing"
    <3>1. IdFor(d) = i /\ ~Quiet(e, j) /\ (d = <<j, 1>> \/ d = <<j, 2>>)
      BY <2>4, Slots DEF Exposed, IdFor, Quiet
    <3>2. ~Suppressed(b, i)
      BY <1>12, <3>1
    <3>3. e.dlv[d] = "ok"
      BY <1>7, <1>12, <2>4, <3>1, <3>2 DEF Exposed, Suppressed
    <3>4. b.sink /\ session # "open"
      BY <1>12, <3>1, <3>2, <3>3
    <3> QED BY <1>3, <1>7, <3>4, RInvFacts
  <2>5. \A h \in Id : HasRow(a, h) => IdOf[a.row[h]] = h
    BY <1>3 DEF Deliveries
  <2>6. a.dead \subseteq e.dead /\ e.consumed \subseteq a.consumed /\ i \notin e.consumed
    BY <1>4, <1>7, <1>12
  <2> QED BY <1>1, <1>3, <2>1, <2>2, <2>3, <2>4, <2>5, <2>6, RInvFacts, OneJobChanges
<1>14. KeepsHeld(m, e)
  <2>1. KeepsHeld(a, e)
    <3> SUFFICES ASSUME NEW k \in Job, Held(a, k) PROVE Held(e, k)
      BY <1>7, <1>12 DEF KeepsHeld
    <3> QED BY <1>6, <1>7, <1>12 DEF Held
  <2> QED BY <1>3, <2>1, Compose
<1>15. CASE i \in e.released
  <2>1. \A k \in Job : IdOf[k] = i => \/ i \notin e.suppressed
                                      \/ /\ e.dlv[<<k, 1>>] \notin {"formatting", "parked"}
                                         /\ e.dlv[<<k, 2>>] \notin {"formatting", "parked"}
    BY <1>12, RInvFacts DEF Single, Automatic, Suppressed, Quiet
  <2>2. /\ OwesNoMore(e, Discard(e, i)) /\ KeepsSpent(e, Discard(e, i))
        /\ ExposesNoMore(e, Discard(e, i)) /\ KeepsHeld(e, Discard(e, i))
    BY <1>1, <1>12, <2>1, DiscardKeeps
  <2>3. Results(Discard(e, i), SeenJobs, read, session) /\ KeepsHeld(m, Discard(e, i))
    BY <1>13, <1>14, <2>2, RInvFacts, QuietStepsKeep, Compose
  <2> QED BY <1>2, <1>15, <2>3, ManagesResults
<1>16. CASE i \notin e.released
  <2> DEFINE t == Schedule(e, {i}, "retention")
  <2>1. SameMarks(e, t)
    BY <1>12, ScheduleFrame DEF SameMarks, Timer
  <2>2. Results(t, SeenJobs, read, session) /\ KeepsHeld(m, t)
    BY <1>13, <1>14, <2>1, RInvFacts, SameMarksKeep, QuietStepsKeep, Compose
  <2> QED BY <1>2, <1>16, <2>2, ManagesResults
<1> QED BY <1>15, <1>16

\* A foreground job that settled before its promotion is enqueued by it.
LEMMA BackgroundResults ==
  ASSUME RInv, NEW j \in Job, NEW now, Background(j, now)
  PROVE  RState'
<1> DEFINE i == IdOf[j]
           b == [m EXCEPT !.job[j].fore = FALSE, !.suppressed = @ \ {i}]
           e == IF Settled(m, j) THEN Enqueue(b, {j}, now) ELSE b
<1>1. i \in Id /\ m.row[i] = j /\ m.job[j].fore /\ Manages(e)
  BY IdAssumption DEF Background
<1>2. /\ b.row = m.row /\ b.consumed = m.consumed /\ b.dlv = m.dlv /\ b.sink = m.sink
      /\ b.watched = m.watched /\ b.dead = m.dead
      /\ b.suppressed = m.suppressed \ {i}
      /\ \A k \in Job : k # j => b.job[k] = m.job[k] /\ IdOf[k] # i
      /\ b.job[j].ended = m.job[j].ended /\ b.job[j].st = m.job[j].st /\ ~b.job[j].fore
  BY RInvFacts DEF Manager, Single, Automatic
<1>3. b \in Manager
  <2>1. [m.job EXCEPT ![j].fore = FALSE] \in [Job -> [st: Status, ended: BOOLEAN, fore: BOOLEAN]]
    BY RInvFacts DEF Manager
  <2>2. m.suppressed \ {i} \in SUBSET Id
    BY RInvFacts DEF Manager
  <2> QED BY <2>1, <2>2, RInvFacts DEF Manager
<1> HIDE DEF b
<1>4. Quiet(m, j) /\ Quiet(b, j) /\ j \notin read /\ j \notin SeenJobs
  <2>1. Quiet(m, j) /\ injected[j] = 0
    BY <1>1, RInvFacts DEF Deliveries
  <2>2. j \notin read
    BY <1>1, RInvFacts DEF Results, Spent
  <2> QED BY <1>2, <2>1, <2>2 DEF SeenJobs, Quiet
<1>5. /\ e.row = m.row /\ e.job = b.job /\ e.suppressed = b.suppressed
      /\ e.watched = m.watched /\ e.consumed = m.consumed /\ e.sink = m.sink
      /\ m.dead \subseteq e.dead
      /\ \A k \in Job : k # j => SameJob(b, e, k)
      /\ Suppressed(b, i) \/ ~Settled(m, j) => Quiet(e, j)
      /\ ~Suppressed(b, i) /\ Settled(m, j) =>
            /\ e.dlv[<<j, 1>>] \in {"none", "queued", "formatting", "ok"}
            /\ e.dlv[<<j, 1>>] = "none" => j \in e.dead
            /\ e.dlv[<<j, 1>>] = "ok" => b.sink /\ session # "open"
            /\ e.dlv[<<j, 2>>] = "none"
  <2>1. CASE ~Settled(m, j)
    <3>1. e = b
      BY <2>1
    <3> HIDE DEF e
    <3> QED BY <1>2, <1>4, <2>1, <3>1 DEF SameJob
  <2>2. CASE Settled(m, j)
    <3> DEFINE J == {j}
               q == Enqueue(b, J, now)
    <3>0. J \in SUBSET Job /\ \A k \in J : Quiet(b, k)
      BY <1>4
    <3> HIDE DEF J
    <3>1. /\ q \in Manager /\ q.row = b.row /\ q.job = b.job
          /\ q.suppressed = b.suppressed /\ q.watched = b.watched
          /\ q.consumed = b.consumed /\ q.sink = b.sink /\ b.dead \subseteq q.dead
          /\ \A k \in Job : k \notin J \/ Suppressed(b, IdOf[k]) => SameJob(b, q, k)
          /\ \A k \in J : ~Suppressed(b, IdOf[k]) =>
               /\ q.dlv[<<k, 1>>] \in {"none", "queued", "formatting", "ok"}
               /\ q.dlv[<<k, 1>>] = "none" => k \in q.dead
               /\ q.dlv[<<k, 1>>] = "ok" => b.sink /\ session # "open"
               /\ q.dlv[<<k, 2>>] = "none"
      BY <1>3, <3>0, EnqueueFrame
    <3>2. e = q /\ J = {j}
      BY <2>2 DEF J
    <3> HIDE DEF q, e
    <3>3. Suppressed(b, i) => Quiet(q, j)
      BY <1>4, <3>1 DEF Quiet, SameJob
    <3> QED BY <1>2, <2>2, <3>1, <3>2, <3>3
  <2> QED BY <2>1, <2>2
<1> HIDE DEF e
<1>6. Results(e, SeenJobs, read, session)
  <2>1. \A k \in Job : k # j =>
           /\ SameJob(m, e, k) /\ e.row[IdOf[k]] = m.row[IdOf[k]]
           /\ IdOf[k] \in e.suppressed <=> IdOf[k] \in m.suppressed
           /\ IdOf[k] \in e.watched <=> IdOf[k] \in m.watched
           /\ IdOf[k] \in e.consumed <=> IdOf[k] \in m.consumed
    BY <1>2, <1>5 DEF SameJob
  <2>2. Owed(e, j) => ~Quiet(e, j)
    BY <1>2, <1>5 DEF Owed, Settled, Suppressed, Quiet
  <2>3. ~Overwatched(e, j)
    BY <1>2, <1>5 DEF Overwatched, Suppressed
  <2>4. ASSUME NEW d \in Delivery, d[1] = j, Exposed(e, d) PROVE session = "disposing"
    <3>1. IdFor(d) = i /\ ~Quiet(e, j) /\ (d = <<j, 1>> \/ d = <<j, 2>>)
      BY <2>4, Slots DEF Exposed, IdFor, Quiet
    <3>2. ~Suppressed(b, i) /\ Settled(m, j)
      BY <1>5, <3>1
    <3>3. e.dlv[d] = "ok"
      BY <1>5, <2>4, <3>1, <3>2 DEF Exposed, Suppressed
    <3>4. m.sink /\ session # "open"
      BY <1>2, <1>5, <3>1, <3>2, <3>3
    <3> QED BY <3>4, RInvFacts
  <2>5. i \in e.consumed => e.row[i] \in SeenJobs
                            \/ (session = "disposing" /\ Settled(e, e.row[i]))
    <3> SUFFICES ASSUME i \in m.consumed
                 PROVE  session = "disposing" /\ Settled(e, e.row[i])
      BY <1>5
    <3>1. session = "disposing" /\ Settled(m, j)
      BY <1>1, <1>4, RInvFacts DEF Results, Witnessed
    <3> QED BY <1>1, <1>2, <1>5, <3>1 DEF Settled
  <2>6. m.dead \subseteq e.dead /\ e.consumed \subseteq m.consumed
    BY <1>5
  <2> QED BY <1>4, <2>1, <2>2, <2>3, <2>4, <2>5, <2>6, RInvFacts, OneJobChanges
<1>7. KeepsHeld(m, e)
  <2> SUFFICES ASSUME NEW k \in Job, Held(m, k) PROVE Held(e, k)
    BY <1>5 DEF KeepsHeld
  <2> QED BY <1>2, <1>5 DEF Held
<1> QED BY <1>1, <1>6, <1>7, ManagesResults

LEMMA JobStepResults ==
  ASSUME RInv, JobStep
  PROVE  RState'
<1> USE RInvFacts
<1>1. ASSUME NEW j \in Job, NEW fore \in BOOLEAN, Register(j, fore) PROVE RState'
  BY <1>1, RegisteredResults, ManagesResults DEF Register
<1>2. ASSUME NEW j \in Job, Cancel(j) PROVE RState'
  BY <1>2, CancelKeeps, QuietStep DEF Cancel
<1>3. ASSUME NEW j \in Job, NEW aborted \in BOOLEAN, ForegroundDone(j, aborted) PROVE RState'
  <2> DEFINE i == IdOf[j]
             c == IF aborted THEN CancelJobs(m, {j}) ELSE m
             t == ReleaseForeground(c, i)
  <2>1. i \in Id /\ m.row[i] = j /\ m.job[j].fore /\ Manages(t)
    BY <1>3, IdAssumption DEF ForegroundDone
  <2>2. /\ OwesNoMore(m, c) /\ KeepsSpent(m, c) /\ ExposesNoMore(m, c) /\ KeepsHeld(m, c)
        /\ Sound(c) /\ Tame(m, c)
    <3>1. SameMarks(m, m) /\ Tame(m, m)
      BY DEF SameMarks, Tame
    <3> QED BY <3>1, SameMarksKeep, CancelKeeps, CancelSound, CancelTame
  <2> HIDE DEF c
  <2>3. Quiet(c, j)
    BY <2>1, <2>2, Slots DEF Tame, Deliveries, Quiet
  <2>4. /\ OwesNoMore(c, t) /\ KeepsSpent(c, t) /\ ExposesNoMore(c, t) /\ KeepsHeld(c, t)
    <3>1. \A k \in Job : IdOf[k] = i => /\ c.dlv[<<k, 1>>] \notin {"formatting", "parked"}
                                        /\ c.dlv[<<k, 2>>] \notin {"formatting", "parked"}
      BY <2>3 DEF Single, Automatic, Quiet
    <3>2. LET r == [c EXCEPT !.released = @ \cup {i}] IN SameMarks(c, r)
      BY <2>2 DEF SameMarks, Sound, Manager
    <3>3. SameMarks(c, c)
      BY DEF SameMarks
    <3> QED BY <2>1, <2>2, <3>1, <3>2, <3>3, DiscardKeeps, SameMarksKeep
            DEF ReleaseForeground, Sound
  <2> HIDE DEF t
  <2> QED BY <2>1, <2>2, <2>4, Compose, ComposeExposes, QuietStep
<1> QED BY <1>1, <1>2, <1>3, SettleResults, BackgroundResults DEF JobStep

\* A delivery goes on to where it can no longer be stopped, exposed or lost: into a
\* message, or back with an error.
LEMMA MoveKeeps ==
  ASSUME NEW s, s \in Manager, NEW d \in Delivery, NEW pc \in {"picked", "err"},
         s.dlv[d] # "none"
  PROVE  LET t == [s EXCEPT !.dlv[d] = pc]
         IN  OwesNoMore(s, t) /\ KeepsSpent(s, t) /\ ExposesNoMore(s, t) /\ KeepsHeld(s, t)
<1> DEFINE t == [s EXCEPT !.dlv[d] = pc]
<1>1. /\ t.row = s.row /\ t.job = s.job /\ t.suppressed = s.suppressed
      /\ t.watched = s.watched /\ t.consumed = s.consumed /\ t.dead = s.dead
      /\ t.sink = s.sink
      /\ t.dlv[d] = pc /\ \A x \in Delivery : x # d => t.dlv[x] = s.dlv[x]
  BY DEF Manager
<1> HIDE DEF t
<1>2. \A j \in Job : Quiet(s, j) <=> Quiet(t, j)
  BY <1>1, Slots DEF Quiet
<1>3. OwesNoMore(s, t)
  BY <1>1, <1>2 DEF OwesNoMore, Owed, Settled, Suppressed
<1>4. KeepsSpent(s, t)
  BY <1>1, Slots DEF KeepsSpent, Spent
<1>5. ExposesNoMore(s, t)
  BY <1>1, <1>2 DEF ExposesNoMore, Exposed, Overwatched, Settled
<1>6. KeepsHeld(s, t)
  BY <1>1 DEF KeepsHeld, Held
<1> QED BY <1>3, <1>4, <1>5, <1>6 DEF t

LEMMA DeliveryLoopResults ==
  ASSUME RInv, NEW d \in Delivery, DeliveryLoop(d)
  PROVE  RState'
<1> USE RInvFacts
<1>1. m.dlv[d] \in {"queued", "retrying"}
  BY DEF DeliveryLoop
<1>2. CASE Suppressed(m, IdFor(d))
  <2> DEFINE t == [m EXCEPT !.dlv[d] = "none"]
  <2>1. /\ t.row = m.row /\ t.job = m.job /\ t.suppressed = m.suppressed
        /\ t.watched = m.watched /\ t.consumed = m.consumed /\ t.dead = m.dead
        /\ t.sink = m.sink
        /\ t.dlv[d] = "none" /\ \A x \in Delivery : x # d => t.dlv[x] = m.dlv[x]
    BY DEF Manager
  <2>2. Manages(t)
    BY <1>2 DEF DeliveryLoop
  <2> HIDE DEF t
  <2>3. OwesNoMore(m, t)
    BY <1>2, <2>1, Slots DEF OwesNoMore, Owed, Settled, Suppressed, Quiet, IdFor
  <2>4. KeepsSpent(m, t)
    BY <2>1, Slots DEF KeepsSpent, Spent
  <2>5. ExposesNoMore(m, t)
    BY <2>1, Slots DEF ExposesNoMore, Exposed, Overwatched, Quiet, Settled
  <2>6. KeepsHeld(m, t)
    BY <2>1 DEF KeepsHeld, Held
  <2> QED BY <2>2, <2>3, <2>4, <2>5, <2>6, QuietStep
<1>3. CASE ~Suppressed(m, IdFor(d))
  <2> DEFINE t == Attempt(m, {d})
  <2>1. /\ t.row = m.row /\ t.job = m.job /\ t.consumed = m.consumed
        /\ t.suppressed = m.suppressed /\ t.watched = m.watched
        /\ \A x \in Delivery : x # d => t.dlv[x] = m.dlv[x]
        /\ t.dlv[d] \in {"none", "formatting", "ok"}
        /\ t.dlv[d] = "ok" => m.sink /\ session # "open"
    BY DEF Attempt, Manager
  <2>2. Manages(t) /\ OwesNoMore(m, t) /\ KeepsSpent(m, t) /\ KeepsHeld(m, t)
    BY <1>1, <1>3, AttemptKeeps DEF DeliveryLoop
  <2> HIDE DEF t
  <2>3. NothingOwed(t) /\ \A j \in read : Spent(t, j)
    BY <2>2 DEF Results, NothingOwed, OwesNoMore, KeepsSpent
  <2>4. ASSUME NEW x \in Delivery, Exposed(t, x)
        PROVE  x[1] \in SeenJobs \/ session = "disposing"
    <3>1. CASE x = d
      <4>1. t.dlv[d] = "ok"
        BY <1>3, <2>1, <2>4, <3>1 DEF Exposed, Suppressed
      <4> QED BY <2>1, <4>1
    <3>2. CASE x # d
      <4>1. Exposed(m, x)
        BY <2>1, <2>4, <3>2 DEF Exposed
      <4> QED BY <4>1 DEF Results, Witnessed
    <3> QED BY <3>1, <3>2
  <2>5. ASSUME NEW j \in Job, Overwatched(t, j) PROVE FALSE
    <3>1. IdOf[j] # IdFor(d)
      BY <1>3, <2>1, <2>5 DEF Overwatched, Suppressed
    <3>2. Overwatched(m, j)
      BY <2>1, <2>5, <3>1, Slots DEF Overwatched, Quiet, IdFor
    <3> QED BY <3>2 DEF Results, Witnessed
  <2>6. \A i \in t.consumed :
          t.row[i] \in SeenJobs \/ (session = "disposing" /\ Settled(t, t.row[i]))
    BY <2>1 DEF Results, Witnessed, Settled
  <2>7. Results(t, SeenJobs, read, session)
    BY <2>3, <2>4, <2>5, <2>6 DEF Results, Witnessed
  <2> QED BY <2>2, <2>7, ManagesResults
<1> QED BY <1>2, <1>3

\* The format step ends at once for a delivery that must not be seen.
LEMMA FormattedResults ==
  ASSUME RInv, NEW d \in Delivery, Formatted(d)
  PROVE  RState'
<1> USE RInvFacts
<1> DEFINE pc == IF m.dlv[d] = "outdated" \/ Suppressed(m, IdFor(d)) THEN "ok" ELSE "parked"
           t == [m EXCEPT !.dlv[d] = pc]
<1>1. m.dlv[d] \in {"formatting", "outdated"} /\ Manages(t)
  BY DEF Formatted
<1>2. /\ t.row = m.row /\ t.job = m.job /\ t.suppressed = m.suppressed
      /\ t.watched = m.watched /\ t.consumed = m.consumed /\ t.dead = m.dead
      /\ t.sink = m.sink
      /\ t.dlv[d] = pc /\ \A x \in Delivery : x # d => t.dlv[x] = m.dlv[x]
  BY DEF Manager
<1>3. /\ pc \in {"ok", "parked"}
      /\ pc = "ok" => m.dlv[d] = "outdated" \/ Suppressed(m, IdFor(d))
      /\ pc = "parked" => m.dlv[d] = "formatting" /\ ~Suppressed(m, IdFor(d))
  BY <1>1
<1> HIDE DEF t, pc
<1>4. \A j \in Job : Quiet(m, j) <=> Quiet(t, j)
  BY <1>1, <1>2, <1>3, Slots DEF Quiet
<1>5. OwesNoMore(m, t)
  BY <1>2, <1>4 DEF OwesNoMore, Owed, Settled, Suppressed
<1>6. KeepsSpent(m, t)
  <2> SUFFICES ASSUME NEW j \in Job, Spent(m, j) PROVE Spent(t, j)
    BY DEF KeepsSpent
  <2>1. CASE d[1] # j
    BY <1>2, <2>1, Slots DEF Spent
  <2>2. CASE d[1] = j
    <3>1. IdFor(d) = IdOf[j] /\ (d = <<j, 1>> \/ d = <<j, 2>>)
      BY <2>2, Slots DEF IdFor
    <3>2. pc = "parked" => FALSE
      BY <1>3, <3>1 DEF Spent, Suppressed
    <3> QED BY <1>2, <1>3, <3>1, <3>2, Slots DEF Spent
  <2> QED BY <2>1, <2>2
<1>7. ExposesNoMore(m, t)
  <2>1. ASSUME NEW x \in Delivery, Exposed(t, x) PROVE Exposed(m, x)
    <3>1. CASE x # d
      BY <1>2, <2>1, <3>1 DEF Exposed
    <3>2. CASE x = d
      <4>1. m.row[IdFor(d)] = d[1] /\ m.dlv[d] # "none"
        BY <1>1, <1>2, <2>1, <3>2 DEF Exposed
      <4>2. IdFor(d) \notin m.watched
        <5>1. d[1] \in Job /\ ~Quiet(m, d[1]) /\ IdFor(d) = IdOf[d[1]]
          BY <4>1, Slots DEF Quiet, IdFor
        <5>2. m.job[d[1]].ended
          BY <5>1 DEF Deliveries
        <5> QED BY <4>1, <5>1, <5>2 DEF Results, Witnessed, Overwatched
      <4> QED BY <1>2, <1>3, <2>1, <3>2, <4>1, <4>2 DEF Exposed, Suppressed
    <3> QED BY <3>1, <3>2
  <2>2. \A j \in Job : Overwatched(t, j) => Overwatched(m, j)
    BY <1>2, <1>4 DEF Overwatched
  <2> QED BY <1>2, <2>1, <2>2 DEF ExposesNoMore, Settled
<1>8. KeepsHeld(m, t)
  BY <1>2 DEF KeepsHeld, Held
<1> QED BY <1>1, <1>5, <1>6, <1>7, <1>8, QuietStep

\* An inserted result has been seen.
LEMMA CommitResults ==
  ASSUME RInv, NEW d \in Delivery, Commit(d)
  PROVE  RState'
<1> USE RInvFacts
<1> DEFINE t == [m EXCEPT !.dlv[d] = "ok"]
           V == SeenJobs \cup {d[1]}
<1>1. /\ m.dlv[d] = "picked" /\ m' = t /\ UNCHANGED <<session, waiter, read>>
      /\ injected' = [injected EXCEPT ![d[1]] = @ + 1]
  BY DEF Commit
<1>2. /\ t.row = m.row /\ t.job = m.job /\ t.suppressed = m.suppressed
      /\ t.watched = m.watched /\ t.consumed = m.consumed /\ t.dead = m.dead
      /\ t.sink = m.sink
      /\ t.dlv[d] = "ok" /\ \A x \in Delivery : x # d => t.dlv[x] = m.dlv[x]
  BY DEF Manager
<1>3. SeenJobs' = V
  <2>1. injected \in [Job -> Nat] /\ injected[d[1]] = 0
    BY <1>1 DEF RInv, DInv, Inv, TypeOK, Deliveries
  <2>2. injected'[d[1]] # 0 /\ \A j \in Job : j # d[1] => injected'[j] = injected[j]
    BY <1>1, <2>1, Slots
  <2> QED BY <1>1, <2>1, <2>2, Slots DEF SeenJobs
<1> HIDE DEF t, V
<1>4. \A j \in Job : Quiet(m, j) <=> Quiet(t, j)
  BY <1>1, <1>2, Slots DEF Quiet
<1>5. NothingOwed(t)
  BY <1>2, <1>4 DEF Results, NothingOwed, Owed, Settled, Suppressed
<1>6. \A j \in read : Spent(t, j)
  BY <1>2, Slots DEF Results, Spent
<1>7. Witnessed(t, V, session)
  <2>1. \A x \in Delivery : Exposed(t, x) => x[1] \in V \/ session = "disposing"
    BY <1>2 DEF Results, Witnessed, Exposed, V
  <2>2. \A j \in Job : ~Overwatched(t, j)
    BY <1>2, <1>4 DEF Results, Witnessed, Overwatched
  <2>3. \A i \in t.consumed : t.row[i] \in V \/ (session = "disposing" /\ Settled(t, t.row[i]))
    BY <1>2 DEF Results, Witnessed, Settled, V
  <2> QED BY <2>1, <2>2, <2>3 DEF Witnessed
<1>8. Results(m, SeenJobs, read, session)'
  <2>1. Results(t, V, read, session)
    BY <1>5, <1>6, <1>7 DEF Results
  <2> QED BY <1>1, <1>3, <2>1 DEF Results, NothingOwed, Witnessed, Owed, Spent, Exposed,
                                  Overwatched, Settled, Suppressed, Quiet
<1>9. (\A w \in Waiter : \A j \in waiter[w].jobs : Held(m, j))'
  BY <1>1, <1>2 DEF RInv, RState, Held
<1> QED BY <1>1, <1>2, <1>8, <1>9 DEF RState

\* A held timer evicts the row of a delivery whose attempt has ended.
LEMMA AttemptEndsKeeps ==
  ASSUME Single, NEW s, s \in Manager, NEW d \in Delivery,
         s.dlv[<<d[1], 1>>] \notin {"formatting", "parked"},
         s.dlv[<<d[1], 2>>] \notin {"formatting", "parked"}
  PROVE  LET t == AttemptEnds(s, d)
         IN  OwesNoMore(s, t) /\ KeepsSpent(s, t) /\ ExposesNoMore(s, t) /\ KeepsHeld(s, t)
<1>1. SameMarks(s, s)
  BY DEF SameMarks
<1>2. \A j \in Job : IdOf[j] \in {IdFor(d)} => j = d[1]
  BY Slots DEF Single, Automatic, IdFor
<1>3. KeepsSpent(s, Evict(s, {IdFor(d)}))
  BY <1>2, EvictKeepsSpent
<1> QED BY <1>1, <1>3, SameMarksKeep, EvictKeeps DEF AttemptEnds

\* What the end of a sink call consumes was inserted, or its session is going.
LEMMA DeliveredResults ==
  ASSUME RInv, NEW d \in Delivery, Delivered(d)
  PROVE  RState'
<1> USE RInvFacts
<1> DEFINE i == IdFor(d)
           j == d[1]
           c == IF i \in m.consumed /\ HasRow(m, i) THEN Schedule(m, {i}, "grace") ELSE m
           l == [c EXCEPT !.dlv[d] = "none"]
           e == IF i \in m.consumed THEN l ELSE ConsumeResults(l, {i})
           t == AttemptEnds(e, d)
<1>1. Manages(t) /\ m.dlv[d] = "ok"
  BY DEF Delivered
<1>2. i \in Id /\ i = IdOf[j] /\ j \in Job /\ (d = <<j, 1>> \/ d = <<j, 2>>)
  BY Slots, IdAssumption DEF IdFor
<1>3. ~Quiet(m, j) /\ m.job[j].ended /\ Settled(m, j)
  BY <1>1, <1>2 DEF Deliveries, Quiet
<1>4. c \in Manager /\ SameMarks(m, c)
  <2> DEFINE q == Schedule(m, {i}, "grace")
  <2>1. q \in Manager /\ SameMarks(m, q)
    BY ScheduleFrame DEF SameMarks, Timer
  <2> HIDE DEF q
  <2>2. SameMarks(m, m)
    BY DEF SameMarks
  <2>3. c = q \/ c = m
    BY DEF q
  <2> QED BY <2>1, <2>2, <2>3
<1> HIDE DEF c
<1>5. /\ l \in Manager /\ l.row = m.row /\ l.job = m.job /\ l.consumed = m.consumed
      /\ l.suppressed = m.suppressed /\ l.watched = m.watched /\ l.dead = m.dead
      /\ l.sink = m.sink
      /\ l.dlv[d] = "none" /\ \A x \in Delivery : x # d => l.dlv[x] = m.dlv[x]
  BY <1>4 DEF SameMarks, Manager, Pc
<1> HIDE DEF l
<1>6. /\ e \in Manager /\ e.row = m.row /\ e.job = m.job /\ e.dlv = l.dlv
      /\ e.suppressed = m.suppressed /\ e.watched = m.watched /\ e.dead = m.dead
      /\ e.sink = m.sink /\ m.consumed \subseteq e.consumed
      /\ e.consumed \subseteq m.consumed \cup {i}
      /\ i \in e.consumed \ m.consumed => HasRow(m, i)
      /\ m.row[i] = j => i \in e.consumed
  <2>1. CASE i \in m.consumed
    BY <1>5, <2>1
  <2>2. CASE i \notin m.consumed
    <3> DEFINE I == {i}
               C == {h \in I : HasRow(l, h) /\ h \notin l.consumed
                       /\ l.job[l.row[h]].st # "running" /\ l.job[l.row[h]].ended}
               q == ConsumeResults(l, I)
    <3>1. m.row[i] = j => i \in C
      BY <1>2, <1>3, <1>5, <2>2, NilAssumption DEF HasRow, Settled
    <3>2. C \subseteq {i} /\ (i \in C => HasRow(m, i))
      BY <1>5 DEF HasRow
    <3>3. I \in SUBSET Id
      BY <1>2
    <3>4. e = q
      BY <2>2
    <3> HIDE DEF I, e
    <3>5. /\ q \in Manager /\ q.row = l.row /\ q.job = l.job /\ q.dlv = l.dlv
          /\ q.suppressed = l.suppressed /\ q.watched = l.watched
          /\ q.consumed = l.consumed \cup C /\ q.dead = l.dead /\ q.sink = l.sink
      BY <1>5, <3>3, ConsumeResultsFrame
    <3> HIDE DEF q, C
    <3> QED BY <1>5, <3>1, <3>2, <3>4, <3>5
  <2> QED BY <2>1, <2>2
<1> HIDE DEF e
<1>7. Quiet(e, j)
  BY <1>1, <1>2, <1>5, <1>6, Slots DEF Deliveries, Quiet
<1>8. \A k \in Job : k # j => SameJob(m, e, k) /\ IdOf[k] # i
  BY <1>2, <1>5, <1>6, Slots DEF SameJob, Single, Automatic
<1>9. Results(e, SeenJobs, read, session)
  <2>1. ASSUME NEW k \in Job, Owed(e, k) PROVE ~Quiet(e, k)
    <3>1. k # j
      BY <1>2, <1>6, <2>1 DEF Owed
    <3>2. Owed(m, k)
      BY <1>6, <2>1 DEF Owed, Settled, Suppressed
    <3> QED BY <1>8, <3>1, <3>2 DEF Results, NothingOwed, SameJob, Quiet
  <2>2. ASSUME NEW k \in read PROVE Spent(e, k)
    <3>1. k \in Job /\ Spent(m, k)
      BY DEF Results
    <3>2. CASE k = j
      BY <1>6, <1>7, <3>1, <3>2 DEF Spent, Quiet
    <3>3. CASE k # j
      BY <1>6, <1>8, <3>1, <3>3 DEF Spent, SameJob
    <3> QED BY <3>2, <3>3
  <2>3. ASSUME NEW x \in Delivery, Exposed(e, x)
        PROVE  x[1] \in SeenJobs \/ session = "disposing"
    <3>1. Exposed(m, x)
      BY <1>5, <1>6, <2>3 DEF Exposed
    <3> QED BY <3>1 DEF Results, Witnessed
  <2>4. ASSUME NEW k \in Job, Overwatched(e, k) PROVE FALSE
    <3>1. Overwatched(m, k)
      BY <1>6, <1>7, <1>8, <2>4 DEF Overwatched, SameJob, Quiet
    <3> QED BY <3>1 DEF Results, Witnessed
  <2>5. ASSUME NEW h \in e.consumed
        PROVE  e.row[h] \in SeenJobs \/ (session = "disposing" /\ Settled(e, e.row[h]))
    <3>1. CASE h \in m.consumed
      BY <1>6, <3>1 DEF Results, Witnessed, Settled
    <3>2. CASE h \notin m.consumed
      <4>1. h = i /\ HasRow(m, i)
        BY <1>6, <3>2
      <4>2. m.row[i] = j
        BY <1>2, <4>1 DEF Single, Automatic
      <4>3. Exposed(m, d)
        BY <1>1, <4>2 DEF Exposed
      <4> QED BY <1>3, <1>6, <4>1, <4>2, <4>3 DEF Results, Witnessed, Settled
    <3> QED BY <3>1, <3>2
  <2> QED BY <2>1, <2>2, <2>3, <2>4, <2>5 DEF Results, NothingOwed, Witnessed
<1>10. KeepsHeld(m, e)
  BY <1>6 DEF KeepsHeld, Held
<1>11. OwesNoMore(e, t) /\ KeepsSpent(e, t) /\ ExposesNoMore(e, t) /\ KeepsHeld(e, t)
  BY <1>6, <1>7, AttemptEndsKeeps DEF Quiet
<1> HIDE DEF t
<1> QED BY <1>1, <1>9, <1>10, <1>11, QuietStepsKeep, Compose, ManagesResults

\* A failed delivery is retried unless its id is suppressed or its row has gone.
LEMMA DeliveryFailedResults ==
  ASSUME RInv, NEW d \in Delivery, DeliveryFailed(d)
  PROVE  RState'
<1> USE RInvFacts
<1> DEFINE i == IdFor(d)
           j == d[1]
           retry == ~Suppressed(m, i) /\ HasRow(m, i)
           pc == IF retry THEN "retrying" ELSE "none"
           f == [m EXCEPT !.dlv[d] = pc]
           t == AttemptEnds(f, d)
<1>1. Manages(t) /\ m.dlv[d] = "err"
  BY DEF DeliveryFailed
<1>2. i = IdOf[j] /\ j \in Job /\ (d = <<j, 1>> \/ d = <<j, 2>>)
  BY Slots DEF IdFor
<1>3. /\ f \in Manager /\ f.row = m.row /\ f.job = m.job /\ f.consumed = m.consumed
      /\ f.suppressed = m.suppressed /\ f.watched = m.watched /\ f.dead = m.dead
      /\ f.sink = m.sink
      /\ f.dlv[d] = pc /\ \A x \in Delivery : x # d => f.dlv[x] = m.dlv[x]
  BY DEF Manager, Pc
<1>4. /\ pc = "retrying" => ~Suppressed(m, i) /\ HasRow(m, i)
      /\ pc = "none" => Suppressed(m, i) \/ m.row[i] # j
      /\ pc \in {"retrying", "none"}
  BY <1>2, NilAssumption DEF HasRow
<1> HIDE DEF pc, f
<1>5. OwesNoMore(m, f)
  <2> SUFFICES ASSUME NEW k \in Job, Owed(f, k), ~Quiet(m, k) PROVE ~Quiet(f, k)
    BY <1>3 DEF OwesNoMore, Owed, Settled, Suppressed
  <2> QED BY <1>2, <1>3, <1>4, Slots DEF Owed, Suppressed, Quiet
<1>6. KeepsSpent(m, f)
  <2> SUFFICES ASSUME NEW k \in Job, Spent(m, k) PROVE Spent(f, k)
    BY DEF KeepsSpent
  <2>1. CASE k # j
    BY <1>2, <1>3, <2>1, Slots DEF Spent
  <2>2. CASE k = j
    <3>1. HasRow(m, i) => m.row[i] = j
      BY <1>2, IdAssumption DEF Single, Automatic
    <3>2. pc = "retrying" => FALSE
      BY <1>2, <1>4, <2>2, <3>1 DEF Spent, Suppressed
    <3> QED BY <1>2, <1>3, <1>4, <2>2, <3>2, Slots DEF Spent
  <2> QED BY <2>1, <2>2
<1>7. ExposesNoMore(m, f)
  <2>1. \A x \in Delivery : Exposed(f, x) => Exposed(m, x)
    BY <1>1, <1>3, <1>4 DEF Exposed
  <2>2. \A k \in Job : Overwatched(f, k) => Overwatched(m, k)
    BY <1>1, <1>3, Slots DEF Overwatched, Quiet
  <2> QED BY <1>3, <2>1, <2>2 DEF ExposesNoMore, Settled
<1>8. KeepsHeld(m, f)
  BY <1>3 DEF KeepsHeld, Held
<1>9. OwesNoMore(f, t) /\ KeepsSpent(f, t) /\ ExposesNoMore(f, t) /\ KeepsHeld(f, t)
  <2>1. /\ f.dlv[<<j, 1>>] \notin {"formatting", "parked"}
        /\ f.dlv[<<j, 2>>] \notin {"formatting", "parked"}
    BY <1>1, <1>2, <1>3, <1>4, Slots DEF Deliveries
  <2> QED BY <1>3, <2>1, AttemptEndsKeeps
<1> HIDE DEF t
<1> QED BY <1>1, <1>5, <1>6, <1>7, <1>8, <1>9, Compose, ComposeExposes, QuietStep

LEMMA DeliveryStepResults ==
  ASSUME RInv, DeliveryStep
  PROVE  RState'
<1> USE RInvFacts
<1>1. ASSUME NEW d \in Delivery, Flush(d) PROVE RState'
  BY <1>1, MoveKeeps, QuietStep DEF Flush
<1>2. ASSUME NEW d \in Delivery, Reject(d) PROVE RState'
  BY <1>2, MoveKeeps, QuietStep DEF Reject
<1> QED BY <1>1, <1>2, DeliveryLoopResults, FormattedResults, CommitResults,
           DeliveredResults, DeliveryFailedResults DEF DeliveryStep

\* The timer of a suppressed job waits for a delivery that could still reach a message.
LEMMA TimerFiresResults ==
  ASSUME RInv, NEW i \in Id, TimerFires(i)
  PROVE  RState'
<1> USE RInvFacts
<1>1. CASE (InFlight(m, i) = {} \/ ~Suppressed(m, i)) /\ Manages(Evict(m, {i}))
  <2>1. ASSUME NEW j \in Job, IdOf[j] \in {i}
        PROVE  \/ IdOf[j] \notin m.suppressed
               \/ /\ m.dlv[<<j, 1>>] \notin {"formatting", "parked"}
                  /\ m.dlv[<<j, 2>>] \notin {"formatting", "parked"}
    BY <1>1, <2>1, Slots DEF InFlight, Flying, IdFor, Suppressed
  <2>2. KeepsSpent(m, Evict(m, {i}))
    BY <2>1, EvictKeepsSpent
  <2> QED BY <1>1, <2>2, EvictKeeps, QuietStep
<1>2. ASSUME NEW d \in InFlight(m, i), Manages([m EXCEPT !.timer[i] = "held", !.holder[i] = d])
      PROVE  RState'
  <2>1. SameMarks(m, [m EXCEPT !.timer[i] = "held", !.holder[i] = d])
    BY DEF Manager, SameMarks
  <2> QED BY <1>2, <2>1, SameMarksKeep, QuietStep
<1> QED BY <1>1, <1>2 DEF TimerFires

-----------------------------------------------------------------------------
(* Readers.                                                                *)

\* Consuming the ids of the jobs in J, whose ended results the reader returns: they are
\* spent, and every row newly consumed is one of them.
LEMMA ConsumeSeen ==
  ASSUME Single, NEW s, Sound(s), NEW inj, Deliveries(s, inj),
         NEW V, NEW rd \in SUBSET Job, NEW sess, Results(s, V, rd, sess),
         NEW J \in SUBSET Job, \A j \in J : Held(s, j),
         NEW R, {j \in J : s.job[j].ended /\ IdOf[j] \notin s.consumed} \subseteq R,
         R \subseteq {j \in J : s.job[j].ended}
  PROVE  /\ Results(Consume(s, Ids(J)), V \cup R, rd \cup R, sess)
         /\ KeepsHeld(s, Consume(s, Ids(J)))
         /\ Sound(Consume(s, Ids(J))) /\ Deliveries(Consume(s, Ids(J)), inj)
         /\ Consume(s, Ids(J)).sink = s.sink
         /\ Consume(s, Ids(J)).job = s.job
<1> DEFINE I == Ids(J)
           a == Acknowledge(s, I)
           C == {i \in I : HasRow(a, i) /\ i \notin a.consumed
                           /\ a.job[a.row[i]].st # "running" /\ a.job[a.row[i]].ended}
           t == Consume(s, I)
<1>1. I \in SUBSET Id /\ \A j \in J : IdOf[j] \in I
  BY IdAssumption DEF Ids
<1>2. \A i \in I : \E j \in J : i = IdOf[j]
  BY DEF Ids
<1> HIDE DEF I
<1>3. /\ a \in Manager /\ a.row = s.row /\ a.job = s.job
      /\ a.suppressed = s.suppressed \cup I /\ a.watched = s.watched
      /\ a.consumed = s.consumed /\ a.dead = s.dead /\ a.sink = s.sink
      /\ a.dlv = [d \in Delivery |->
           IF s.dlv[d] \in {"queued", "retrying"}
              /\ IdFor(d) \in s.suppressed \cup I \cup s.watched
           THEN "none" ELSE s.dlv[d]]
  BY <1>1, AcknowledgeFrame DEF Sound
<1>4. OwesNoMore(s, a) /\ KeepsSpent(s, a) /\ KeepsHeld(s, a)
  BY <1>1, AcknowledgeKeeps DEF Sound
<1>5. t = ConsumeResults(a, I)
  BY DEF Consume
<1> HIDE DEF a
<1>6. /\ t.row = s.row /\ t.job = s.job /\ t.dlv = a.dlv
      /\ t.suppressed = s.suppressed \cup I /\ t.watched = s.watched
      /\ t.consumed = s.consumed \cup C /\ t.sink = s.sink
  BY <1>1, <1>3, <1>5, ConsumeResultsFrame
<1>7. OwesNoMore(a, t) /\ KeepsSpent(a, t) /\ KeepsHeld(a, t)
  BY <1>1, <1>3, <1>5, ConsumeResultsKeep
<1>8. OwesNoMore(s, t) /\ KeepsSpent(s, t) /\ KeepsHeld(s, t)
  BY <1>4, <1>7, Compose
<1>9. Sound(t) /\ Deliveries(t, inj)
  BY <1>1, ConsumeSound, ConsumeTame, TameKeeps DEF Sound
<1>10. ASSUME NEW i \in I, HasRow(s, i), s.job[s.row[i]].ended
       PROVE  s.row[i] \in J /\ (i \notin s.consumed => s.row[i] \in R)
  <2>1. PICK j \in J : i = IdOf[j]
    BY <1>2
  <2>2. s.row[i] \in Job /\ IdOf[s.row[i]] = i
    BY <1>1, <1>10 DEF Deliveries, Sound, Manager, OptJob, HasRow
  <2>3. s.row[i] = j
    BY <2>1, <2>2 DEF Single, Automatic
  <2> QED BY <1>10, <2>1, <2>3
<1>11. C \subseteq I /\ \A i \in C : s.row[i] \in R
  BY <1>3, <1>10 DEF HasRow
<1> HIDE DEF C, t
<1>12. NothingOwed(t)
  BY <1>8 DEF Results, NothingOwed, OwesNoMore
<1>13. ASSUME NEW j \in rd \cup R PROVE Spent(t, j)
  <2>1. CASE j \in rd
    BY <1>8, <2>1 DEF Results, KeepsSpent
  <2>2. CASE j \in R
    <3>1. /\ j \in Job /\ s.job[j].ended /\ ~s.job[j].fore /\ IdOf[j] \in I
      BY <1>1, <2>2 DEF Held
    <3>2. /\ a.dlv[<<j, 1>>] \notin {"queued", "retrying"}
          /\ a.dlv[<<j, 2>>] \notin {"queued", "retrying"}
      BY <1>3, <3>1, Slots DEF IdFor
    <3> QED BY <1>6, <3>1, <3>2 DEF Spent
  <2> QED BY <2>1, <2>2
<1>14. ASSUME NEW d \in Delivery, Exposed(t, d) PROVE d[1] \in V \cup R \/ sess = "disposing"
  <2>1. s.dlv[d] # "none" /\ s.row[IdFor(d)] = d[1] /\ a.dlv[d] = t.dlv[d]
        /\ (t.dlv[d] = "none" \/ t.dlv[d] = s.dlv[d])
    BY <1>3, <1>6, <1>14 DEF Exposed
  <2>2. CASE IdFor(d) \notin I
    <3>1. Exposed(s, d)
      BY <1>6, <1>14, <2>1, <2>2 DEF Exposed
    <3> QED BY <3>1 DEF Results, Witnessed
  <2>3. CASE IdFor(d) \in I
    <3>1. d[1] \in Job /\ ~Quiet(s, d[1])
      BY <2>1, Slots DEF Quiet
    <3>2. HasRow(s, IdFor(d)) /\ s.job[s.row[IdFor(d)]].ended
      BY <2>1, <3>1, NilAssumption DEF Deliveries, HasRow
    <3>3. CASE IdFor(d) \in s.consumed
      BY <2>1, <3>3 DEF Results, Witnessed
    <3>4. CASE IdFor(d) \notin s.consumed
      BY <1>10, <2>1, <2>3, <3>2, <3>4
    <3> QED BY <3>3, <3>4
  <2> QED BY <2>2, <2>3
<1>15. ASSUME NEW j \in Job, Overwatched(t, j) PROVE FALSE
  <2>1. Overwatched(s, j)
    BY <1>3, <1>6, <1>15, Slots DEF Overwatched, Quiet
  <2> QED BY <2>1 DEF Results, Witnessed
<1>16. \A i \in t.consumed :
         t.row[i] \in V \cup R \/ (sess = "disposing" /\ Settled(t, t.row[i]))
  BY <1>6, <1>11 DEF Results, Witnessed, Settled
<1>17. Results(t, V \cup R, rd \cup R, sess)
  BY <1>12, <1>13, <1>14, <1>15, <1>16 DEF Results, Witnessed
<1> QED BY <1>6, <1>8, <1>9, <1>17 DEF t, I

\* What is left to show of a reader's step that returns the results in R.
LEMMA ReaderResults ==
  ASSUME RInv, NEW R \in SUBSET Job, Results(m', SeenJobs \cup R, read \cup R, session),
         read' = read \cup R, session' = session, injected' = injected,
         KeepsHeld(m, m'), \A w \in Waiter : \A j \in waiter'[w].jobs : Held(m', j)
  PROVE  RState'
<1>1. SeenJobs' = SeenJobs \cup R
  BY DEF SeenJobs
<1>2. Results(m, SeenJobs, read, session)'
  BY <1>1 DEF Results, NothingOwed, Witnessed, Owed, Spent, Exposed, Overwatched, Settled,
              Suppressed, Quiet
<1>3. m'.sink = (session' # "gone")
  BY DEF RInv, RState, KeepsHeld
<1>4. (\A w \in Waiter : \A j \in waiter[w].jobs : Held(m, j))'
  BY DEF Held
<1> QED BY <1>2, <1>3, <1>4 DEF RState

\* The readers hold nothing new.
LEMMA StillHeld ==
  ASSUME RInv, KeepsHeld(m, m'),
         \A w \in Waiter : waiter'[w].jobs \subseteq waiter[w].jobs
  PROVE  \A w \in Waiter : \A j \in waiter'[w].jobs : Held(m', j)
BY RInvFacts DEF RInv, RState, KeepsHeld

LEMMA LeavesHeld ==
  ASSUME RInv, NEW w \in Waiter, Leaves(w)
  PROVE  \A v \in Waiter : waiter'[v].jobs \subseteq waiter[v].jobs
BY DEF RInv, DInv, Inv, TypeOK, Leaves, NotWaiting

\* Watching jobs that run exposes nothing.
LEMMA WatchResults ==
  ASSUME Single, NEW s, Sound(s), NEW inj, Deliveries(s, inj),
         NEW V, NEW rd \in SUBSET Job, NEW sess, Results(s, V, rd, sess),
         NEW J \in SUBSET Job, \A j \in J : s.job[j].st = "running"
  PROVE  LET t == [s EXCEPT !.watched = @ \cup Ids(J)]
         IN  Results(t, V, rd, sess) /\ KeepsHeld(s, t)
<1> DEFINE t == [s EXCEPT !.watched = @ \cup Ids(J)]
<1>1. /\ t.row = s.row /\ t.job = s.job /\ t.dlv = s.dlv /\ t.suppressed = s.suppressed
      /\ t.watched = s.watched \cup Ids(J) /\ t.consumed = s.consumed /\ t.dead = s.dead
      /\ t.sink = s.sink
  BY DEF Sound, Manager
<1> HIDE DEF t
<1>2. OwesNoMore(s, t)
  BY <1>1 DEF OwesNoMore, Owed, Settled, Suppressed, Quiet
<1>3. KeepsSpent(s, t)
  BY <1>1 DEF KeepsSpent, Spent
<1>4. ExposesNoMore(s, t)
  <2>1. \A d \in Delivery : Exposed(t, d) => Exposed(s, d)
    BY <1>1 DEF Exposed
  <2>2. ASSUME NEW j \in Job, Overwatched(t, j) PROVE Overwatched(s, j)
    <3>1. j \notin J
      BY <1>1, <2>2 DEF Overwatched, Deliveries
    <3>2. IdOf[j] \notin Ids(J)
      BY <3>1 DEF Ids, Single, Automatic
    <3> QED BY <1>1, <2>2, <3>2 DEF Overwatched, Quiet
  <2> QED BY <1>1, <2>1, <2>2 DEF ExposesNoMore, Settled
<1>5. KeepsHeld(s, t)
  BY <1>1 DEF KeepsHeld, Held
<1> QED BY <1>2, <1>3, <1>4, <1>5, QuietStepsKeep DEF t

\* A reader returns the results in R and leaves, or stays as it is.
LEMMA ConsumedByReader ==
  ASSUME RInv, NEW R \in SUBSET Job, NEW t, m' = t,
         Results(t, SeenJobs \cup R, read \cup R, session), KeepsHeld(m, t),
         read' = read \cup R, session' = session, injected' = injected,
         waiter' = waiter \/ \E w \in Waiter : Leaves(w)
  PROVE  RState'
<1>1. \A v \in Waiter : waiter'[v].jobs \subseteq waiter[v].jobs
  BY LeavesHeld
<1> QED BY <1>1, StillHeld, ReaderResults

\* A reader returns no result.
LEMMA NothingRead ==
  ASSUME RInv, NEW t, m' = t, Results(t, SeenJobs, read, session), KeepsHeld(m, t),
         read' = read, session' = session, injected' = injected,
         \A w \in Waiter : \A j \in waiter'[w].jobs : Held(m', j)
  PROVE  RState'
<1> DEFINE R == {}
<1>1. R \in SUBSET Job /\ SeenJobs \cup R = SeenJobs /\ read \cup R = read
  OBVIOUS
<1> HIDE DEF R
<1> QED BY <1>1, ReaderResults

\* What consuming a reader's stopped jobs makes of the manager.
LEMMA ReaderConsumes ==
  ASSUME RInv, NEW J \in SUBSET Job, \A j \in J : Held(m, j),
         NEW R, {j \in J : m.job[j].ended /\ IdOf[j] \notin m.consumed} \subseteq R,
         R \subseteq {j \in J : m.job[j].ended}
  PROVE  LET t == Consume(m, Ids(J))
         IN  /\ Results(t, SeenJobs \cup R, read \cup R, session) /\ KeepsHeld(m, t)
             /\ Sound(t) /\ Deliveries(t, injected) /\ t.sink = (session # "gone")
<1> HIDE DEF Results
<1> QED BY RInvFacts, ConsumeSeen

LEMMA StartWaitResults ==
  ASSUME RInv, NEW w \in Waiter, StartWait(w)
  PROVE  RState'
<1> USE RInvFacts
<1>1. RunningVisible \in SUBSET Job /\ Undelivered \in SUBSET Job
  BY RowsAreJobs DEF RInv, DInv
<1>2. CASE Undelivered # {}
  <2> DEFINE R == {j \in Undelivered : m.job[j].ended}
             t == Consume(m, Ids(Undelivered))
  <2>1. /\ m' = t /\ read' = read \cup R /\ session' = session /\ injected' = injected
        /\ waiter' = waiter
    BY <1>2 DEF StartWait, Reads
  <2>2. \A j \in Undelivered : Held(m, j)
    BY DEF Held, Undelivered, Visible, Settled
  <2>3. R \in SUBSET Job
    BY <1>1
  <2>4. Results(t, SeenJobs \cup R, read \cup R, session) /\ KeepsHeld(m, t)
    BY <1>1, <2>2, ReaderConsumes
  <2> HIDE DEF R, t
  <2> QED BY <2>1, <2>3, <2>4, ConsumedByReader
<1>3. CASE Undelivered = {}
  <2> DEFINE J == RunningVisible
             t == [m EXCEPT !.watched = @ \cup Ids(J)]
  <2>1. m' = t /\ Captures(w, "wait", J)
        /\ read' = read /\ session' = session /\ injected' = injected
    BY <1>3 DEF StartWait
  <2>2. \A j \in J : m.job[j].st = "running" /\ Held(m, j)
    BY DEF RunningVisible, Visible, Held
  <2> HIDE DEF J
  <2>3. Results(t, SeenJobs, read, session) /\ KeepsHeld(m, t)
    BY <1>1, <2>2, WatchResults DEF J
  <2> HIDE DEF t
  <2>4. \A v \in Waiter : \A j \in waiter'[v].jobs : Held(m', j)
    <3> SUFFICES ASSUME NEW v \in Waiter, NEW j \in waiter'[v].jobs PROVE Held(m', j)
      OBVIOUS
    <3>1. j \in waiter[v].jobs \/ j \in J
      BY <2>1 DEF Captures, RInv, DInv, Inv, TypeOK
    <3>2. Held(m, j) /\ j \in Job
      BY <1>1, <2>2, <3>1 DEF RInv, RState, J
    <3> QED BY <2>1, <2>3, <3>2 DEF KeepsHeld
  <2> QED BY <2>1, <2>3, <2>4, NothingRead
<1> QED BY <1>2, <1>3

\* Under automatic ids the current row of a captured job's id is that job.
LEMMA EndWaitResults ==
  ASSUME RInv, NEW w \in Waiter, NEW now, EndWait(w, now)
  PROVE  RState'
<1> USE RInvFacts
<1> DEFINE J == waiter[w].jobs
           cur(j) == IF HasRow(m, IdOf[j]) THEN m.row[IdOf[j]] ELSE j
           stopped == {k \in {cur(j) : j \in J} : m.job[k].st # "running"}
           R == {k \in {h \in stopped : IdOf[h] \notin m.consumed} : m.job[k].ended}
           c == Consume(m, Ids(stopped))
           t == Unwatch(c, Ids(J), now)
<1>1. m' = t /\ read' = read \cup R /\ session' = session /\ injected' = injected /\ Leaves(w)
  BY DEF EndWait, Reads
<1>2. J \in SUBSET Job /\ \A j \in J : Held(m, j)
  BY DEF RInv, RState
<1>3. \A j \in J : cur(j) = j
  <2> SUFFICES ASSUME NEW j \in J, HasRow(m, IdOf[j]) PROVE m.row[IdOf[j]] = j
    OBVIOUS
  <2>1. IdOf[j] \in Id /\ m.row[IdOf[j]] \in Job /\ IdOf[m.row[IdOf[j]]] = IdOf[j]
    BY <1>2, IdAssumption
  <2> QED BY <1>2, <2>1 DEF Single, Automatic
<1>4. stopped \in SUBSET Job /\ \A j \in stopped : Held(m, j)
  BY <1>2, <1>3
<1>5. R \in SUBSET Job /\ {j \in stopped : m.job[j].ended /\ IdOf[j] \notin m.consumed} \subseteq R
      /\ R \subseteq {j \in stopped : m.job[j].ended}
  BY <1>4
<1>6. Ids(J) \in SUBSET Id
  BY <1>2, IdAssumption DEF Ids
<1> HIDE DEF stopped, R
<1>7. /\ Results(c, SeenJobs \cup R, read \cup R, session) /\ KeepsHeld(m, c)
      /\ Sound(c) /\ Deliveries(c, injected) /\ c.sink = (session # "gone")
  BY <1>4, <1>5, ReaderConsumes
<1> HIDE DEF c, J
<1>8. read \cup R \in SUBSET Job
  BY <1>5
<1>9. Results(t, SeenJobs \cup R, read \cup R, session) /\ KeepsHeld(c, t)
  BY <1>6, <1>7, <1>8, UnwatchResults
<1>10. KeepsHeld(m, t)
  BY <1>7, <1>9, Compose
<1> HIDE DEF t
<1> QED BY <1>1, <1>5, <1>9, <1>10, ConsumedByReader

\* What unwatching a reader's jobs makes of the manager.
LEMMA ReaderUnwatches ==
  ASSUME RInv, NEW J \in SUBSET Job, NEW now
  PROVE  LET t == Unwatch(m, Ids(J), now)
         IN  /\ Results(t, SeenJobs, read, session) /\ KeepsHeld(m, t)
             /\ Sound(t) /\ Deliveries(t, injected) /\ t.job = m.job
<1> USE RInvFacts
<1>1. Ids(J) \in SUBSET Id
  BY IdAssumption DEF Ids
<1>2. Sound(Unwatch(m, Ids(J), now)) /\ Unwatch(m, Ids(J), now).job = m.job
  BY <1>1, UnwatchSound, UnwatchSame DEF SameCore
<1> QED BY <1>1, <1>2, UnwatchResults, UnwatchKeeps

LEMMA InterruptWaitResults ==
  ASSUME RInv, NEW w \in Waiter, NEW now, InterruptWait(w, now)
  PROVE  RState'
<1> USE RInvFacts
<1> DEFINE t == Unwatch(m, Ids(waiter[w].jobs), now)
<1>1. m' = t /\ read' = read /\ session' = session /\ injected' = injected /\ Leaves(w)
  BY DEF InterruptWait
<1>2. Results(t, SeenJobs, read, session) /\ KeepsHeld(m, t)
  BY ReaderUnwatches
<1> HIDE DEF t
<1>3. \A v \in Waiter : \A j \in waiter'[v].jobs : Held(m', j)
  BY <1>1, <1>2, StillHeld, LeavesHeld
<1> QED BY <1>1, <1>2, <1>3, NothingRead

\* Watching one running job of an automatic id.
LEMMA StartHoldResults ==
  ASSUME RInv, NEW w \in Waiter, NEW kind, NEW j \in Job, StartHold(w, kind, j)
  PROVE  RState'
<1> USE RInvFacts
<1> DEFINE J == {j}
           t == [m EXCEPT !.watched = @ \cup Ids(J)]
<1>1. /\ m' = [m EXCEPT !.watched = @ \cup {IdOf[j]}] /\ Captures(w, kind, J)
      /\ read' = read /\ session' = session /\ injected' = injected
  BY DEF StartHold
<1>2. Ids(J) = {IdOf[j]}
  BY DEF Ids
<1>3. m' = t
  BY <1>1, <1>2
<1>4. J \in SUBSET Job /\ \A k \in J : m.job[k].st = "running" /\ Held(m, k)
  BY DEF StartHold, RunningVisible, Visible, Held
<1> HIDE DEF J
<1>5. Results(t, SeenJobs, read, session) /\ KeepsHeld(m, t)
  BY <1>4, WatchResults
<1> HIDE DEF t
<1>6. \A v \in Waiter : \A k \in waiter'[v].jobs : Held(m', k)
  <2> SUFFICES ASSUME NEW v \in Waiter, NEW k \in waiter'[v].jobs PROVE Held(m', k)
    OBVIOUS
  <2>1. k \in waiter[v].jobs \/ k \in J
    BY <1>1 DEF Captures, RInv, DInv, Inv, TypeOK
  <2>2. Held(m, k) /\ k \in Job
    BY <1>4, <2>1 DEF RInv, RState
  <2> QED BY <1>3, <1>5, <2>2 DEF KeepsHeld
<1> QED BY <1>1, <1>3, <1>5, <1>6, NothingRead

\* After unwatching, the rows a reader's ids name are the jobs it holds.
LEMMA UnwatchThenConsume ==
  ASSUME RInv, NEW J \in SUBSET Job, \A j \in J : Held(m, j), NEW now,
         NEW K \in SUBSET J
  PROVE  LET t == Consume(Unwatch(m, Ids(J), now), Ids(K))
             R == {j \in K : m.job[j].ended}
         IN  Results(t, SeenJobs \cup R, read \cup R, session) /\ KeepsHeld(m, t)
<1> USE RInvFacts
<1> DEFINE u == Unwatch(m, Ids(J), now)
           t == Consume(u, Ids(K))
           R == {j \in K : m.job[j].ended}
<1>1. /\ Results(u, SeenJobs, read, session) /\ KeepsHeld(m, u)
      /\ Sound(u) /\ Deliveries(u, injected) /\ u.job = m.job
  BY ReaderUnwatches
<1> HIDE DEF u
<1>2. K \in SUBSET Job /\ \A j \in K : Held(u, j)
  BY <1>1 DEF KeepsHeld
<1>3. /\ {j \in K : u.job[j].ended /\ IdOf[j] \notin u.consumed} \subseteq R
      /\ R \subseteq {j \in K : u.job[j].ended}
  BY <1>1
<1> HIDE DEF R
<1>4. Results(t, SeenJobs \cup R, read \cup R, session) /\ KeepsHeld(u, t)
  BY <1>1, <1>2, <1>3, ConsumeSeen
<1>5. KeepsHeld(m, t)
  BY <1>1, <1>4, Compose
<1> QED BY <1>4, <1>5 DEF u, R

LEMMA EndVibeResults ==
  ASSUME RInv, NEW w \in Waiter, NEW now, EndVibe(w, now)
  PROVE  RState'
<1> USE RInvFacts
<1> DEFINE J == waiter[w].jobs
           u == Unwatch(m, Ids(J), now)
           K == {j \in Rows(u) : IdOf[j] \in Ids(J) /\ u.job[j].st # "running"}
           R == {j \in K : m.job[j].ended}
           t == Consume(u, Ids(K))
<1>1. m' = t /\ read' = read \cup R /\ session' = session /\ injected' = injected /\ Leaves(w)
  BY DEF EndVibe, Reads
<1>2. J \in SUBSET Job /\ \A j \in J : Held(m, j)
  BY DEF RInv, RState
<1>3. Rows(u) \subseteq Job
  BY <1>2, ReaderUnwatches DEF Sound, Manager, Rows, OptJob
<1> HIDE DEF u
<1>4. K \in SUBSET J
  BY <1>2, <1>3 DEF Ids, Single, Automatic
<1>5. R \in SUBSET Job
  BY <1>2, <1>4
<1> HIDE DEF K, J
<1>6. Results(t, SeenJobs \cup R, read \cup R, session) /\ KeepsHeld(m, t)
  BY <1>2, <1>4, UnwatchThenConsume DEF u
<1> HIDE DEF t, R
<1> QED BY <1>1, <1>5, <1>6, ConsumedByReader

LEMMA EndSidekickResults ==
  ASSUME RInv, NEW w \in Waiter, NEW now, EndSidekick(w, now)
  PROVE  RState'
<1> USE RInvFacts
<1> DEFINE J == waiter[w].jobs
           u == Unwatch(m, Ids(J), now)
           K == {j \in J : m.job[j].st # "running"}
           R == {j \in K : m.job[j].ended}
           t == Consume(u, Ids(K))
<1>1. m' = t /\ read' = read \cup R /\ session' = session /\ injected' = injected /\ Leaves(w)
  BY DEF EndSidekick, Reads
<1>2. J \in SUBSET Job /\ \A j \in J : Held(m, j)
  BY DEF RInv, RState
<1>3. K \in SUBSET J /\ R \in SUBSET Job
  BY <1>2
<1> HIDE DEF K, J
<1>4. Results(t, SeenJobs \cup R, read \cup R, session) /\ KeepsHeld(m, t)
  BY <1>2, <1>3, UnwatchThenConsume
<1> HIDE DEF t, R
<1> QED BY <1>1, <1>3, <1>4, ConsumedByReader

LEMMA CellResults ==
  ASSUME RInv, NEW w \in Waiter
  PROVE  /\ \A J \in SUBSET Job : StartCell(w, J) => RState'
         /\ EndCell(w) => RState'
         /\ AbortCell(w) => RState'
<1> USE RInvFacts
<1>0. SeenJobs \cup {} = SeenJobs /\ read \cup {} = read
  OBVIOUS
<1>1. ASSUME NEW J \in SUBSET Job, StartCell(w, J) PROVE RState'
  <2>1. m' = m /\ Captures(w, "cell", J)
        /\ read' = read /\ session' = session /\ injected' = injected
    BY <1>1 DEF StartCell
  <2>2. \A j \in J : Held(m, j)
    <3> SUFFICES ASSUME NEW j \in J PROVE Held(m, j)
      OBVIOUS
    <3>1. PICK i \in Id : m.row[i] = j /\ HasRow(m, i)
      BY <1>1 DEF StartCell, Rows, HasRow
    <3> QED BY <1>1, <3>1 DEF StartCell, Held, Sound, Core
  <2>3. \A v \in Waiter : \A j \in waiter'[v].jobs : Held(m', j)
    <3> SUFFICES ASSUME NEW v \in Waiter, NEW j \in waiter'[v].jobs PROVE Held(m', j)
      OBVIOUS
    <3>1. j \in waiter[v].jobs \/ j \in J
      BY <2>1 DEF Captures, RInv, DInv, Inv, TypeOK
    <3> QED BY <2>1, <2>2, <3>1 DEF RInv, RState
  <2> QED BY <2>1, <2>3, NothingRead DEF KeepsHeld
<1>2. ASSUME EndCell(w) PROVE RState'
  <2> DEFINE K == {j \in waiter[w].jobs : m.job[j].st # "running"}
             R == {j \in K : m.job[j].ended}
             t == IF K = {} THEN m ELSE Consume(m, Ids(K))
  <2>1. m' = t /\ read' = read \cup R /\ session' = session /\ injected' = injected /\ Leaves(w)
    BY <1>2 DEF EndCell, Reads
  <2>2. K \in SUBSET Job /\ \A j \in K : Held(m, j)
    BY DEF RInv, RState
  <2>3. R \in SUBSET Job
    BY <2>2
  <2>4. Results(t, SeenJobs \cup R, read \cup R, session) /\ KeepsHeld(m, t)
    <3>1. CASE K = {}
      <4>1. R = {} /\ t = m
        BY <3>1
      <4> HIDE DEF R, t
      <4> QED BY <1>0, <4>1 DEF KeepsHeld
    <3>2. CASE K # {}
      <4>1. t = Consume(m, Ids(K))
        BY <3>2
      <4> HIDE DEF K, t
      <4> QED BY <2>2, <4>1, ReaderConsumes
    <3> QED BY <3>1, <3>2
  <2> HIDE DEF t, R
  <2> QED BY <2>1, <2>3, <2>4, ConsumedByReader
<1>3. ASSUME AbortCell(w) PROVE RState'
  <2> DEFINE t == CancelJobs(m, {j \in Rows(m) : IdOf[j] \in Ids(waiter[w].jobs)})
  <2>1. m' = t /\ read' = read /\ session' = session /\ injected' = injected /\ Leaves(w)
    BY <1>3 DEF AbortCell
  <2>2. OwesNoMore(m, t) /\ KeepsSpent(m, t) /\ ExposesNoMore(m, t) /\ KeepsHeld(m, t)
    BY CancelKeeps
  <2> HIDE DEF t
  <2>3. Results(t, SeenJobs, read, session)
    BY <2>2, QuietStepsKeep
  <2>4. \A v \in Waiter : \A j \in waiter'[v].jobs : Held(m', j)
    BY <2>1, <2>2, StillHeld, LeavesHeld
  <2> QED BY <2>1, <2>2, <2>3, <2>4, NothingRead
<1> QED BY <1>1, <1>2, <1>3

LEMMA StartPoolResults ==
  ASSUME RInv, NEW w \in Waiter, NEW j \in Job, StartPool(w, j)
  PROVE  RState'
<1> USE RInvFacts
<1> DEFINE J == {j}
           r == Registered(m, j, FALSE)
           t == [r EXCEPT !.watched = @ \cup Ids(J)]
<1>1. /\ m' = [r EXCEPT !.watched = @ \cup {IdOf[j]}] /\ Captures(w, "pool", J)
      /\ read' = read /\ session' = session /\ injected' = injected
      /\ CanRegister(j)
  BY DEF StartPool
<1>2. Ids(J) = {IdOf[j]}
  BY DEF Ids
<1>3. /\ Results(r, SeenJobs, read, session) /\ KeepsHeld(m, r)
      /\ r.job[j].st = "running" /\ r.job[j].fore = FALSE
      /\ Deliveries(r, injected) /\ Sound(r)
  BY <1>1, RegisteredResults
<1> HIDE DEF r
<1>4. m' = t
  BY <1>1, <1>2
<1>5. J \in SUBSET Job /\ \A k \in J : r.job[k].st = "running" /\ Held(r, k)
  BY <1>3 DEF Held
<1> HIDE DEF J
<1>6. Results(t, SeenJobs, read, session) /\ KeepsHeld(r, t)
  BY <1>3, <1>5, WatchResults
<1> HIDE DEF t
<1>7. \A v \in Waiter : \A k \in waiter'[v].jobs : Held(m', k)
  <2> SUFFICES ASSUME NEW v \in Waiter, NEW k \in waiter'[v].jobs PROVE Held(m', k)
    OBVIOUS
  <2>1. k \in waiter[v].jobs \/ k \in J
    BY <1>1 DEF Captures, RInv, DInv, Inv, TypeOK
  <2>2. Held(r, k) /\ k \in Job
    BY <1>3, <1>5, <2>1 DEF RInv, RState, KeepsHeld
  <2> QED BY <1>4, <1>6, <2>2 DEF KeepsHeld
<1>8. KeepsHeld(m, t)
  BY <1>3, <1>6, Compose
<1> QED BY <1>1, <1>4, <1>6, <1>7, <1>8, NothingRead

LEMMA EndPoolResults ==
  ASSUME RInv, NEW w \in Waiter, NEW now, EndPool(w, now)
  PROVE  RState'
<1> USE RInvFacts
<1> DEFINE J == waiter[w].jobs
           R == {j \in J : m.job[j].ended}
           c == Consume(m, Ids(J))
           t == Unwatch(c, Ids(J), now)
<1>1. m' = t /\ read' = read \cup R /\ session' = session /\ injected' = injected /\ Leaves(w)
  BY DEF EndPool, Reads
<1>2. J \in SUBSET Job /\ \A j \in J : Held(m, j)
  BY DEF RInv, RState
<1>3. Ids(J) \in SUBSET Id /\ R \in SUBSET Job
  BY <1>2, IdAssumption DEF Ids
<1>4. /\ Results(c, SeenJobs \cup R, read \cup R, session) /\ KeepsHeld(m, c)
      /\ Sound(c) /\ Deliveries(c, injected) /\ c.sink = (session # "gone")
  BY <1>2, ReaderConsumes
<1> HIDE DEF c, J, R
<1>5. read \cup R \in SUBSET Job
  BY <1>3
<1>6. Results(t, SeenJobs \cup R, read \cup R, session) /\ KeepsHeld(c, t)
  BY <1>3, <1>4, <1>5, UnwatchResults
<1>7. KeepsHeld(m, t)
  BY <1>4, <1>6, Compose
<1> HIDE DEF t
<1> QED BY <1>1, <1>3, <1>6, <1>7, ConsumedByReader

LEMMA WaiterStepResults ==
  ASSUME RInv, WaiterStep
  PROVE  RState'
BY StartWaitResults, EndWaitResults, InterruptWaitResults, StartHoldResults, EndVibeResults,
   EndSidekickResults, CellResults, StartPoolResults, EndPoolResults DEF WaiterStep

-----------------------------------------------------------------------------
(* The session.                                                            *)

\* #cancelOwnAsyncJobs leaves no row of a settled job and no delivery that could still get
\* into a message.
LEMMA CancelOwnFrame ==
  ASSUME NEW s, Sound(s)
  PROVE  LET c == CancelJobs(s, Rows(s))
             I == {i \in Id : HasRow(c, i) /\ Settled(c, c.row[i])}
             t == CancelOwn(s)
         IN  /\ t.row = [i \in Id |-> IF i \in I THEN NoJob ELSE c.row[i]]
             /\ t.job = c.job /\ t.sink = s.sink
             /\ t.suppressed = c.suppressed \ I /\ t.watched = c.watched \ I
             /\ t.consumed = c.consumed \ I
             /\ \A d \in Delivery :
                  /\ t.dlv[d] \in {"none", c.dlv[d], "outdated", "err"}
                  /\ t.dlv[d] \notin {"formatting", "parked"}
                  /\ t.dlv[d] # "none" => c.dlv[d] # "none"
<1> DEFINE c == CancelJobs(s, Rows(s))
           I == {i \in Id : HasRow(c, i) /\ Settled(c, c.row[i])}
           a == Acknowledge(c, I)
           e == Evict(a, I)
           t == Superseded(e)
<1>1. c \in Manager /\ c.sink = s.sink
  BY CancelSound, CancelKeeps DEF Sound, KeepsHeld
<1>2. I \in SUBSET Id
  OBVIOUS
<1>3. CancelOwn(s) = t
  BY DEF CancelOwn, EvictCompleted
<1> HIDE DEF c, I
<1>4. /\ a \in Manager /\ a.row = c.row /\ a.job = c.job
      /\ a.suppressed = c.suppressed \cup I /\ a.watched = c.watched
      /\ a.consumed = c.consumed /\ a.sink = c.sink
      /\ a.dlv = [d \in Delivery |->
           IF c.dlv[d] \in {"queued", "retrying"}
              /\ IdFor(d) \in c.suppressed \cup I \cup c.watched
           THEN "none" ELSE c.dlv[d]]
  BY <1>1, <1>2, AcknowledgeFrame
<1> HIDE DEF a
<1>5. /\ e.row = [i \in Id |-> IF i \in I THEN NoJob ELSE a.row[i]]
      /\ e.job = a.job /\ e.dlv = a.dlv
      /\ e.suppressed = a.suppressed \ I /\ e.watched = a.watched \ I
      /\ e.consumed = a.consumed \ I /\ e.sink = a.sink
  BY <1>4, EvictFrame
<1>6. e \in Manager
  BY <1>2, <1>4, NilAssumption DEF Evict, Schedule, Manager, OptJob, Timer
<1> HIDE DEF e
<1>7. /\ t.row = e.row /\ t.job = e.job /\ t.consumed = e.consumed /\ t.sink = e.sink
      /\ t.suppressed = e.suppressed /\ t.watched = e.watched
      /\ t.dlv = [d \in Delivery |-> CASE e.dlv[d] = "formatting" -> "outdated"
                                       [] e.dlv[d] = "parked" -> "err"
                                       [] OTHER -> e.dlv[d]]
  BY <1>6 DEF Superseded, Manager
<1> HIDE DEF t
<1>8. ASSUME NEW d \in Delivery
      PROVE  /\ t.dlv[d] \in {"none", c.dlv[d], "outdated", "err"}
             /\ t.dlv[d] \notin {"formatting", "parked"}
             /\ t.dlv[d] # "none" => c.dlv[d] # "none"
  BY <1>4, <1>5, <1>7
<1> QED BY <1>1, <1>3, <1>4, <1>5, <1>7, <1>8 DEF c, I

LEMMA CancelOwnResults ==
  ASSUME Single, NEW s, Sound(s), NEW inj, Deliveries(s, inj),
         NEW V, NEW rd \in SUBSET Job, NEW sess, Results(s, V, rd, sess), NEW next
  PROVE  Results(CancelOwn(s), V, rd, next) /\ KeepsHeld(s, CancelOwn(s))
<1> DEFINE c == CancelJobs(s, Rows(s))
           I == {i \in Id : HasRow(c, i) /\ Settled(c, c.row[i])}
           t == CancelOwn(s)
<1>1. Sound(c) /\ Deliveries(c, inj)
  BY CancelSound, CancelTame, TameKeeps DEF Sound
<1>2. KeepsSpent(s, c) /\ ExposesNoMore(s, c) /\ KeepsHeld(s, c)
  BY CancelKeeps
<1>3. /\ t.row = [i \in Id |-> IF i \in I THEN NoJob ELSE c.row[i]]
      /\ t.job = c.job /\ t.sink = s.sink
      /\ t.suppressed = c.suppressed \ I /\ t.watched = c.watched \ I
      /\ t.consumed = c.consumed \ I
      /\ \A d \in Delivery :
           /\ t.dlv[d] \in {"none", c.dlv[d], "outdated", "err"}
           /\ t.dlv[d] \notin {"formatting", "parked"}
           /\ t.dlv[d] # "none" => c.dlv[d] # "none"
  BY CancelOwnFrame
<1> HIDE DEF t, c
<1>4. ASSUME NEW j \in Job, t.row[IdOf[j]] = j PROVE ~Settled(c, j) /\ Quiet(t, j)
  <2>1. IdOf[j] \in Id /\ IdOf[j] \notin I /\ c.row[IdOf[j]] = j
    BY <1>3, <1>4, IdAssumption, NilAssumption
  <2>2. ~Settled(c, j)
    BY <2>1, NilAssumption DEF HasRow
  <2>3. Quiet(c, j)
    BY <1>1, <2>2 DEF Deliveries
  <2> QED BY <1>3, <2>2, <2>3, Slots DEF Quiet
<1>5. NothingOwed(t)
  BY <1>3, <1>4 DEF NothingOwed, Owed, Settled
<1>6. ASSUME NEW j \in rd PROVE Spent(t, j)
  <2>1. j \in Job /\ Spent(c, j)
    BY <1>2 DEF Results, KeepsSpent
  <2>2. /\ t.dlv[<<j, 1>>] \notin {"queued", "retrying", "formatting", "parked"}
        /\ t.dlv[<<j, 2>>] \notin {"queued", "retrying", "formatting", "parked"}
    BY <1>3, <2>1, Slots DEF Spent
  <2>3. IdOf[j] \in Id /\ j # NoJob
    BY <2>1, IdAssumption, NilAssumption
  <2>4. CASE IdOf[j] \in I
    BY <1>3, <2>1, <2>2, <2>3, <2>4 DEF Spent
  <2>5. CASE IdOf[j] \notin I
    BY <1>3, <2>1, <2>2, <2>3, <2>5 DEF Spent
  <2> QED BY <2>4, <2>5
<1>7. ASSUME NEW d \in Delivery PROVE ~Exposed(t, d)
  BY <1>4, Slots DEF Exposed, IdFor, Quiet
<1>8. ASSUME NEW j \in Job PROVE ~Overwatched(t, j)
  BY <1>4 DEF Overwatched
<1>9. ASSUME NEW i \in t.consumed PROVE t.row[i] \in V
  <2>1. i \in c.consumed /\ i \notin I
    BY <1>3
  <2>2. i \in Id /\ HasRow(c, i)
    BY <1>1, <2>1 DEF Sound, Core, Manager
  <2>3. t.row[i] = c.row[i] /\ ~Settled(c, c.row[i])
    BY <1>3, <2>1, <2>2
  <2>4. i \in s.consumed /\ c.row[i] = s.row[i] /\ ~Settled(s, s.row[i])
    BY <1>2, <2>1, <2>3 DEF ExposesNoMore
  <2> QED BY <2>3, <2>4 DEF Results, Witnessed
<1>10. KeepsHeld(s, t)
  BY <1>2, <1>3 DEF KeepsHeld, Held
<1> QED BY <1>5, <1>6, <1>7, <1>8, <1>9, <1>10 DEF Results, Witnessed, t

\* What is left to show of a session step.
LEMMA SessionResults ==
  ASSUME RInv, Results(m', SeenJobs, read, session'), m'.sink = (session' # "gone"),
         \A j \in Job : Held(m, j) => Held(m', j), UNCHANGED <<injected, read>>,
         waiter' = waiter \/ waiter' = Aborted
  PROVE  RState'
<1>1. SeenJobs' = SeenJobs
  BY DEF SeenJobs
<1>2. Results(m, SeenJobs, read, session)'
  BY <1>1 DEF Results, NothingOwed, Witnessed, Owed, Spent, Exposed, Overwatched, Settled,
              Suppressed, Quiet
<1>3. \A w \in Waiter : waiter'[w].jobs \subseteq waiter[w].jobs
  BY DEF RInv, DInv, Inv, TypeOK, Aborted, NotWaiting
<1>4. \A w \in Waiter : \A j \in waiter'[w].jobs : Held(m', j)
  BY <1>3, RInvFacts DEF RInv, RState
<1>5. (\A w \in Waiter : \A j \in waiter[w].jobs : Held(m, j))'
  BY <1>4 DEF Held
<1> QED BY <1>2, <1>5 DEF RState

LEMMA SessionStepResults ==
  ASSUME RInv, SessionStep
  PROVE  RState'
<1> USE RInvFacts
<1>0. ASSUME NEW on \in BOOLEAN, NEW s, s = [m EXCEPT !.sink = on]
      PROVE  Sound(s) /\ Deliveries(s, injected) /\ s.sink = on
             /\ Results(s, SeenJobs, read, session) /\ \A j \in Job : Held(m, j) => Held(s, j)
  <2>1. /\ s.row = m.row /\ s.job = m.job /\ s.dlv = m.dlv /\ s.suppressed = m.suppressed
        /\ s.watched = m.watched /\ s.consumed = m.consumed /\ s.dead = m.dead /\ s.sink = on
    BY <1>0 DEF Manager
  <2>2. Sound(s)
    BY <1>0, SinkSame
  <2>3. Tame(m, s)
    BY <2>1 DEF Tame
  <2>4. OwesNoMore(m, s) /\ KeepsSpent(m, s) /\ ExposesNoMore(m, s)
    BY <2>1 DEF OwesNoMore, KeepsSpent, ExposesNoMore, Owed, Spent, Exposed, Overwatched, Quiet,
                Settled, Suppressed
  <2> QED BY <2>1, <2>2, <2>3, <2>4, TameKeeps, QuietStepsKeep DEF Held
<1>1. CASE NewSession
  <2> DEFINE t == CancelOwn(m)
  <2>1. m' = t /\ session' = session /\ UNCHANGED <<injected, read>> /\ waiter' = Aborted
    BY <1>1 DEF NewSession
  <2>2. Results(t, SeenJobs, read, session) /\ KeepsHeld(m, t)
    BY CancelOwnResults
  <2> HIDE DEF t
  <2> QED BY <2>1, <2>2, SessionResults DEF KeepsHeld
<1>2. CASE BeginDispose
  <2> DEFINE t == Superseded(m)
  <2>1. /\ m' = t /\ session = "open" /\ session' = "disposing"
        /\ UNCHANGED <<waiter, injected, read>>
    BY <1>2 DEF BeginDispose
  <2>2. OwesNoMore(m, t) /\ KeepsSpent(m, t) /\ KeepsHeld(m, t)
    BY SupersededKeeps
  <2>3. /\ t.row = m.row /\ t.job = m.job /\ t.consumed = m.consumed
        /\ t.watched = m.watched
        /\ \A d \in Delivery : t.dlv[d] # "none" => m.dlv[d] # "none"
    BY DEF Superseded, Manager
  <2> HIDE DEF t
  <2>4. NothingOwed(t) /\ \A j \in read : Spent(t, j)
    BY <2>2 DEF Results, NothingOwed, OwesNoMore, KeepsSpent
  <2>5. \A j \in Job : ~Overwatched(t, j)
    BY <2>3, Slots DEF Results, Witnessed, Overwatched, Quiet
  <2>6. \A i \in t.consumed : t.row[i] \in SeenJobs
    BY <2>1, <2>3 DEF Results, Witnessed
  <2>7. Results(t, SeenJobs, read, "disposing")
    BY <2>4, <2>5, <2>6 DEF Results, Witnessed
  <2> QED BY <2>1, <2>2, <2>7, SessionResults DEF KeepsHeld
<1>3. CASE FinishDispose
  <2> DEFINE s == [m EXCEPT !.sink = FALSE]
             t == CancelOwn(s)
  <2>1. m' = t /\ session' = "gone" /\ UNCHANGED <<injected, read>> /\ waiter' = Aborted
    BY <1>3 DEF FinishDispose
  <2>2. /\ Sound(s) /\ Deliveries(s, injected) /\ s.sink = FALSE
        /\ Results(s, SeenJobs, read, session) /\ \A j \in Job : Held(m, j) => Held(s, j)
    BY <1>0
  <2> HIDE DEF s
  <2>3. Results(t, SeenJobs, read, "gone") /\ KeepsHeld(s, t)
    BY <2>2, CancelOwnResults
  <2> HIDE DEF t
  <2> QED BY <2>1, <2>2, <2>3, SessionResults DEF KeepsHeld
<1>4. CASE Reopen
  <2> DEFINE s == [m EXCEPT !.sink = TRUE]
  <2>1. /\ m' = s /\ session = "gone" /\ session' = "open"
        /\ UNCHANGED <<waiter, injected, read>>
    BY <1>4 DEF Reopen
  <2>2. /\ s.sink = TRUE
        /\ Results(s, SeenJobs, read, session) /\ \A j \in Job : Held(m, j) => Held(s, j)
    BY <1>0
  <2> HIDE DEF s
  <2>3. Results(s, SeenJobs, read, "open")
    BY <2>1, <2>2 DEF Results, Witnessed
  <2> QED BY <2>1, <2>2, <2>3, SessionResults
<1> QED BY <1>1, <1>2, <1>3, <1>4 DEF SessionStep

-----------------------------------------------------------------------------

LEMMA ResultsInit ==
  ASSUME Init
  PROVE  RState
<1>1. \A j \in Job : ~Owed(m, j) /\ ~Overwatched(m, j)
  BY IdAssumption, NilAssumption DEF Init, Owed, Overwatched
<1>2. \A d \in Delivery : ~Exposed(m, d)
  BY DEF Init, Exposed
<1>3. Results(m, SeenJobs, read, session)
  BY <1>1, <1>2 DEF Init, Results, NothingOwed, Witnessed
<1> QED BY <1>3 DEF Init, RState, NotWaiting

LEMMA ResultsNext ==
  ASSUME RInv, [Next]_vars
  PROVE  RState'
<1>1. CASE UNCHANGED vars
  <2>1. /\ m' = m /\ session' = session /\ waiter' = waiter /\ injected' = injected /\ read' = read
    BY <1>1 DEF vars
  <2> QED BY <2>1 DEF RInv, RState, SeenJobs, Results, NothingOwed, Witnessed, Owed, Spent,
                      Exposed, Overwatched, Held, Settled, Suppressed, Quiet
<1> QED BY <1>1, JobStepResults, DeliveryStepResults, TimerFiresResults, WaiterStepResults,
           SessionStepResults DEF Next

\* A step that puts no delivery into a message.
Unpicked(s, t) == \A d \in Delivery : t.dlv[d] = "picked" => s.dlv[d] = "picked"

LEMMA UnpickedTwice ==
  ASSUME NEW s, NEW t, NEW u, Unpicked(s, t), Unpicked(t, u)
  PROVE  Unpicked(s, u)
BY DEF Unpicked

\* The methods that move deliveries, or leave them alone.
LEMMA MethodsUnpick ==
  ASSUME NEW s, s \in Manager
  PROVE  /\ \A I \in SUBSET Id : Unpicked(s, Acknowledge(s, I)) /\ Unpicked(s, ConsumeResults(s, I))
         /\ \A I : \A delay \in Timer : Unpicked(s, Schedule(s, I, delay))
         /\ \A I : Unpicked(s, Evict(s, I))
         /\ \A i \in Id : Unpicked(s, Discard(s, i)) /\ Unpicked(s, ReleaseForeground(s, i))
         /\ \A D : Unpicked(s, Attempt(s, D))
         /\ \A J, now : Unpicked(s, Enqueue(s, J, now))
         /\ \A J : Unpicked(s, CancelJobs(s, J))
         /\ \A d : Unpicked(s, AttemptEnds(s, d))
<1>1. ASSUME NEW I \in SUBSET Id
      PROVE  Unpicked(s, Acknowledge(s, I)) /\ Unpicked(s, ConsumeResults(s, I))
  <2> DEFINE a == Acknowledge(s, I)
             c == ConsumeResults(s, I)
  <2>1. a.dlv = [d \in Delivery |->
           IF s.dlv[d] \in {"queued", "retrying"}
              /\ IdFor(d) \in s.suppressed \cup I \cup s.watched
           THEN "none" ELSE s.dlv[d]]
    BY AcknowledgeFrame
  <2>2. c.dlv = s.dlv
    BY ConsumeResultsFrame
  <2> HIDE DEF a, c
  <2>3. Unpicked(s, a) /\ Unpicked(s, c)
    BY <2>1, <2>2 DEF Unpicked
  <2> QED BY <2>3 DEF a, c
<1>2. ASSUME NEW I, NEW delay \in Timer PROVE Unpicked(s, Schedule(s, I, delay))
  BY ScheduleFrame DEF Unpicked
<1>3. ASSUME NEW I PROVE Unpicked(s, Evict(s, I))
  <2>1. Evict(s, I).dlv = s.dlv
    BY EvictFrame
  <2> QED BY <2>1 DEF Unpicked
<1>4. ASSUME NEW i \in Id PROVE Unpicked(s, Discard(s, i)) /\ Unpicked(s, ReleaseForeground(s, i))
  <2>1. Unpicked(s, Discard(s, i))
    BY DiscardFrame DEF Unpicked
  <2>2. Unpicked(s, s) /\ Unpicked(s, [s EXCEPT !.released = @ \cup {i}])
    BY DEF Manager, Unpicked
  <2> QED BY <2>1, <2>2 DEF ReleaseForeground
<1>5. ASSUME NEW D PROVE Unpicked(s, Attempt(s, D))
  BY DEF Manager, Attempt, Unpicked
<1>6. ASSUME NEW J, NEW now PROVE Unpicked(s, Enqueue(s, J, now))
  <2> DEFINE D == {Slot(s, j) : j \in {k \in J : ~Suppressed(s, IdOf[k])}}
             q == [s EXCEPT !.dlv = [d \in Delivery |-> IF d \in D THEN "queued" ELSE s.dlv[d]]]
             A == {d \in D : d[1] \in now}
  <2>1. q \in Manager /\ Unpicked(s, q)
    BY DEF Manager, Pc, Unpicked
  <2>2. Enqueue(s, J, now) = Attempt(q, A)
    BY DEF Enqueue
  <2> HIDE DEF q, A
  <2>3. Unpicked(q, Attempt(q, A))
    BY <2>1 DEF Manager, Attempt, Unpicked
  <2> QED BY <2>1, <2>2, <2>3, UnpickedTwice
<1>7. ASSUME NEW J PROVE Unpicked(s, CancelJobs(s, J))
  BY DEF Manager, CancelJobs, Unpicked
<1>8. ASSUME NEW d PROVE Unpicked(s, AttemptEnds(s, d))
  BY <1>3 DEF AttemptEnds, Unpicked
<1> QED BY <1>1, <1>2, <1>3, <1>4, <1>5, <1>6, <1>7, <1>8

LEMMA ReadersUnpick ==
  ASSUME NEW s, Sound(s)
  PROVE  /\ \A I \in SUBSET Id : Unpicked(s, Consume(s, I))
         /\ \A I \in SUBSET Id : \A now : Unpicked(s, Unwatch(s, I, now))
         /\ \A I : Unpicked(s, [s EXCEPT !.watched = @ \cup I])
         /\ Unpicked(s, CancelOwn(s))
<1>1. ASSUME NEW I \in SUBSET Id PROVE Unpicked(s, Consume(s, I))
  <2>1. Sound(Acknowledge(s, I))
    BY AcknowledgeSame, SameCoreSound DEF Sound
  <2> QED BY <2>1, MethodsUnpick, UnpickedTwice DEF Consume, Sound
<1>2. ASSUME NEW I \in SUBSET Id, NEW now PROVE Unpicked(s, Unwatch(s, I, now))
  <2> DEFINE u == [s EXCEPT !.watched = @ \ I]
  <2>1. u \in Manager /\ SameCore(s, u) /\ Unpicked(s, u)
    BY DEF Sound, Manager, SameCore, Unpicked
  <2>2. Unwatch(s, I, now) = Enqueue(u, Skipped(s, I), now)
    BY DEF Unwatch
  <2> HIDE DEF u
  <2> QED BY <2>1, <2>2, MethodsUnpick, UnpickedTwice
<1>3. ASSUME NEW I PROVE Unpicked(s, [s EXCEPT !.watched = @ \cup I])
  BY DEF Sound, Manager, Unpicked
<1>4. Unpicked(s, CancelOwn(s))
  <2> DEFINE c == CancelJobs(s, Rows(s))
  <2>1. c.dlv = s.dlv
    BY DEF Sound, Manager, CancelJobs
  <2> HIDE DEF c
  <2>2. \A d \in Delivery : CancelOwn(s).dlv[d] \in {"none", c.dlv[d], "outdated", "err"}
    BY CancelOwnFrame DEF c
  <2> QED BY <2>1, <2>2 DEF Unpicked
<1> QED BY <1>1, <1>2, <1>3, <1>4

LEMMA BackgroundUnpicks ==
  ASSUME RInv, NEW j \in Job, NEW now, Background(j, now)
  PROVE  Unpicked(m, m')
<1> DEFINE b == [m EXCEPT !.job[j].fore = FALSE, !.suppressed = @ \ {IdOf[j]}]
<1>1. m' = IF Settled(m, j) THEN Enqueue(b, {j}, now) ELSE b
  BY DEF Background, Manages
<1>2. b \in Manager /\ b.dlv = m.dlv
  <2>1. [m.job EXCEPT ![j].fore = FALSE] \in [Job -> [st: Status, ended: BOOLEAN, fore: BOOLEAN]]
    BY RInvFacts DEF Manager
  <2>2. m.suppressed \ {IdOf[j]} \in SUBSET Id
    BY RInvFacts DEF Manager
  <2> QED BY <2>1, <2>2, RInvFacts DEF Manager
<1> HIDE DEF b
<1>3. Unpicked(b, m')
  BY <1>1, <1>2, MethodsUnpick DEF Unpicked
<1> QED BY <1>2, <1>3 DEF Unpicked

LEMMA JobStepUnpicks ==
  ASSUME RInv, JobStep
  PROVE  Unpicked(m, m')
<1> USE RInvFacts, IdAssumption
<1>1. ASSUME NEW j \in Job, NEW fore \in BOOLEAN, Register(j, fore) PROVE Unpicked(m, m')
  BY <1>1 DEF Register, Manages, Registered, Manager, Unpicked
<1>2. ASSUME NEW j \in Job, NEW outcome \in {"completed", "failed"}, NEW acked \in BOOLEAN,
             NEW now, Settle(j, outcome, acked, now)
      PROVE  Unpicked(m, m')
  <2> DEFINE i == IdOf[j]
             I == {i}
             a == IF acked THEN Acknowledge(m, I) ELSE m
             st == IF m.job[j].st = "cancelled" THEN "cancelled" ELSE outcome
             b == [a EXCEPT !.job[j] = [st |-> st, ended |-> TRUE, fore |-> @.fore]]
             e == IF m.job[j].st = "cancelled" THEN b ELSE Enqueue(b, {j}, now)
  <2>1. m' = IF i \in e.released THEN Discard(e, i) ELSE Schedule(e, I, "retention")
    BY <1>2 DEF Settle, Manages
  <2>2. I \in SUBSET Id
    OBVIOUS
  <2> HIDE DEF I
  <2>3. a \in Manager /\ SameCore(m, a) /\ Unpicked(m, a)
    BY <2>2, AcknowledgeSame, MethodsUnpick DEF SameCore, Unpicked
  <2> HIDE DEF a
  <2>4. b \in Manager /\ b.dlv = a.dlv
    BY <2>3 DEF Manager, Status
  <2> HIDE DEF b
  <2>5. e \in Manager /\ Unpicked(b, e)
    <3>1. Enqueue(b, {j}, now) \in Manager /\ Unpicked(b, Enqueue(b, {j}, now)) /\ Unpicked(b, b)
      BY <2>4, EnqueueSame, MethodsUnpick DEF Unpicked
    <3> QED BY <2>4, <3>1
  <2> HIDE DEF e
  <2>6. Unpicked(e, Discard(e, i)) /\ Unpicked(e, Schedule(e, I, "retention"))
    <3>1. i \in Id /\ "retention" \in Timer
      BY DEF Timer
    <3> QED BY <2>5, <3>1, MethodsUnpick
  <2>7. Unpicked(e, m')
    BY <2>1, <2>6
  <2>8. Unpicked(a, b)
    BY <2>4 DEF Unpicked
  <2> QED BY <2>3, <2>5, <2>7, <2>8, UnpickedTwice
<1>3. ASSUME NEW j \in Job, NEW now, Background(j, now) PROVE Unpicked(m, m')
  BY <1>3, BackgroundUnpicks
<1>4. ASSUME NEW j \in Job, NEW aborted \in BOOLEAN, ForegroundDone(j, aborted)
      PROVE  Unpicked(m, m')
  <2>1. CancelJobs(m, {j}) \in Manager
    BY CancelSound DEF Sound
  <2> QED BY <1>4, <2>1, MethodsUnpick, UnpickedTwice DEF ForegroundDone, Manages
<1> QED BY <1>1, <1>2, <1>3, <1>4, MethodsUnpick DEF JobStep, Cancel, Manages

LEMMA WaiterStepUnpicks ==
  ASSUME RInv, WaiterStep
  PROVE  Unpicked(m, m')
<1> USE RInvFacts, IdAssumption
<1>0. PICK w \in Waiter :
        \/ StartWait(w) \/ EndCell(w) \/ AbortCell(w)
        \/ \E j \in Job : StartPool(w, j)
        \/ \E j \in Job, kind \in {"vibe", "sidekick"} : StartHold(w, kind, j)
        \/ \E J \in SUBSET Job : StartCell(w, J)
        \/ \E now \in SUBSET waiter[w].jobs :
             \/ EndWait(w, now) \/ InterruptWait(w, now)
             \/ EndVibe(w, now) \/ EndSidekick(w, now) \/ EndPool(w, now)
  BY DEF WaiterStep
<1>1. Unpicked(m, m)
  BY DEF Unpicked
<1>2. CASE StartWait(w)
  BY <1>2, ReadersUnpick, RowsAreJobs DEF StartWait, RInv, DInv
<1>3. CASE EndCell(w)
  <2>1. Ids({j \in waiter[w].jobs : m.job[j].st # "running"}) \in SUBSET Id
    BY DEF Ids
  <2> QED BY <1>1, <1>3, <2>1, ReadersUnpick DEF EndCell
<1>4. CASE AbortCell(w)
  BY <1>4, MethodsUnpick DEF AbortCell
<1>5. ASSUME NEW j \in Job, StartPool(w, j) PROVE Unpicked(m, m')
  BY <1>5 DEF StartPool, Registered, Manager, Unpicked
<1>6. ASSUME NEW j \in Job, NEW kind, StartHold(w, kind, j) PROVE Unpicked(m, m')
  BY <1>6, ReadersUnpick DEF StartHold
<1>7. ASSUME NEW J, StartCell(w, J) PROVE Unpicked(m, m')
  BY <1>1, <1>7 DEF StartCell
<1>8. ASSUME NEW C \in SUBSET Id, NEW I \in SUBSET Id, NEW now
      PROVE  /\ Unpicked(m, Unwatch(m, I, now))
             /\ Unpicked(m, Unwatch(Consume(m, C), I, now))
             /\ Unpicked(m, Consume(Unwatch(m, I, now), C))
  <2>1. Sound(Consume(m, C)) /\ Sound(Unwatch(m, I, now))
    BY ConsumeSound, UnwatchSound
  <2>2. /\ Unpicked(m, Unwatch(m, I, now)) /\ Unpicked(m, Consume(m, C))
        /\ Unpicked(Consume(m, C), Unwatch(Consume(m, C), I, now))
        /\ Unpicked(Unwatch(m, I, now), Consume(Unwatch(m, I, now), C))
    BY <2>1, ReadersUnpick
  <2> QED BY <2>2, UnpickedTwice
<1>9. Ids(waiter[w].jobs) \in SUBSET Id
  BY DEF Ids
<1>10. ASSUME NEW now, EndWait(w, now) PROVE Unpicked(m, m')
  <2> DEFINE cur(j) == IF HasRow(m, IdOf[j]) THEN m.row[IdOf[j]] ELSE j
             stopped == {k \in {cur(j) : j \in waiter[w].jobs} : m.job[k].st # "running"}
  <2>1. stopped \subseteq Job
    <3>1. \A j \in Job : cur(j) \in Job
      OBVIOUS
    <3> QED BY <3>1
  <2>2. m' = Unwatch(Consume(m, Ids(stopped)), Ids(waiter[w].jobs), now)
    BY <1>10 DEF EndWait
  <2> HIDE DEF stopped
  <2>3. Ids(stopped) \in SUBSET Id
    BY <2>1 DEF Ids
  <2> QED BY <1>8, <1>9, <2>2, <2>3
<1>11. ASSUME NEW now, InterruptWait(w, now) PROVE Unpicked(m, m')
  BY <1>9, <1>11, ReadersUnpick DEF InterruptWait
<1>12. ASSUME NEW now, EndVibe(w, now) PROVE Unpicked(m, m')
  <2> DEFINE I == Ids(waiter[w].jobs)
             u == Unwatch(m, I, now)
             stopped == {j \in Rows(u) : IdOf[j] \in I /\ u.job[j].st # "running"}
  <2>1. m' = Consume(u, Ids(stopped))
    BY <1>12 DEF EndVibe
  <2>2. Ids(stopped) \in SUBSET Id
    BY <1>9 DEF Ids
  <2> HIDE DEF stopped
  <2> QED BY <1>8, <1>9, <2>1, <2>2
<1>13. ASSUME NEW now, EndSidekick(w, now) PROVE Unpicked(m, m')
  <2> DEFINE stopped == {j \in waiter[w].jobs : m.job[j].st # "running"}
  <2>1. m' = Consume(Unwatch(m, Ids(waiter[w].jobs), now), Ids(stopped))
    BY <1>13 DEF EndSidekick
  <2>2. Ids(stopped) \in SUBSET Id
    BY DEF Ids
  <2> HIDE DEF stopped
  <2> QED BY <1>8, <1>9, <2>1, <2>2
<1>14. ASSUME NEW now, EndPool(w, now) PROVE Unpicked(m, m')
  BY <1>8, <1>9, <1>14 DEF EndPool
<1> QED BY <1>0, <1>2, <1>3, <1>4, <1>5, <1>6, <1>7, <1>10, <1>11, <1>12, <1>13, <1>14

LEMMA SessionStepUnpicks ==
  ASSUME RInv, SessionStep
  PROVE  Unpicked(m, m')
<1> USE RInvFacts
<1>1. ASSUME NEW on \in BOOLEAN
      PROVE  Sound([m EXCEPT !.sink = on]) /\ Unpicked(m, [m EXCEPT !.sink = on])
  BY SinkSame DEF Manager, Unpicked
<1>2. Unpicked(m, Superseded(m))
  BY DEF Superseded, Manager, Unpicked
<1>3. ASSUME FinishDispose PROVE Unpicked(m, m')
  <2> DEFINE s == [m EXCEPT !.sink = FALSE]
  <2>1. Sound(s) /\ Unpicked(m, s) /\ m' = CancelOwn(s)
    BY <1>1, <1>3 DEF FinishDispose
  <2> HIDE DEF s
  <2>2. Unpicked(s, m')
    BY <2>1, ReadersUnpick
  <2> QED BY <2>1, <2>2, UnpickedTwice
<1>4. ASSUME NewSession PROVE Unpicked(m, m')
  BY <1>4, ReadersUnpick DEF NewSession
<1> QED BY <1>1, <1>2, <1>3, <1>4 DEF SessionStep, BeginDispose, Reopen

\* Only a flush picks a parked delivery, and only one whose id is not suppressed.
LEMMA PickedIsFresh ==
  ASSUME RInv, [Next]_vars, NEW d \in Delivery, m.dlv[d] = "parked", m'.dlv[d] = "picked"
  PROVE  ~Suppressed(m, IdFor(d))
<1> USE RInvFacts
<1>1. ~Unpicked(m, m')
  BY DEF Unpicked
<1>2. ASSUME NEW i \in Id, TimerFires(i) PROVE FALSE
  <2>1. Unpicked(m, Evict(m, {i}))
    BY MethodsUnpick
  <2>2. PICK x : m' = Evict(m, {i}) \/ m' = [m EXCEPT !.timer[i] = "held", !.holder[i] = x]
    BY <1>2 DEF TimerFires, Manages
  <2>3. Unpicked(m, [m EXCEPT !.timer[i] = "held", !.holder[i] = x])
    BY DEF Manager, Unpicked
  <2> QED BY <1>1, <2>1, <2>2, <2>3
<1>3. DeliveryStep
  <2>1. m' # m
    BY <1>1 DEF Unpicked
  <2> QED BY <1>1, <1>2, <2>1, JobStepUnpicks, WaiterStepUnpicks, SessionStepUnpicks DEF Next, vars
<1>4. ASSUME NEW x \in Delivery, NEW pc \in Pc \ {"picked"}
      PROVE  Unpicked(m, [m EXCEPT !.dlv[x] = pc])
  BY DEF Manager, Unpicked
<1>5. ASSUME NEW x \in Delivery,
             DeliveryLoop(x) \/ Formatted(x) \/ Commit(x) \/ Reject(x)
      PROVE  Unpicked(m, m')
  BY <1>4, <1>5, MethodsUnpick DEF DeliveryLoop, Formatted, Commit, Reject, Manages, Pc, Flying
<1>6. ASSUME NEW x \in Delivery, Delivered(x) PROVE Unpicked(m, m')
  <2> DEFINE i == IdFor(x)
             I == {i}
             c == IF i \in m.consumed /\ HasRow(m, i) THEN Schedule(m, I, "grace") ELSE m
             l == [c EXCEPT !.dlv[x] = "none"]
             e == IF i \in m.consumed THEN l ELSE ConsumeResults(l, I)
  <2>1. m' = AttemptEnds(e, x)
    BY <1>6 DEF Delivered, Manages
  <2>2. I \in SUBSET Id
    BY IdAssumption, Slots DEF IdFor
  <2> HIDE DEF I
  <2>3. c \in Manager /\ c.dlv = m.dlv
    BY ScheduleFrame DEF Timer
  <2> HIDE DEF c
  <2>4. l \in Manager /\ l.dlv = [m.dlv EXCEPT ![x] = "none"]
    BY <2>3 DEF Manager, Pc
  <2> HIDE DEF l
  <2>5. e \in Manager /\ e.dlv = l.dlv
    BY <2>2, <2>4, ConsumeResultsFrame
  <2> HIDE DEF e
  <2>6. Unpicked(m, e)
    BY <2>4, <2>5 DEF Unpicked, Manager
  <2>7. Unpicked(e, m')
    BY <2>1, <2>5, MethodsUnpick
  <2> QED BY <2>6, <2>7, UnpickedTwice
<1>7. ASSUME NEW x \in Delivery, DeliveryFailed(x) PROVE Unpicked(m, m')
  <2> DEFINE retry == ~Suppressed(m, IdFor(x)) /\ HasRow(m, IdFor(x))
             pc == IF retry THEN "retrying" ELSE "none"
             f == [m EXCEPT !.dlv[x] = pc]
  <2>1. m' = AttemptEnds(f, x) /\ pc \in Pc \ {"picked"}
    BY <1>7 DEF DeliveryFailed, Manages, Pc
  <2> HIDE DEF pc
  <2>2. f \in Manager /\ Unpicked(m, f)
    BY <1>4, <2>1 DEF Manager
  <2> HIDE DEF f
  <2>3. Unpicked(f, m')
    BY <2>1, <2>2, MethodsUnpick
  <2> QED BY <2>2, <2>3, UnpickedTwice
<1>8. PICK x \in Delivery : Flush(x)
  BY <1>1, <1>3, <1>5, <1>6, <1>7 DEF DeliveryStep
<1>9. m' = [m EXCEPT !.dlv[x] = IF Suppressed(m, IdFor(x)) THEN "err" ELSE "picked"]
  BY <1>8 DEF Flush, Manages
<1>10. x = d
  BY <1>9 DEF Manager
<1> QED BY <1>9, <1>10 DEF Manager

\* For jobs with ids of their own: what the manager owes has a delivery on its way, what a
\* reader returned is spent, and what counts as consumed was seen.
THEOREM ResultsInvariant == Single /\ Spec => []RInv
<1>1. Single /\ Init => RInv
  <2> SUFFICES ASSUME Single, Init PROVE RInv
    OBVIOUS
  <2> QED BY DeliveriesInit, ResultsInit DEF RInv
<1>2. RInv /\ [Next]_vars => RInv'
  <2> SUFFICES ASSUME RInv, [Next]_vars PROVE RInv'
    OBVIOUS
  <2>1. Single' = Single
    BY DEF Single, Automatic
  <2> QED BY <2>1, DeliveriesNext, ResultsNext DEF RInv
<1> QED BY <1>1, <1>2, PTL DEF Spec

\* A settled result that nobody read, acknowledged or watches is never left without a
\* delivery: each place that skips one for a watched or suppressed id is made up for by
\* unwatchJobs, backgroundJob or a consumption (job-manager.ts, #enqueueDelivery).
THEOREM OwedResultIsOnItsWay == Single /\ Spec => []ResultIsOnItsWay
<1>1. RInv => ResultIsOnItsWay
  <2> SUFFICES ASSUME RInv, NEW i \in Id, HasRow(m, i), Settled(m, m.row[i]),
                      ~Suppressed(m, i), i \notin m.consumed, m.row[i] \notin m.dead
               PROVE  \E k \in 1..2 : m.dlv[<<m.row[i], k>>] # "none"
    BY DEF ResultIsOnItsWay
  <2>1. m.row[i] \in Job /\ IdOf[m.row[i]] = i
    BY RInvFacts
  <2>2. Owed(m, m.row[i])
    BY <2>1 DEF Owed
  <2>3. ~Quiet(m, m.row[i])
    BY <2>1, <2>2, RInvFacts DEF Results, NothingOwed
  <2> QED BY <2>3 DEF Quiet
<1> QED BY <1>1, ResultsInvariant, PTL

\* Nothing counts as consumed, and loses its row to the short grace, that neither a reader
\* returned nor a message carried.
THEOREM ConsumedResultWasSeen == Single /\ Spec => []ConsumedWasSeen
<1>1. RInv => ConsumedWasSeen
  <2> SUFFICES ASSUME RInv, session = "open", NEW i \in m.consumed
               PROVE  m.row[i] \in read \/ injected[m.row[i]] > 0
    BY DEF ConsumedWasSeen
  <2>1. m.row[i] \in SeenJobs
    BY RInvFacts DEF Results, Witnessed
  <2>2. ASSUME m.row[i] \in Job, injected[m.row[i]] # 0 PROVE injected[m.row[i]] > 0
    BY <2>2 DEF RInv, DInv, Inv, TypeOK
  <2> QED BY <2>1, <2>2 DEF SeenJobs
<1> QED BY <1>1, ResultsInvariant, PTL

\* The delivery of a result a reader returned may stay parked for ever, its row may be
\* evicted meanwhile, but no flush puts it into a message.
THEOREM ReadResultIsNotReplayed == Single /\ Spec => NoReplay
<1>1. ASSUME RInv, [Next]_vars, NEW d \in Delivery, m.dlv[d] = "parked", m'.dlv[d] = "picked"
      PROVE  d[1] \notin read
  <2>1. ASSUME d[1] \in read PROVE IdFor(d) \in m.suppressed
    <3>1. Spent(m, d[1])
      BY <1>1, <2>1, RInvFacts DEF Results
    <3>2. d[1] \in Job /\ (d = <<d[1], 1>> \/ d = <<d[1], 2>>)
      BY Slots
    <3> QED BY <1>1, <3>1, <3>2 DEF Spent, IdFor
  <2>2. ~Suppressed(m, IdFor(d))
    BY <1>1, PickedIsFresh
  <2> QED BY <2>1, <2>2 DEF Suppressed
<1>2. RInv /\ [Next]_vars => [\A d \in Delivery :
        m.dlv[d] = "parked" /\ m'.dlv[d] = "picked" => d[1] \notin read]_vars
  BY <1>1
<1> QED BY <1>2, ResultsInvariant, PTL DEF Spec, NoReplay
=============================================================================
