------------------------------ MODULE AsyncJobs ------------------------------
(***************************************************************************)
(* The background-job manager (async/job-manager.ts) for ONE owner, the    *)
(* delivery sink and yield queue of the owner's session                    *)
(* (session/agent-session.ts, session/yield-queue.ts), and the callers     *)
(* that read results in the foreground: the wait tool, vibe_wait, the      *)
(* sidekick handoff, eval handles and work pools.                          *)
(*                                                                         *)
(* A result reaches the model either because its delivery is injected into *)
(* the transcript or because a foreground caller reads it first.  The      *)
(* manager keeps both from happening with markers keyed by job ID, while a *)
(* delivery, a timer and a waiting caller belong to one job OBJECT.  An    *)
(* automatic id (bg_N) is never recycled; an id chosen by the caller (an   *)
(* agent's id) names one object after another.                             *)
(*                                                                         *)
(* The program is single threaded: an action is the code between two       *)
(* awaits.  The maps and sets of the manager are the fields of `m`; its    *)
(* methods are operators from one value of `m` to the next.                *)
(*                                                                         *)
(* Left out: several owners, retained artifacts, progress, the cap on      *)
(* running jobs (a refused registration changes nothing), manager dispose, *)
(* a retention of zero.  Backoff and jitter may put any queued delivery    *)
(* first, so the delivery queue is a set.                                  *)
(***************************************************************************)
EXTENDS FiniteSets, Naturals

CONSTANTS Id,      \* job ids
          Job,     \* AsyncJob objects, in no particular order
          IdOf,    \* the id each is registered under
          Waiter,  \* concurrent foreground readers
          NoJob

ASSUME IdAssumption == IdOf \in [Job -> Id]
ASSUME NilAssumption == NoJob \notin Job

VARIABLES
  m,         \* the manager
  session,   \* the owner's session: "open", "disposing" (beginDispose ran) or "gone"
  waiter,    \* the foreground readers and the job objects they captured
  injected,  \* history: how often each job's result was inserted into the transcript
  read       \* history: jobs whose result a foreground reader returned

vars == <<m, session, waiter, injected, read>>

\* A job has at most one delivery at a time; a second slot lets a duplicate show.
Delivery   == Job \X (1..2)
NoDelivery == <<NoJob, 0>>
OptJob     == Job \cup {NoJob}

Status == {"none", "running", "completed", "failed", "cancelled"}
\* A delivery is in #deliveries, due ("queued") or backing off after a failed attempt
\* ("retrying"), or in #inFlightDeliveries, where its sink call formats the text ("outdated": for a session since replaced or disposed), waits
\* on the yield queue ("parked"), is in a built message not yet committed ("picked"),
\* or has returned ("ok") or thrown ("err") with the manager's continuation pending.
Flying == {"formatting", "outdated", "parked", "picked", "ok", "err"}
Pc     == {"none", "queued", "retrying"} \cup Flying
\* The delay a row's eviction timer was armed with; "held": it fired and waits for
\* the delivery `holder`.
Timer  == {"none", "retention", "grace", "held"}
\* "aborted": a wait whose run was aborted and which only has its cleanup left.
Kind   == {"idle", "wait", "vibe", "sidekick", "cell", "pool", "aborted"}

Manager == [row: [Id -> OptJob],
            job: [Job -> [st: Status, ended: BOOLEAN, fore: BOOLEAN]],
            suppressed: SUBSET Id, watched: SUBSET Id, consumed: SUBSET Id,
            released: SUBSET Id, timer: [Id -> Timer],
            holder: [Id -> Delivery \cup {NoDelivery}],
            dlv: [Delivery -> Pc], sink: BOOLEAN,
            dead: SUBSET Job]  \* history: jobs with a dead-lettered delivery

TypeOK ==
  /\ m \in Manager
  /\ session \in {"open", "disposing", "gone"}
  /\ waiter \in [Waiter -> [kind: Kind, jobs: SUBSET Job]]
  /\ injected \in [Job -> Nat]
  /\ read \subseteq Job

NotWaiting == [kind |-> "idle", jobs |-> {}]

Init ==
  /\ m = [row |-> [i \in Id |-> NoJob],
          job |-> [j \in Job |-> [st |-> "none", ended |-> FALSE, fore |-> FALSE]],
          suppressed |-> {}, watched |-> {}, consumed |-> {}, released |-> {},
          timer |-> [i \in Id |-> "none"], holder |-> [i \in Id |-> NoDelivery],
          dlv |-> [d \in Delivery |-> "none"], sink |-> TRUE, dead |-> {}]
  /\ session = "open"
  /\ waiter = [w \in Waiter |-> NotWaiting]
  /\ injected = [j \in Job |-> 0]
  /\ read = {}

-----------------------------------------------------------------------------
(* What the manager can tell from its maps.                                *)

Ids(J)  == {IdOf[j] : j \in J}
IdFor(d) == IdOf[d[1]]

HasRow(s, i) == s.row[i] # NoJob
Settled(s, j) == s.job[j].st \in {"completed", "failed"}
Rows(s) == {s.row[i] : i \in Id} \ {NoJob}

\* isDeliverySuppressed
Suppressed(s, i) == i \in s.suppressed \cup s.watched

\* The deliveries of any job object with this id, and those with a sink call open.
Pending(s, i)  == {d \in Delivery : IdFor(d) = i /\ s.dlv[d] # "none"}
InFlight(s, i) == {d \in Delivery : IdFor(d) = i /\ s.dlv[d] \in Flying}

-----------------------------------------------------------------------------
(* The manager's private methods.                                          *)

\* #scheduleEviction: the new timer replaces the old one.
Schedule(s, I, delay) ==
  [s EXCEPT !.timer  = [i \in Id |-> IF i \in I THEN delay ELSE s.timer[i]],
            !.holder = [i \in Id |-> IF i \in I THEN NoDelivery ELSE s.holder[i]]]

\* Mutant: the eviction timer is not cleared with the row.
EvictKeepsTimer(s, I) ==
  [s EXCEPT !.suppressed = @ \ I, !.watched = @ \ I, !.consumed = @ \ I,
            !.row = [i \in Id |-> IF i \in I THEN NoJob ELSE s.row[i]]]

\* #evictJob
Evict(s, I) ==
  [Schedule(s, I, "none") EXCEPT
     !.suppressed = @ \ I, !.watched = @ \ I, !.consumed = @ \ I,
     !.row = [i \in Id |-> IF i \in I THEN NoJob ELSE s.row[i]]]

\* #discardForegroundJob; the counter value it returns names nothing any more.
Discard(s, i) == Evict([s EXCEPT !.released = @ \ {i}], {i})

\* Mutant: the delivery is recorded in place of its job.
AttemptRecordsDelivery(s, D) ==
  IF ~s.sink
  THEN [s EXCEPT !.dlv  = [d \in Delivery |-> IF d \in D THEN "none" ELSE s.dlv[d]],
                 !.dead = @ \cup D]
  ELSE [s EXCEPT !.dlv = [d \in Delivery |->
          IF d \notin D THEN s.dlv[d]
          ELSE IF session = "open" THEN "formatting" ELSE "ok"]]

\* One delivery attempt: without a sink the delivery is dead-lettered, a disposed
\* session's sink returns at once, an open one starts formatting.
Attempt(s, D) ==
  IF ~s.sink
  THEN [s EXCEPT !.dlv  = [d \in Delivery |-> IF d \in D THEN "none" ELSE s.dlv[d]],
                 !.dead = @ \cup {d[1] : d \in D}]
  ELSE [s EXCEPT !.dlv = [d \in Delivery |->
          IF d \notin D THEN s.dlv[d]
          ELSE IF session = "open" THEN "formatting" ELSE "ok"]]

Slot(s, j) == IF s.dlv[<<j, 1>>] = "none" THEN <<j, 1>> ELSE <<j, 2>>

\* #enqueueDelivery for the jobs J.  An idle delivery loop is started by the first
\* enqueue and attempts it synchronously (the jobs `now`); a sleeping loop wakes later.
Enqueue(s, J, now) ==
  LET D == {Slot(s, j) : j \in {k \in J : ~Suppressed(s, IdOf[k])}}
      q == [s EXCEPT !.dlv = [d \in Delivery |-> IF d \in D THEN "queued" ELSE s.dlv[d]]]
  IN  Attempt(q, {d \in D : d[1] \in now})

\* acknowledgeDeliveries: the filter drops every suppressed queued delivery.
Acknowledge(s, I) ==
  LET a == [s EXCEPT !.suppressed = @ \cup I]
  IN  [a EXCEPT !.dlv = [d \in Delivery |->
         IF s.dlv[d] \in {"queued", "retrying"} /\ Suppressed(a, IdFor(d)) THEN "none" ELSE s.dlv[d]]]

\* Mutant: a cancelled job whose run has not ended counts as consumed.
ConsumeResultsWithoutText(s, I) ==
  LET C == {i \in I : HasRow(s, i) /\ i \notin s.consumed /\ s.job[s.row[i]].st # "running"}
  IN  Schedule([s EXCEPT !.consumed = @ \cup C], {i \in C : Pending(s, i) = {}}, "grace")

\* #consumeJobResult for each id: the row gets the short grace unless a delivery is
\* pending.  A result text is there exactly when the run has ended.
ConsumeResults(s, I) ==
  LET C == {i \in I : HasRow(s, i) /\ i \notin s.consumed
                      /\ s.job[s.row[i]].st # "running" /\ s.job[s.row[i]].ended}
  IN  Schedule([s EXCEPT !.consumed = @ \cup C], {i \in C : Pending(s, i) = {}}, "grace")

\* consumeJobResults
Consume(s, I) == ConsumeResults(Acknowledge(s, I), I)

\* The jobs whose delivery was skipped while watched and unwatchJobs catches up on.
Skipped(s, I) ==
  LET u == [s EXCEPT !.watched = @ \ I]
  IN  {j \in Job : \E i \in I \cap s.watched :
         /\ s.row[i] = j /\ Settled(s, j)
         /\ ~Suppressed(u, i) /\ i \notin s.consumed
         /\ Pending(s, i) = {}}

\* Mutant: nothing is enqueued for what was skipped while watched.
UnwatchOnly(s, I, now) == [s EXCEPT !.watched = @ \ I]

\* unwatchJobs
Unwatch(s, I, now) == Enqueue([s EXCEPT !.watched = @ \ I], Skipped(s, I), now)

\* releaseForegroundJob
ReleaseForeground(s, i) ==
  IF ~HasRow(s, i) \/ ~s.job[s.row[i]].fore THEN s
  ELSE IF s.job[s.row[i]].ended THEN Discard(s, i)
  ELSE [s EXCEPT !.released = @ \cup {i}]

\* cancel and #cancelJobs
CancelJobs(s, J) ==
  [s EXCEPT !.job = [j \in Job |->
     IF j \in J /\ s.job[j].st = "running" THEN [s.job[j] EXCEPT !.st = "cancelled"]
     ELSE s.job[j]]]

\* evictCompletedJobs
EvictCompleted(s) ==
  LET I == {i \in Id : HasRow(s, i) /\ Settled(s, s.row[i])}
  IN  Evict(Acknowledge(s, I), I)

\* Mutant: the timer that fired early is forgotten.
AttemptEndsOnly(s, d) == s

\* The promise of attempt d settles: a timer that waited for it evicts the row,
\* unless another one replaced it.
AttemptEnds(s, d) ==
  LET i == IdFor(d)
  IN  IF s.timer[i] = "held" /\ s.holder[i] = d THEN Evict(s, {i}) ELSE s

-----------------------------------------------------------------------------
(* The life of a job.                                                      *)

Manages(s) == m' = s /\ UNCHANGED <<session, waiter, injected, read>>

\* Mutant: a foreground job is not suppressed.
RegisteredUnsuppressed(s, j, fore) ==
  LET i == IdOf[j]
  IN  [s EXCEPT !.suppressed = @ \ {i}, !.consumed = @ \ {i}, !.released = @ \ {i},
                !.row[i] = j,
                !.job[j] = [st |-> "running", ended |-> FALSE, fore |-> fore]]

\* register, in the background or backing a foreground call.  The id is free
\* (#resolveJobId); the old object's markers are cleared.
Registered(s, j, fore) ==
  LET i == IdOf[j]
  IN  [s EXCEPT !.suppressed = IF fore THEN @ \cup {i} ELSE @ \ {i},
                !.consumed = @ \ {i}, !.released = @ \ {i},
                !.row[i] = j,
                !.job[j] = [st |-> "running", ended |-> FALSE, fore |-> fore]]

CanRegister(j) == m.job[j].st = "none" /\ ~HasRow(m, IdOf[j])

\* Foreground calls take automatic ids; those of pool batches, vibe turns and handoffs
\* are numbered by their callers.  Such an id names one object.
Automatic(j) == \A k \in Job : IdOf[k] = IdOf[j] => k = j

Register(j, fore) ==
  CanRegister(j) /\ (fore => Automatic(j)) /\ Manages(Registered(m, j, fore))

\* The run of j ends with a result or an error.  The run of a wake turn whose relay
\* already answered (`acked`) has acknowledged its own delivery first.
Settle(j, outcome, acked, now) ==
  LET i == IdOf[j]
      a == IF acked THEN Acknowledge(m, {i}) ELSE m
      st == IF m.job[j].st = "cancelled" THEN "cancelled" ELSE outcome
      b == [a EXCEPT !.job[j] = [st |-> st, ended |-> TRUE, fore |-> @.fore]]
      e == IF m.job[j].st = "cancelled" THEN b ELSE Enqueue(b, {j}, now)
  IN  /\ m.job[j].st \in {"running", "cancelled"} /\ ~m.job[j].ended
      /\ Manages(IF i \in e.released THEN Discard(e, i) ELSE Schedule(e, {i}, "retention"))

Cancel(j) == j \in Rows(m) /\ m.job[j].st = "running" /\ Manages(CancelJobs(m, {j}))

\* Mutant: promoting a job that is in the background already enqueues it again.
BackgroundAgain(j, now) ==
  LET i == IdOf[j]
      b == [m EXCEPT !.job[j].fore = FALSE, !.suppressed = @ \ {i}]
  IN  /\ m.row[i] = j /\ i \notin m.released
      /\ Manages(IF Settled(m, j) THEN Enqueue(b, {j}, now) ELSE b)

\* backgroundJob: the foreground call gives up waiting and promotes its job.
Background(j, now) ==
  LET i == IdOf[j]
      b == [m EXCEPT !.job[j].fore = FALSE, !.suppressed = @ \ {i}]
  IN  /\ m.row[i] = j /\ m.job[j].fore /\ i \notin m.released
      /\ Manages(IF Settled(m, j) THEN Enqueue(b, {j}, now) ELSE b)

\* The foreground call returned the job's result itself, or was aborted, which
\* cancels the job first.
ForegroundDone(j, aborted) ==
  /\ m.row[IdOf[j]] = j /\ m.job[j].fore /\ IdOf[j] \notin m.released
  /\ Manages(ReleaseForeground(IF aborted THEN CancelJobs(m, {j}) ELSE m, IdOf[j]))

-----------------------------------------------------------------------------
(* Deliveries and timers.                                                  *)

\* #runDeliveryLoop and #deliverNextFiltered take a delivery off the queue.
DeliveryLoop(d) ==
  /\ m.dlv[d] \in {"queued", "retrying"}
  /\ Manages(IF Suppressed(m, IdFor(d)) THEN [m EXCEPT !.dlv[d] = "none"]
             ELSE Attempt(m, {d}))

\* #deliverAsyncJobResult after the format step: the result goes onto the yield queue
\* unless the session was replaced or disposed or the delivery suppressed meanwhile.
Formatted(d) ==
  /\ m.dlv[d] \in {"formatting", "outdated"}
  /\ Manages([m EXCEPT !.dlv[d] =
       IF @ = "outdated" \/ Suppressed(m, IdFor(d)) THEN "ok" ELSE "parked"])

\* A flush or drain of the yield queue: a stale entry's receipt is rejected, any
\* other goes into the message to insert.
Flush(d) ==
  /\ m.dlv[d] = "parked"
  /\ Manages([m EXCEPT !.dlv[d] = IF Suppressed(m, IdFor(d)) THEN "err" ELSE "picked"])

\* Mutant: the receipt of an inserted message is rejected.
CommitLosesReceipt(d) ==
  /\ m.dlv[d] = "picked"
  /\ m' = [m EXCEPT !.dlv[d] = "err"]
  /\ injected' = [injected EXCEPT ![d[1]] = @ + 1]
  /\ UNCHANGED <<session, waiter, read>>

\* The message is inserted into the transcript, or discarded (the injection threw,
\* the run ended).
Commit(d) ==
  /\ m.dlv[d] = "picked"
  /\ m' = [m EXCEPT !.dlv[d] = "ok"]
  /\ injected' = [injected EXCEPT ![d[1]] = @ + 1]
  /\ UNCHANGED <<session, waiter, read>>

Reject(d) == m.dlv[d] = "picked" /\ Manages([m EXCEPT !.dlv[d] = "err"])

\* #deliverDelivery after the sink returned.
Delivered(d) ==
  LET i == IdFor(d)
      c == IF i \in m.consumed /\ HasRow(m, i) THEN Schedule(m, {i}, "grace") ELSE m
      l == [c EXCEPT !.dlv[d] = "none"]
      e == IF i \in m.consumed THEN l ELSE ConsumeResults(l, {i})
  IN  m.dlv[d] = "ok" /\ Manages(AttemptEnds(e, d))

\* #deliverDelivery after the sink threw: retry unless suppressed or without a row.
DeliveryFailed(d) ==
  LET retry == ~Suppressed(m, IdFor(d)) /\ HasRow(m, IdFor(d))
  IN  /\ m.dlv[d] = "err"
      /\ Manages(AttemptEnds([m EXCEPT !.dlv[d] = IF retry THEN "retrying" ELSE "none"], d))

\* Mutant: retention evicts a row whose suppressed delivery is in flight.
TimerFiresAnyway(i) ==
  /\ m.timer[i] \in {"retention", "grace"}
  /\ \A d \in Delivery : m.dlv[d] \notin {"queued", "ok", "err"}
  /\ Manages(Evict(m, {i}))

\* The eviction timer of a row fires, once the microtasks have run: sink calls that
\* returned are followed up, deliveries that are due attempted.  While the
\* delivery of a suppressed job is in flight it waits for that attempt.
TimerFires(i) ==
  /\ m.timer[i] \in {"retention", "grace"}
  /\ \A d \in Delivery : m.dlv[d] \notin {"queued", "ok", "err"}
  /\ IF InFlight(m, i) = {} \/ ~Suppressed(m, i)
     THEN Manages(Evict(m, {i}))
     ELSE \E d \in InFlight(m, i) :
            Manages([m EXCEPT !.timer[i] = "held", !.holder[i] = d])

-----------------------------------------------------------------------------
(* Foreground readers.                                                     *)

\* getAllJobs / getRunningJobs of the owner: rows that back no foreground call.
Visible == {j \in Rows(m) : ~m.job[j].fore}
RunningVisible == {j \in Visible : m.job[j].st = "running"}

\* undeliveredJobs
Undelivered == {j \in Visible : /\ Settled(m, j) /\ IdOf[j] \notin m.consumed
                                /\ ~Suppressed(m, IdOf[j])}

Captures(w, kind, J) == waiter' = [waiter EXCEPT ![w] = [kind |-> kind, jobs |-> J]]
Leaves(w) == waiter' = [waiter EXCEPT ![w] = NotWaiting]
Reads(J)  == read' = read \cup {j \in J : m.job[j].ended}

\* The wait tool: undelivered results are returned at once, otherwise it watches
\* whatever is running.
StartWait(w) ==
  /\ session = "open" /\ waiter[w] = NotWaiting
  /\ IF Undelivered # {}
     THEN m' = Consume(m, Ids(Undelivered)) /\ Reads(Undelivered) /\ UNCHANGED waiter
     ELSE /\ RunningVisible # {}
          /\ m' = [m EXCEPT !.watched = @ \cup Ids(RunningVisible)]
          /\ Captures(w, "wait", RunningVisible) /\ UNCHANGED read
  /\ UNCHANGED <<session, injected>>

\* A job, a service or the time limit ends the wait: buildJobResult reports the
\* current row of each captured id (the captured object once that row is gone), shows
\* what is not consumed yet and consumes what has stopped; then unwatch.
EndWait(w, now) ==
  LET cur(j) == IF HasRow(m, IdOf[j]) THEN m.row[IdOf[j]] ELSE j
      stopped == {k \in {cur(j) : j \in waiter[w].jobs} : m.job[k].st # "running"}
  IN  /\ waiter[w].kind = "wait"
      /\ m' = Unwatch(Consume(m, Ids(stopped)), Ids(waiter[w].jobs), now)
      /\ Reads({k \in stopped : IdOf[k] \notin m.consumed})
      /\ Leaves(w) /\ UNCHANGED <<session, injected>>

\* A message, a steer or an abort cuts the wait short: only unwatch.
InterruptWait(w, now) ==
  /\ waiter[w].kind \in {"wait", "aborted"}
  /\ m' = Unwatch(m, Ids(waiter[w].jobs), now)
  /\ Leaves(w) /\ UNCHANGED <<session, injected, read>>

\* vibe_wait and the sidekick handoff watch the running job they wait for.
StartHold(w, kind, j) ==
  /\ session = "open" /\ waiter[w] = NotWaiting /\ j \in RunningVisible /\ Automatic(j)
  /\ m' = [m EXCEPT !.watched = @ \cup {IdOf[j]}]
  /\ Captures(w, kind, {j}) /\ UNCHANGED <<session, injected, read>>

\* vibe_wait ends: unwatch, then report and consume the rows its ids name now.
EndVibe(w, now) ==
  LET I == Ids(waiter[w].jobs)
      u == Unwatch(m, I, now)
      stopped == {j \in Rows(u) : IdOf[j] \in I /\ u.job[j].st # "running"}
  IN  /\ waiter[w].kind = "vibe"
      /\ m' = Consume(u, Ids(stopped)) /\ Reads(stopped)
      /\ Leaves(w) /\ UNCHANGED <<session, injected>>

\* The sidekick handoff ends: unwatch, then return the captured row and consume its id.
EndSidekick(w, now) ==
  LET u == Unwatch(m, Ids(waiter[w].jobs), now)
      stopped == {j \in waiter[w].jobs : m.job[j].st # "running"}
  IN  /\ waiter[w].kind = "sidekick"
      /\ m' = Consume(u, Ids(stopped)) /\ Reads(stopped)
      /\ Leaves(w) /\ UNCHANGED <<session, injected>>

\* runEvalWait: a cell resolves its agent handles to job objects and watches nothing.
StartCell(w, J) ==
  /\ session = "open" /\ waiter[w] = NotWaiting /\ J # {} /\ J \subseteq Rows(m)
  /\ \A j \in J : ~m.job[j].fore
  /\ Captures(w, "cell", J) /\ UNCHANGED <<m, session, injected, read>>

\* All handles have settled (a completion's, not modelled, long after these), or the
\* timeout passed: the captured objects that stopped are returned, their ids consumed.
EndCell(w) ==
  LET stopped == {j \in waiter[w].jobs : m.job[j].st # "running"}
  IN  /\ waiter[w].kind = "cell"
      /\ m' = (IF stopped = {} THEN m ELSE Consume(m, Ids(stopped))) /\ Reads(stopped)
      /\ Leaves(w) /\ UNCHANGED <<session, injected>>

\* The cell is aborted: it cancels what its ids name and consumes nothing.
AbortCell(w) ==
  /\ waiter[w].kind = "cell"
  /\ m' = CancelJobs(m, {j \in Rows(m) : IdOf[j] \in Ids(waiter[w].jobs)})
  /\ Leaves(w) /\ UNCHANGED <<session, injected, read>>

\* A work pool registers the job of a batch and watches it in the same step.
StartPool(w, j) ==
  LET r == Registered(m, j, FALSE)
  IN  /\ waiter[w] = NotWaiting /\ CanRegister(j) /\ Automatic(j)
      /\ m' = [r EXCEPT !.watched = @ \cup {IdOf[j]}]
      /\ Captures(w, "pool", {j}) /\ UNCHANGED <<session, injected, read>>

\* The pool's own job, once every batch has settled: consume, then unwatch.
EndPool(w, now) ==
  LET I == Ids(waiter[w].jobs)
  IN  /\ waiter[w].kind = "pool" /\ \A j \in waiter[w].jobs : m.job[j].ended
      /\ m' = Unwatch(Consume(m, I), I, now) /\ Reads(waiter[w].jobs)
      /\ Leaves(w) /\ UNCHANGED <<session, injected>>

-----------------------------------------------------------------------------
(* The owner's session.                                                    *)

\* Sink calls that still format belong to the old generation; entries on the cleared
\* yield queue are rejected.
Superseded(s) ==
  [s EXCEPT !.dlv = [d \in Delivery |->
     CASE s.dlv[d] = "formatting" -> "outdated"
       [] s.dlv[d] = "parked" -> "err"
       [] OTHER -> s.dlv[d]]]

\* #cancelOwnAsyncJobs
CancelOwn(s) == Superseded(EvictCompleted(CancelJobs(s, Rows(s))))

\* The session's run is aborted first.  A wait then only unwatches and a cell throws;
\* vibe_wait and the handoff report what they find, a work pool's job ends by itself.
Aborted == [w \in Waiter |->
  CASE waiter[w].kind = "wait" -> [waiter[w] EXCEPT !.kind = "aborted"]
    [] waiter[w].kind = "cell" -> NotWaiting
    [] OTHER -> waiter[w]]

\* /new, a switch or a branch replaces the transcript.
NewSession ==
  /\ session = "open"
  /\ m' = CancelOwn(m)
  /\ waiter' = Aborted
  /\ UNCHANGED <<session, injected, read>>

\* beginDispose clears the yield queue; its sink returns at once from now on.
BeginDispose ==
  /\ session = "open" /\ session' = "disposing"
  /\ m' = Superseded(m)
  /\ UNCHANGED <<waiter, injected, read>>

\* #disposeOwnedAsyncJobs of a subagent's session.
FinishDispose ==
  /\ session = "disposing" /\ session' = "gone"
  /\ m' = CancelOwn([m EXCEPT !.sink = FALSE])
  /\ waiter' = Aborted
  /\ UNCHANGED <<injected, read>>

\* The owner is revived: a new session registers its sink.
Reopen ==
  /\ session = "gone" /\ session' = "open"
  /\ m' = [m EXCEPT !.sink = TRUE]
  /\ UNCHANGED <<waiter, injected, read>>

-----------------------------------------------------------------------------

JobStep == \E j \in Job :
  \/ \E fore \in BOOLEAN : Register(j, fore)
  \/ \E outcome \in {"completed", "failed"}, acked \in BOOLEAN, now \in {{}, {j}} :
       Settle(j, outcome, acked, now)
  \/ Cancel(j)
  \/ \E now \in {{}, {j}} : Background(j, now)
  \/ \E aborted \in BOOLEAN : ForegroundDone(j, aborted)

DeliveryStep == \E d \in Delivery :
  DeliveryLoop(d) \/ Formatted(d) \/ Flush(d) \/ Commit(d) \/ Reject(d)
  \/ Delivered(d) \/ DeliveryFailed(d)

WaiterStep == \E w \in Waiter :
  \/ StartWait(w) \/ EndCell(w) \/ AbortCell(w)
  \/ \E j \in Job : StartPool(w, j)
  \/ \E j \in Job, kind \in {"vibe", "sidekick"} : StartHold(w, kind, j)
  \/ \E J \in SUBSET Job : StartCell(w, J)
  \/ \E now \in SUBSET waiter[w].jobs :
       \/ EndWait(w, now) \/ InterruptWait(w, now)
       \/ EndVibe(w, now) \/ EndSidekick(w, now) \/ EndPool(w, now)

SessionStep == NewSession \/ BeginDispose \/ FinishDispose \/ Reopen

Next == JobStep \/ DeliveryStep \/ (\E i \in Id : TimerFires(i)) \/ WaiterStep \/ SessionStep

Spec == Init /\ [][Next]_vars

\* The event loop: microtasks run, armed timers fire, the delivery loop and the format
\* step go on, and the session flushes its yield queue and settles what it picked.
\* Nothing makes a run or a foreground call end.
LoopSpec ==
  /\ Spec
  /\ \A i \in Id : SF_vars(TimerFires(i))
  /\ \A d \in Delivery :
       /\ WF_vars(DeliveryLoop(d)) /\ WF_vars(Delivered(d)) /\ WF_vars(DeliveryFailed(d))
       /\ WF_vars(Formatted(d)) /\ WF_vars(Flush(d)) /\ WF_vars(Commit(d) \/ Reject(d))

-----------------------------------------------------------------------------
(* Safety.                                                                 *)

\* A job never has two deliveries at once, although settling, promoting, unwatching
\* and retrying all enqueue one: the same result would be injected twice.
OneDelivery ==
  \A j \in Job : m.dlv[<<j, 1>>] = "none" \/ m.dlv[<<j, 2>>] = "none"

\* The row of a job that has not ended is never taken away, and no timer of an earlier
\* object with its id is left to do it.
RunningRowIsKept ==
  \A j \in Job : m.job[j].st # "none" /\ ~m.job[j].ended =>
    m.row[IdOf[j]] = j /\ m.timer[IdOf[j]] = "none"

\* A job that backs a foreground call has no delivery on its way, whoever watches,
\* waits or settles meanwhile: the call returns that result itself.
ForegroundIsNotDelivered ==
  \A j \in Job : m.job[j].fore =>
    m.dlv[<<j, 1>>] = "none" /\ m.dlv[<<j, 2>>] = "none"

\* A settled result that nobody read, acknowledged or watches, and that did not lose
\* its owner's sink, has a delivery on its way.
ResultIsOnItsWay ==
  \A i \in Id : LET j == m.row[i] IN
    (HasRow(m, i) /\ Settled(m, j) /\ ~Suppressed(m, i) /\ i \notin m.consumed
     /\ j \notin m.dead) =>
    \E k \in 1..2 : m.dlv[<<j, k>>] # "none"

\* A result is inserted into the transcript at most once.
InjectedOnce == \A j \in Job : injected[j] <= 1

\* A result a foreground reader already returned is not put into a message again,
\* however long its delivery was parked and whatever became of its row.
NoReplay ==
  [][\A d \in Delivery : m.dlv[d] = "parked" /\ m'.dlv[d] = "picked" => d[1] \notin read]_vars

\* "a consumed result's parked delivery defers retention eviction" and nothing else
\* does: the row of an ended job goes away.
RowsAreEvicted ==
  \A j \in Job : (j \in Rows(m) /\ m.job[j].ended) ~> (j \notin Rows(m))

\* A result counts as consumed only once it was injected or a reader returned it, although
\* the readers consume ids and return the job objects they captured before they waited.
ConsumedWasSeen ==
  session = "open" =>
    \A i \in m.consumed : m.row[i] \in read \/ injected[m.row[i]] > 0
==============================================================================
