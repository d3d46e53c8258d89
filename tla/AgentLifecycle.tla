--------------------------- MODULE AgentLifecycle ---------------------------
(***************************************************************************)
(* The life of ONE agent id: the registry row behind it                    *)
(* (registry/agent-registry.ts), the manager that parks, revives and       *)
(* releases it (registry/agent-lifecycle.ts), the claim/attach/dispose     *)
(* protocol of createAgentSession (sdk.ts) and the finalizer of a          *)
(* subagent's run (task/executor.ts).                                      *)
(*                                                                         *)
(* The program is single threaded: an action is the code between two       *)
(* awaits.  Every promise other code waits for is a `pc` of the process    *)
(* that settles it; the step that settles it moves its waiters on.  Maps   *)
(* keyed by id never relate two ids, so one id is enough; the id is REUSED *)
(* by several generations (members of Ref, one AgentRef object each).      *)
(*                                                                         *)
(* Left out: AgentLifecycleManager.dispose and the `#disposed` checks that *)
(* only matter after it, history/activity/telemetry fields, the kinds      *)
(* "main" and "advisor", and the lifecycle milestones.                     *)
(***************************************************************************)
EXTENDS FiniteSets, Naturals

CONSTANTS Ref,        \* AgentRef objects: the generations of the id
          Session,    \* AgentSession objects
          Caller,     \* concurrent calls of ensureLive
          Releaser,   \* concurrent calls of release
          NoRef, NoSession

ASSUME NilAssumption == NoRef \notin Ref /\ NoSession \notin Session

VARIABLES
  reg,        \* the registry row of the id: #refs.get(id), or NoRef
  status,     \* status[r] of the AgentRef object r ("none": not created yet)
  sess,       \* r.session, or NoSession
  life,       \* the life of a session object
  owner,      \* the ref a session object was built for
  hooked,     \* sessions whose dispose runs unregisterUnlessParked
  mirrored,   \* sessions whose run state syncSessionStatus mirrors
  streaming,  \* sessions with a turn in flight
  adopted,    \* #adopted.get(id)
  park,       \* #parks.get(id)
  revival,    \* the #resolveAndRevive promise of each ref
  inflight,   \* the ref of #revivals.get(id)
  caller,     \* the ensureLive calls
  release,    \* the release calls
  run         \* the run that spawned each ref, up to its finalizer

sessionVars == <<life, owner, hooked, mirrored, streaming>>
vars == <<reg, status, sess, life, owner, hooked, mirrored, streaming,
          adopted, park, revival, inflight, caller, release, run>>

OptRef     == Ref \cup {NoRef}
OptSession == Session \cup {NoSession}

Status    == {"none", "running", "idle", "parked", "aborted"}
Life      == {"none", "building", "live", "disposing", "disposed"}
Adoption  == [ref: OptRef, hot: BOOLEAN, cold: BOOLEAN, owns: BOOLEAN, timer: BOOLEAN]
Park      == [ref: OptRef, ses: OptSession, cancelled: BOOLEAN, detached: BOOLEAN]
Revival   == [pc: {"none", "factory", "build", "opened", "claimed", "attached", "disposing"},
              ses: OptSession, cold: BOOLEAN]
Call      == [pc: {"idle", "cancelWait", "cancelDone", "parkWait", "parkDone", "reviveWait", "got"},
              ref: OptRef, ses: OptSession]
Release   == [pc: {"idle", "parkWait", "parkDone", "persist", "dispose", "cleanup"},
              ref: OptRef, ses: OptSession, tomb: BOOLEAN, owns: BOOLEAN]
Run       == [pc: {"none", "probing", "retry", "claimed", "attached", "running", "tearDown", "done"},
              ref: OptRef, ses: OptSession]

NotAdopted == [ref |-> NoRef, hot |-> FALSE, cold |-> FALSE, owns |-> FALSE, timer |-> FALSE]
NotParking == [ref |-> NoRef, ses |-> NoSession, cancelled |-> FALSE, detached |-> FALSE]
NoRevival  == [pc |-> "none", ses |-> NoSession, cold |-> FALSE]
NoCall     == [pc |-> "idle", ref |-> NoRef, ses |-> NoSession]
NoRelease  == [pc |-> "idle", ref |-> NoRef, ses |-> NoSession, tomb |-> FALSE, owns |-> FALSE]
NoRun      == [pc |-> "none", ref |-> NoRef, ses |-> NoSession]

TypeOK ==
  /\ reg \in OptRef
  /\ status \in [Ref -> Status]
  /\ sess \in [Ref -> OptSession]
  /\ life \in [Session -> Life]
  /\ owner \in [Session -> OptRef]
  /\ hooked \subseteq Session /\ mirrored \subseteq Session /\ streaming \subseteq Session
  /\ adopted \in Adoption
  /\ park \in Park
  /\ revival \in [Ref -> Revival]
  /\ inflight \in OptRef
  /\ caller \in [Caller -> Call]
  /\ release \in [Releaser -> Release]
  /\ run \in [Ref -> Run]

Init ==
  /\ reg = NoRef
  /\ status = [r \in Ref |-> "none"]
  /\ sess = [r \in Ref |-> NoSession]
  /\ life = [s \in Session |-> "none"]
  /\ owner = [s \in Session |-> NoRef]
  /\ hooked = {} /\ mirrored = {} /\ streaming = {}
  /\ adopted = NotAdopted
  /\ park = NotParking
  /\ revival = [r \in Ref |-> NoRevival]
  /\ inflight = NoRef
  /\ caller = [c \in Caller |-> NoCall]
  /\ release = [x \in Releaser |-> NoRelease]
  /\ run = [r \in Ref |-> NoRun]

-----------------------------------------------------------------------------
(* The registry and the events the manager subscribes to.                  *)

\* #onRegistryEvent on status_changed: running disarms the TTL timer, idle arms
\* it unless a park is in flight; only the adoption bound to the very ref reacts.
OnStatus(r, st) ==
  IF adopted.ref # r THEN adopted
  ELSE IF st = "running" THEN [adopted EXCEPT !.timer = FALSE]
  ELSE IF st = "idle" /\ park.ref = NoRef THEN [adopted EXCEPT !.timer = TRUE]
  ELSE adopted

\* #onRegistryEvent on removed.
OnRemoved(r) == IF adopted.ref = r THEN NotAdopted ELSE adopted

\* registry.get(id)?.session
LiveSession == IF reg = NoRef THEN NoSession ELSE sess[reg]

\* A settled promise has its waiters resumed, and a park has its one microtask of
\* grace, before a timer or settled I/O starts the next piece of code: only code of
\* the same tick comes in between.
Settled(s) == s # NoSession /\ life[s] = "disposed"

NewTask ==
  /\ park.ref # NoRef => park.detached /\ ~Settled(park.ses)
  /\ \A c \in Caller : caller[c].pc \notin {"cancelDone", "parkDone"}
  /\ \A x \in Releaser :
       /\ release[x].pc # "parkDone"
       /\ ~(release[x].pc = "cleanup" /\ ~release[x].owns)
       /\ ~(release[x].pc = "dispose" /\ Settled(release[x].ses))
  /\ \A r \in Ref : ~(revival[r].pc = "disposing" /\ Settled(revival[r].ses))

\* setStatus refuses a ref that is not registered and an `aborted` one.
CanSet(r) == reg = r /\ status[r] # "aborted"

\* setStatus of a registered, non-aborted ref; a no-op emits nothing.
SetStatus(r, st) ==
  /\ status' = [status EXCEPT ![r] = st]
  /\ adopted' = IF status[r] = st THEN adopted ELSE OnStatus(r, st)

\* Mutant: unregister(id) without comparing the ref.
UnregisterAnyRef(r) == reg' = NoRef /\ adopted' = OnRemoved(reg)

\* unregister(id, r): compare-and-delete.
Unregister(r) ==
  IF reg = r THEN reg' = NoRef /\ adopted' = OnRemoved(r)
             ELSE UNCHANGED <<reg, adopted>>

Parking(r) == park.ref = r /\ ~park.cancelled      \* isParking(id, r)

\* Mutant: the hook spares the id of any park in flight, whoever it parks.
HookRemovesUnlessAnyPark(r) ==
  /\ reg = r
  /\ status[r] # "parked"
  /\ ~(status[r] = "aborted" /\ sess[r] = NoSession)
  /\ park.ref = NoRef

\* unregisterUnlessParked, the hook a session runs when its dispose settles.
HookRemoves(r) ==
  /\ reg = r
  /\ status[r] # "parked"
  /\ ~(status[r] = "aborted" /\ sess[r] = NoSession)
  /\ ~Parking(r)

\* A session object nothing refers to any more stands for a new one.
Fresh(s) ==
  /\ life[s] \in {"none", "disposed"}
  /\ \A r \in Ref : s \notin {sess[r], revival[r].ses, run[r].ses}
  /\ \A c \in Caller : caller[c].ses # s
  /\ \A x \in Releaser : release[x].ses # s
  /\ park.ses # s

\* session.dispose(): concurrent calls share one promise; a repeated call of a
\* disposed session settles at once, and runs the hook again.
Disposing(s) == [life EXCEPT ![s] = "disposing"]

-----------------------------------------------------------------------------
(* Registration: a spawn, a restored transcript, and what the spawn's run  *)
(* does with its session until the finalizer hands it to the manager.      *)

Unborn(r) == status[r] = "none" /\ run[r].pc = "none"

\* register(): a new AgentRef object takes the id.
Register(r, st) ==
  /\ reg = NoRef
  /\ reg' = r
  /\ status' = [status EXCEPT ![r] = st]

\* The persisted-agents scan registers a transcript: parked, or aborted if its
\* tombstone file exists.  It is not adopted.
RestoreRegisters(r, st) ==
  /\ NewTask
  /\ Unborn(r)
  /\ Register(r, st)
  /\ UNCHANGED <<sess, sessionVars, adopted, park, revival, inflight, caller, release, run>>

\* The scan of another root session replaces the parked ref the id still has there.
RestoreReplaces(r, st) ==
  /\ NewTask
  /\ Unborn(r)
  /\ reg # NoRef /\ status[reg] = "parked" /\ sess[reg] = NoSession
  /\ reg' = r
  /\ status' = [status EXCEPT ![r] = st]
  /\ adopted' = OnRemoved(reg)
  /\ UNCHANGED <<sess, sessionVars, park, revival, inflight, caller, release, run>>

\* registerIfAvailable(input, null) of a fresh spawn succeeds.
SpawnClaims(r) ==
  /\ NewTask
  /\ run[r].pc = "retry" \/ Unborn(r)
  /\ Register(r, "running")
  /\ run' = [run EXCEPT ![r] = [NoRun EXCEPT !.pc = "claimed"]]
  /\ UNCHANGED <<sess, sessionVars, adopted, park, revival, inflight, caller, release>>

\* reclaimDeadCorpse's conditions: a parked row no operation owns.
Corpse(c) ==
  /\ c # NoRef /\ reg = c
  /\ status[c] = "parked" /\ sess[c] = NoSession
  /\ adopted.ref = NoRef /\ park.ref = NoRef /\ inflight = NoRef

\* A spawn collides with a parked corpse and probes whether it can be revived.
SpawnProbes(r) ==
  /\ NewTask
  /\ Unborn(r)
  /\ Corpse(reg)
  /\ run' = [run EXCEPT ![r] = [NoRun EXCEPT !.pc = "probing", !.ref = reg]]
  /\ UNCHANGED <<reg, status, sess, sessionVars, adopted, park, revival, inflight, caller, release>>

\* The probe answers "not revivable" and every condition still holds.
SpawnReclaims(r) ==
  /\ NewTask
  /\ run[r].pc = "probing"
  /\ Corpse(run[r].ref)
  /\ Unregister(run[r].ref)
  /\ run' = [run EXCEPT ![r] = [NoRun EXCEPT !.pc = "retry"]]
  /\ UNCHANGED <<status, sess, sessionVars, park, revival, inflight, caller, release>>

\* The probe finds a reviver or fails, a condition no longer holds, or the id
\* was taken again: the spawn is refused.
SpawnRefused(r) ==
  /\ NewTask
  /\ run[r].pc = "probing" \/ (run[r].pc = "retry" /\ reg # NoRef)
  /\ run' = [run EXCEPT ![r] = NoRun]
  /\ UNCHANGED <<reg, status, sess, sessionVars, adopted, park, revival, inflight, caller, release>>

\* createAgentSession fails before it has a session.
SpawnFails(r) ==
  /\ NewTask
  /\ run[r].pc = "claimed"
  /\ IF HookRemoves(r) THEN Unregister(r) ELSE UNCHANGED <<reg, adopted>>
  /\ run' = [run EXCEPT ![r].pc = "done"]
  /\ UNCHANGED <<status, sess, sessionVars, park, revival, inflight, caller, release>>

\* Mutant: attachSession forgets that `aborted` is terminal.
AttachableTombstone(r) == reg = r

\* attachSession refuses a ref that is not registered and a tombstone.
Attachable(r) == reg = r /\ status[r] # "aborted"

\* The spawned session is built and attached; a refused one is disposed.
SpawnAttaches(r, s) ==
  /\ NewTask
  /\ run[r].pc = "claimed" /\ Fresh(s)
  /\ owner' = [owner EXCEPT ![s] = r]
  /\ hooked' = hooked \cup {s}
  /\ IF Attachable(r)
     THEN /\ sess' = [sess EXCEPT ![r] = s]
          /\ SetStatus(r, "running")
          /\ life' = [life EXCEPT ![s] = "live"]
          /\ run' = [run EXCEPT ![r].pc = "attached", ![r].ses = s]
     ELSE /\ life' = [life EXCEPT ![s] = "disposing"]
          /\ run' = [run EXCEPT ![r].pc = "done"]
          /\ UNCHANGED <<sess, status, adopted>>
  /\ UNCHANGED <<reg, mirrored, streaming, park, revival, inflight, caller, release>>

\* createAgentSession has returned: syncSessionStatus subscribes.
RunStarts(r) ==
  /\ NewTask
  /\ run[r].pc = "attached"
  /\ run' = [run EXCEPT ![r].pc = "running"]
  /\ mirrored' = mirrored \cup {run[r].ses}
  /\ UNCHANGED <<reg, status, sess, life, owner, hooked, streaming, adopted, park, revival,
                 inflight, caller, release>>

\* createAgentSession fails after it attached the session.
SpawnFailsLate(r) ==
  /\ NewTask
  /\ run[r].pc = "attached"
  /\ life' = Disposing(run[r].ses)
  /\ run' = [run EXCEPT ![r].pc = "tearDown"]
  /\ UNCHANGED <<reg, status, sess, owner, hooked, mirrored, streaming, adopted, park, revival,
                 inflight, caller, release>>

\* markResultAccepted(id, session): idle unless a turn is in flight.
ResultAccepted(r) ==
  /\ NewTask
  /\ run[r].pc = "running"
  /\ reg = r /\ sess[r] = run[r].ses /\ status[r] = "running" /\ run[r].ses \notin streaming
  /\ SetStatus(r, "idle")
  /\ UNCHANGED <<reg, sess, sessionVars, park, revival, inflight, caller, release, run>>

-----------------------------------------------------------------------------
(* A session's turns and its disposal.                                     *)

\* The mirrored run state reaches the row while the row still holds the session.
Mirror(s, st) ==
  IF s \in mirrored /\ LiveSession = s /\ CanSet(reg)
  THEN SetStatus(reg, st)
  ELSE UNCHANGED <<status, adopted>>

TurnStarts(s) ==
  /\ NewTask
  /\ life[s] = "live" /\ s \notin streaming
  /\ streaming' = streaming \cup {s}
  /\ Mirror(s, "running")
  /\ UNCHANGED <<reg, sess, life, owner, hooked, mirrored, park, revival, inflight, caller, release, run>>

TurnEnds(s) ==
  /\ NewTask
  /\ s \in streaming
  /\ streaming' = streaming \ {s}
  /\ Mirror(s, "idle")
  /\ UNCHANGED <<reg, sess, life, owner, hooked, mirrored, park, revival, inflight, caller, release, run>>

\* The dispose promise settles and the dispose wrapper's hook runs.
DisposeSettles(s) ==
  /\ NewTask
  /\ life[s] = "disposing"
  /\ life' = [life EXCEPT ![s] = "disposed"]
  /\ mirrored' = mirrored \ {s} /\ streaming' = streaming \ {s}
  /\ IF s \in hooked /\ owner[s] # NoRef /\ HookRemoves(owner[s])
     THEN Unregister(owner[s])
     ELSE UNCHANGED <<reg, adopted>>
  /\ UNCHANGED <<status, sess, owner, hooked, park, revival, inflight, caller, release, run>>

-----------------------------------------------------------------------------
(* park: a TTL timer starts it; one await later it commits, then disposes. *)

\* The TTL timer fires with no background work pending, and park() starts: no-op
\* when a park runs already, or when the adopted ref is replaced or not live.
TimerParks ==
  /\ NewTask
  /\ adopted.timer
  /\ adopted' = [adopted EXCEPT !.timer = FALSE]
  /\ IF park.ref = NoRef /\ reg # NoRef /\ reg = adopted.ref /\ LiveSession # NoSession
     THEN park' = [NotParking EXCEPT !.ref = reg, !.ses = sess[reg]]
     ELSE UNCHANGED park
  /\ UNCHANGED <<reg, status, sess, sessionVars, revival, inflight, caller, release, run>>

\* Mutant: the park ends and the releases that awaited it are not resumed.
SettleParkForCallers ==
  /\ park' = NotParking
  /\ caller' = [c \in Caller |->
       CASE caller[c].pc = "cancelWait" -> [caller[c] EXCEPT !.pc = "cancelDone"]
         [] caller[c].pc = "parkWait"   -> [caller[c] EXCEPT !.pc = "parkDone"]
         [] OTHER                       -> caller[c]]
  /\ UNCHANGED release

\* The park promise settles: the calls that awaited it go on.
SettlePark ==
  /\ park' = NotParking
  /\ caller' = [c \in Caller |->
       CASE caller[c].pc = "cancelWait" -> [caller[c] EXCEPT !.pc = "cancelDone"]
         [] caller[c].pc = "parkWait"   -> [caller[c] EXCEPT !.pc = "parkDone"]
         [] OTHER                       -> caller[c]]
  /\ release' = [x \in Releaser |->
       IF release[x].pc = "parkWait" THEN [release[x] EXCEPT !.pc = "parkDone"] ELSE release[x]]

\* What park re-checks after its await.
ParkStillValid ==
  /\ ~park.cancelled
  /\ reg = park.ref /\ sess[park.ref] = park.ses /\ park.ses # NoSession
  /\ adopted.ref = park.ref

\* Cancelled, or the ref or its session was replaced: the park ends as a no-op.
ParkGivesUp ==
  /\ park.ref # NoRef /\ ~park.detached
  /\ ~ParkStillValid
  /\ SettlePark
  /\ UNCHANGED <<reg, status, sess, sessionVars, adopted, revival, inflight, run>>

\* Mutant: the park disposes the session and leaves it attached.
ParkCommitsAttached ==
  /\ park.ref # NoRef /\ ~park.detached
  /\ ParkStillValid
  /\ park' = [park EXCEPT !.detached = TRUE]
  /\ IF CanSet(park.ref) THEN SetStatus(park.ref, "parked") ELSE UNCHANGED <<status, adopted>>
  /\ life' = Disposing(park.ses)
  /\ UNCHANGED <<reg, sess, owner, hooked, mirrored, streaming, revival, inflight, caller, release, run>>

\* Detach, publish `parked`, then call dispose: one step, in this order.
ParkCommits ==
  /\ park.ref # NoRef /\ ~park.detached
  /\ ParkStillValid
  /\ park' = [park EXCEPT !.detached = TRUE]
  /\ sess' = [sess EXCEPT ![park.ref] = NoSession]
  /\ IF CanSet(park.ref) THEN SetStatus(park.ref, "parked") ELSE UNCHANGED <<status, adopted>>
  /\ life' = Disposing(park.ses)
  /\ UNCHANGED <<reg, owner, hooked, mirrored, streaming, revival, inflight, caller, release, run>>

\* The dispose settled, or failed: the park ends.
ParkEnds ==
  /\ park.detached /\ Settled(park.ses)
  /\ SettlePark
  /\ UNCHANGED <<reg, status, sess, sessionVars, adopted, revival, inflight, run>>

-----------------------------------------------------------------------------
(* ensureLive and the revival it shares.                                   *)

\* Mutant: ensureLive answers with the ref instead of its session.
GotRef(s) == [NoCall EXCEPT !.pc = "got", !.ref = reg, !.ses = reg]

Got(s)     == [NoCall EXCEPT !.pc = "got", !.ses = s]
Waits(r)   == [NoCall EXCEPT !.pc = "reviveWait", !.ref = r]

\* Mutant: only the registered ref's callers hear of the outcome.
TellRegistered(r, answer) ==
  caller' = [c \in Caller |->
    IF caller[c].pc = "reviveWait" /\ caller[c].ref = reg THEN answer ELSE caller[c]]

\* The calls that share the revival of r are told its outcome.
Tell(r, answer) ==
  caller' = [c \in Caller |->
    IF caller[c].pc = "reviveWait" /\ caller[c].ref = r THEN answer ELSE caller[c]]

\* Mutant: the revival clears #revivals without comparing the entry.
DequeuedAny(r) == NoRef

Dequeued(r) == IF inflight = r THEN NoRef ELSE inflight

\* The adoption of r carries a reviver.
Revivable(r) == adopted.ref = r /\ adopted.hot

\* #resolveAndRevive up to its first await: the adopted reviver, or else the
\* persisted factory; only a parked ref gets that far.
StartRevival(r, c) ==
  IF status[r] = "parked"
  THEN /\ revival' = [revival EXCEPT ![r] =
                        [NoRevival EXCEPT !.pc = IF Revivable(r) THEN "build" ELSE "factory"]]
       /\ inflight' = r
       /\ caller' = [caller EXCEPT ![c] = Waits(r)]
  ELSE /\ inflight' = NoRef
       /\ caller' = [caller EXCEPT ![c] = NoCall]
       /\ UNCHANGED revival

\* ensureLive from `const ref = this.#registry.get(id)` on.
Resolve(c) ==
  \/ /\ reg = NoRef
     /\ caller' = [caller EXCEPT ![c] = NoCall]
     /\ UNCHANGED <<revival, inflight>>
  \/ /\ LiveSession # NoSession
     /\ caller' = [caller EXCEPT ![c] = Got(LiveSession)]
     /\ UNCHANGED <<revival, inflight>>
  \/ /\ reg # NoRef /\ LiveSession = NoSession /\ inflight = reg
     /\ caller' = [caller EXCEPT ![c] = Waits(reg)]
     /\ UNCHANGED <<revival, inflight>>
  \/ /\ reg # NoRef /\ LiveSession = NoSession /\ inflight # reg
     /\ StartRevival(reg, c)

\* Mutant: ensureLive does not look for a park in flight.
EnsureLiveIgnoringPark(c) ==
  /\ caller[c].pc = "idle"
  /\ Resolve(c)
  /\ UNCHANGED <<reg, status, sess, sessionVars, adopted, park, release, run>>

\* ensureLive(id) with no park in flight.
EnsureLive(c) ==
  /\ caller[c].pc = "idle" /\ park.ref = NoRef
  /\ Resolve(c)
  /\ UNCHANGED <<reg, status, sess, sessionVars, adopted, park, release, run>>

\* ensureLive(id) cancels a park that has not detached the session yet.
EnsureLiveCancelsPark(c) ==
  /\ caller[c].pc = "idle" /\ park.ref # NoRef
  /\ LiveSession # NoSession /\ ~park.detached
  /\ park' = [park EXCEPT !.cancelled = TRUE]
  /\ caller' = [caller EXCEPT ![c] = [NoCall EXCEPT !.pc = "cancelWait", !.ref = reg]]
  /\ UNCHANGED <<reg, status, sess, sessionVars, adopted, revival, inflight, release, run>>

\* ensureLive(id) waits for a park that is past the point of no return.
EnsureLiveWaits(c) ==
  /\ caller[c].pc = "idle" /\ park.ref # NoRef
  /\ LiveSession = NoSession \/ park.detached
  /\ caller' = [caller EXCEPT ![c] = [NoCall EXCEPT !.pc = "parkWait"]]
  /\ UNCHANGED <<reg, status, sess, sessionVars, adopted, park, revival, inflight, release, run>>

\* Mutant: the idle timer the park cleared is not armed again.
KeepsSessionUnarmed(c) ==
  /\ caller[c].pc = "cancelDone" /\ LiveSession # NoSession
  /\ caller' = [caller EXCEPT ![c] = Got(LiveSession)]
  /\ UNCHANGED <<reg, status, sess, sessionVars, adopted, park, revival, inflight, release, run>>

\* The cancelled park settled: keep its session and re-arm the idle timer.
KeepsSession(c) ==
  /\ caller[c].pc = "cancelDone" /\ LiveSession # NoSession
  /\ caller' = [caller EXCEPT ![c] = Got(LiveSession)]
  /\ adopted' = IF adopted.ref = caller[c].ref /\ adopted.ref # NoRef /\ status[adopted.ref] = "idle"
                THEN [adopted EXCEPT !.timer = TRUE] ELSE adopted
  /\ UNCHANGED <<reg, status, sess, sessionVars, park, revival, inflight, release, run>>

\* The awaited park settled (or left no session to keep): resolve afresh.
ResolvesAfterPark(c) ==
  /\ \/ caller[c].pc = "parkDone"
     \/ caller[c].pc = "cancelDone" /\ LiveSession = NoSession
  /\ Resolve(c)
  /\ UNCHANGED <<reg, status, sess, sessionVars, adopted, park, release, run>>

\* The caller is done with what it got.
CallerReturns(c) ==
  /\ caller[c].pc = "got"
  /\ caller' = [caller EXCEPT ![c] = NoCall]
  /\ UNCHANGED <<reg, status, sess, sessionVars, adopted, park, revival, inflight, release, run>>

-----------------------------------------------------------------------------
(* The revival of a parked ref: #resolveAndRevive, #revive, and the reviver *)
(* (createAgentSession with expectedAgentRef) it awaits.                    *)

\* The revival promise of r settles with an answer for every call that shares it.
Settle(r, answer) ==
  /\ revival' = [revival EXCEPT ![r] = NoRevival]
  /\ inflight' = Dequeued(r)
  /\ Tell(r, answer)

\* A failed #revive takes a cold adoption with it.
DropCold(r) ==
  adopted' = IF revival[r].cold /\ adopted.ref = r /\ adopted.cold THEN NotAdopted ELSE adopted

\* The persisted factory declines or throws.
FactoryDeclines(r) ==
  /\ NewTask
  /\ revival[r].pc = "factory"
  /\ Settle(r, NoCall)
  /\ UNCHANGED <<reg, status, sess, sessionVars, adopted, park, release, run>>

\* The persisted factory returns a reviver: adopt it, then look whether the ref
\* is still the parked one; refusing it here leaves the cold adoption behind.
FactoryResolves(r) ==
  /\ NewTask
  /\ revival[r].pc = "factory"
  /\ adopted' = [ref |-> r, hot |-> TRUE, cold |-> TRUE, owns |-> FALSE, timer |-> FALSE]
  /\ IF reg = r /\ status[r] = "parked"
     THEN /\ revival' = [revival EXCEPT ![r].pc = "build", ![r].cold = TRUE]
          /\ UNCHANGED <<inflight, caller>>
     ELSE Settle(r, NoCall)
  /\ UNCHANGED <<reg, status, sess, sessionVars, park, release, run>>

\* The reviver opens the transcript for a new session object.
ReviverOpens(r, s) ==
  /\ NewTask
  /\ revival[r].pc = "build" /\ Fresh(s)
  /\ life' = [life EXCEPT ![s] = "building"]
  /\ owner' = [owner EXCEPT ![s] = r]
  /\ hooked' = hooked \ {s}
  /\ revival' = [revival EXCEPT ![r].pc = "opened", ![r].ses = s]
  /\ UNCHANGED <<reg, status, sess, mirrored, streaming, adopted, park, inflight, caller, release, run>>

\* registerIfAvailable(input, r): the exact parked ref, still without a session.
ReviverClaims(r) ==
  /\ NewTask
  /\ revival[r].pc = "opened"
  /\ reg = r /\ status[r] = "parked" /\ sess[r] = NoSession
  /\ revival' = [revival EXCEPT ![r].pc = "claimed"]
  /\ UNCHANGED <<reg, status, sess, sessionVars, adopted, park, inflight, caller, release, run>>

\* The reviver fails before a session exists: the transcript cannot be opened,
\* the claim is refused, or construction throws.
ReviverFails(r) ==
  /\ NewTask
  /\ revival[r].pc \in {"build", "opened", "claimed"}
  /\ life' = [s \in Session |-> IF s = revival[r].ses THEN "disposed" ELSE life[s]]
  /\ DropCold(r)
  /\ Settle(r, NoCall)
  /\ UNCHANGED <<reg, status, sess, owner, hooked, mirrored, streaming, park, release, run>>

\* attachSession and setStatus("running") of the finished session; a ref that was
\* killed or replaced meanwhile is refused, and the new session disposed.
ReviverAttaches(r) ==
  LET s == revival[r].ses IN
  /\ NewTask
  /\ revival[r].pc = "claimed"
  /\ IF Attachable(r)
     THEN /\ sess' = [sess EXCEPT ![r] = s]
          /\ SetStatus(r, "running")
          /\ life' = [life EXCEPT ![s] = "live"]
          /\ hooked' = hooked \cup {s}
          /\ revival' = [revival EXCEPT ![r].pc = "attached"]
     ELSE /\ life' = Disposing(s)
          /\ revival' = [revival EXCEPT ![r].pc = "disposing"]
          /\ UNCHANGED <<sess, status, adopted, hooked>>
  /\ UNCHANGED <<reg, owner, mirrored, streaming, park, inflight, caller, release, run>>

\* createAgentSession throws after it attached the session: it disposes it.
ReviverFailsLate(r) ==
  /\ NewTask
  /\ revival[r].pc = "attached"
  /\ life' = Disposing(revival[r].ses)
  /\ revival' = [revival EXCEPT ![r].pc = "disposing"]
  /\ UNCHANGED <<reg, status, sess, owner, hooked, mirrored, streaming, adopted, park, inflight,
                 caller, release, run>>

\* The reviver throws after createAgentSession returned: nothing is undone.
ReviverThrows(r) ==
  /\ NewTask
  /\ revival[r].pc = "attached"
  /\ DropCold(r)
  /\ Settle(r, NoCall)
  /\ UNCHANGED <<reg, status, sess, sessionVars, park, release, run>>

\* The reviver returns the session it attached and #revive accepts it only if the
\* ref is still the running row of that very session.
RevivalEnds(r) ==
  LET s == revival[r].ses IN
  /\ NewTask
  /\ revival[r].pc = "attached"
  /\ mirrored' = mirrored \cup {s}
  /\ IF reg = r /\ status[r] = "running" /\ sess[r] = s
     THEN /\ SetStatus(r, "idle")
          /\ Settle(r, Got(s))
          /\ UNCHANGED life
     ELSE /\ life' = Disposing(s)
          /\ revival' = [revival EXCEPT ![r].pc = "disposing"]
          /\ UNCHANGED <<status, adopted, inflight, caller>>
  /\ UNCHANGED <<reg, sess, owner, hooked, streaming, park, release, run>>

\* The refused session is disposed and the revival rejects.
RevivalRejects(r) ==
  /\ revival[r].pc = "disposing" /\ Settled(revival[r].ses)
  /\ DropCold(r)
  /\ Settle(r, NoCall)
  /\ UNCHANGED <<reg, status, sess, sessionVars, park, release, run>>

-----------------------------------------------------------------------------
(* release: a kill (tombstone) or a removal of the id, and the finalizer.  *)

\* Mutant: the tombstone is published without detaching the session.
CaptureAttached(x, r, tomb, owns) ==
  LET live == IF reg = r THEN sess[r] ELSE NoSession IN
  /\ status' = IF tomb /\ reg = r THEN [status EXCEPT ![r] = "aborted"] ELSE status
  /\ life' = IF ~tomb /\ live # NoSession THEN Disposing(live) ELSE life
  /\ release' = [release EXCEPT ![x] =
       [pc |-> IF tomb THEN "persist" ELSE IF live # NoSession THEN "dispose" ELSE "cleanup",
        ref |-> r, ses |-> live, tomb |-> tomb, owns |-> owns]]
  /\ UNCHANGED sess

\* From `const live = ...` up to the next await.
Capture(x, r, tomb, owns) ==
  LET live == IF reg = r THEN sess[r] ELSE NoSession IN
  /\ IF tomb /\ reg = r
     THEN /\ sess' = [sess EXCEPT ![r] = NoSession]
          /\ status' = [status EXCEPT ![r] = "aborted"]
     ELSE UNCHANGED <<sess, status>>
  /\ life' = IF ~tomb /\ live # NoSession THEN Disposing(live) ELSE life
  /\ release' = [release EXCEPT ![x] =
       [pc |-> IF tomb THEN "persist" ELSE IF live # NoSession THEN "dispose" ELSE "cleanup",
        ref |-> r, ses |-> live, tomb |-> tomb, owns |-> owns]]

\* release(id, r): drop the adoption and its timer; a park of r is cancelled while
\* its session is attached, and awaited.
BeginRelease(x, r, tomb) ==
  LET owns == adopted.ref = r /\ adopted.owns IN
  /\ release[x].pc = "idle"
  /\ adopted' = OnRemoved(r)
  /\ IF park.ref = r
     THEN /\ park' = [park EXCEPT !.cancelled = @ \/ ~park.detached]
          /\ release' = [release EXCEPT ![x] =
               [pc |-> "parkWait", ref |-> r, ses |-> NoSession, tomb |-> tomb, owns |-> owns]]
          /\ UNCHANGED <<sess, status, life>>
     ELSE UNCHANGED park /\ Capture(x, r, tomb, owns)

\* A kill or a removal from outside: the registered ref, or else one that is only
\* adopted any more.
Releases(x, tomb) ==
  /\ reg # NoRef \/ adopted.ref # NoRef
  /\ BeginRelease(x, IF reg # NoRef THEN reg ELSE adopted.ref, tomb)
  /\ UNCHANGED <<reg, owner, hooked, mirrored, streaming, revival, inflight, caller, run>>

\* The awaited park settled.
ReleaseCaptures(x) ==
  /\ release[x].pc = "parkDone"
  /\ Capture(x, release[x].ref, release[x].tomb, release[x].owns)
  /\ UNCHANGED <<reg, owner, hooked, mirrored, streaming, adopted, park, revival, inflight, caller, run>>

\* The tombstone file is written, or its write failed: dispose the captured session.
ReleasePersisted(x) ==
  LET live == release[x].ses IN
  /\ NewTask
  /\ release[x].pc = "persist"
  /\ life' = IF live # NoSession THEN Disposing(live) ELSE life
  /\ release' = [release EXCEPT ![x].pc = IF live # NoSession THEN "dispose" ELSE "cleanup"]
  /\ UNCHANGED <<reg, status, sess, owner, hooked, mirrored, streaming, adopted, park, revival,
                 inflight, caller, run>>

\* The dispose settled: release what the agent owned (onRelease).
ReleaseDisposed(x) ==
  /\ release[x].pc = "dispose" /\ Settled(release[x].ses)
  /\ release' = [release EXCEPT ![x].pc = "cleanup"]
  /\ UNCHANGED <<reg, status, sess, sessionVars, adopted, park, revival, inflight, caller, run>>

\* onRelease settled (at once if the agent owns nothing): only now is the row of a removal unregistered.
ReleaseEnds(x) ==
  /\ release[x].pc = "cleanup" /\ (release[x].owns => NewTask)
  /\ IF release[x].tomb THEN UNCHANGED <<reg, adopted>> ELSE Unregister(release[x].ref)
  /\ release' = [release EXCEPT ![x] = NoRelease]
  /\ UNCHANGED <<status, sess, sessionVars, park, revival, inflight, caller, run>>

\* finalizeSubagentLifecycle of the run of r: does the row still hold its session?
OwnsRow(r) == LiveSession = run[r].ses

\* The finished agent is kept: idle, and adopted by the manager.
FinalizeKept(r, hot, owns) ==
  /\ NewTask
  /\ run[r].pc = "running" /\ OwnsRow(r) /\ CanSet(reg)
  /\ status' = [status EXCEPT ![reg] = "idle"]
  /\ adopted' = [ref |-> reg, hot |-> hot, cold |-> FALSE, owns |-> owns, timer |-> TRUE]
  /\ run' = [run EXCEPT ![r] = [NoRun EXCEPT !.pc = "done"]]
  /\ UNCHANGED <<reg, sess, sessionVars, park, revival, inflight, caller, release>>

\* The run was killed (tombstone), or its job manager shuts down (removal).
FinalizeAborted(r, x, tomb) ==
  /\ NewTask
  /\ run[r].pc = "running" /\ OwnsRow(r)
  /\ BeginRelease(x, reg, tomb)
  /\ run' = [run EXCEPT ![r] = [NoRun EXCEPT !.pc = "done"]]
  /\ UNCHANGED <<reg, owner, hooked, mirrored, streaming, revival, inflight, caller>>

\* The row is no longer the run's, or the helper is one-shot: dispose the session.
FinalizeDisposes(r) ==
  /\ NewTask
  /\ run[r].pc = "running"
  /\ life' = Disposing(run[r].ses)
  /\ run' = [run EXCEPT ![r].pc = "tearDown", ![r].ref = IF OwnsRow(r) THEN reg ELSE NoRef]
  /\ UNCHANGED <<reg, status, sess, owner, hooked, mirrored, streaming, adopted, park, revival,
                 inflight, caller, release>>

\* The dispose settled or the cleanup deadline passed: unregister a one-shot's row.
FinalizeUnregisters(r) ==
  /\ NewTask
  /\ run[r].pc = "tearDown"
  /\ Unregister(run[r].ref)
  /\ run' = [run EXCEPT ![r] = [NoRun EXCEPT !.pc = "done"]]
  /\ UNCHANGED <<status, sess, sessionVars, park, revival, inflight, caller, release>>

-----------------------------------------------------------------------------
SpawnStep(r) ==
  \/ \E st \in {"parked", "aborted"} : RestoreRegisters(r, st) \/ RestoreReplaces(r, st)
  \/ SpawnClaims(r) \/ SpawnProbes(r) \/ SpawnReclaims(r) \/ SpawnRefused(r)
  \/ SpawnFails(r) \/ RunStarts(r) \/ SpawnFailsLate(r) \/ ResultAccepted(r)
  \/ \E s \in Session : SpawnAttaches(r, s)

FinalizeStep(r) ==
  \/ \E hot, owns \in BOOLEAN : FinalizeKept(r, hot, owns)
  \/ \E x \in Releaser, tomb \in BOOLEAN : FinalizeAborted(r, x, tomb)
  \/ FinalizeDisposes(r)
  \/ FinalizeUnregisters(r)

SessionStep(s) == TurnStarts(s) \/ TurnEnds(s) \/ DisposeSettles(s)

ParkStep == ParkGivesUp \/ ParkCommits \/ ParkEnds

CallerStep(c) ==
  \/ EnsureLive(c) \/ EnsureLiveCancelsPark(c) \/ EnsureLiveWaits(c)
  \/ KeepsSession(c) \/ ResolvesAfterPark(c) \/ CallerReturns(c)

RevivalStep(r) ==
  \/ FactoryDeclines(r) \/ FactoryResolves(r)
  \/ \E s \in Session : ReviverOpens(r, s)
  \/ ReviverClaims(r) \/ ReviverFails(r) \/ ReviverAttaches(r)
  \/ ReviverFailsLate(r) \/ ReviverThrows(r) \/ RevivalEnds(r)
  \/ RevivalRejects(r)

ReleaseStep(x) ==
  \/ \E tomb \in BOOLEAN : Releases(x, tomb)
  \/ ReleaseCaptures(x) \/ ReleasePersisted(x) \/ ReleaseDisposed(x) \/ ReleaseEnds(x)

Next ==
  \/ \E r \in Ref : SpawnStep(r) \/ FinalizeStep(r) \/ RevivalStep(r)
  \/ \E s \in Session : SessionStep(s)
  \/ TimerParks \/ ParkStep
  \/ \E c \in Caller : CallerStep(c)
  \/ \E x \in Releaser : ReleaseStep(x)

Spec == Init /\ [][Next]_vars

\* The event loop runs every ready task at last: a promise that can settle does, and
\* its continuations run.  Disposes, revivers, the factory and file writes settle,
\* with an answer or an error.  Strong fairness, because a microtask only ever
\* delays a ready task, over and over if need be.  Nothing is assumed of the
\* program's own decisions: spawns, turns, timers, new ensureLive and release calls.
Fairness ==
  /\ WF_vars(ParkStep)
  /\ \A s \in Session : SF_vars(DisposeSettles(s))
  /\ \A r \in Ref : SF_vars(RevivalStep(r))
  /\ \A c \in Caller : WF_vars(KeepsSession(c) \/ ResolvesAfterPark(c))
  /\ \A x \in Releaser :
       SF_vars(ReleaseCaptures(x) \/ ReleasePersisted(x) \/ ReleaseDisposed(x) \/ ReleaseEnds(x))

FairSpec == Spec /\ Fairness

-----------------------------------------------------------------------------
(* Properties that hold.                                                   *)

\* A ref that is parked, killed or not created yet has no session: whoever sees the
\* terminal row sees it detached (agent-lifecycle.ts:488), and ensureLive, which hands
\* out any attached session, cannot hand out a parked one.
DetachedWhenStopped ==
  \A r \in Ref : status[r] \in {"none", "parked", "aborted"} => sess[r] = NoSession

\* Two session objects never have the same agent's transcript open, whatever parks,
\* revivals, kills and finalizers overlap: reopening takes the single-writer lock
\* cleanly only because the park closed the writer (task/executor.ts:4064).
Open == {"building", "live", "disposing"}
SingleWriter ==
  \A s, t \in Session :
    s # t /\ life[s] \in Open /\ life[t] \in Open => owner[s] # owner[t]

\* The registered row never keeps a session whose dispose has settled: a session that
\* dies takes its row along or was detached before.
AttachedIsOpen == LiveSession # NoSession => life[LiveSession] \in {"live", "disposing"}

\* The registered ref has at most one revival, the one #revivals remembers, so that
\* concurrent ensureLive calls coalesce on it.
OneRevivalRegistered == reg # NoRef /\ revival[reg].pc # "none" => inflight = reg

\* An adopted agent that sits idle has its TTL timer armed, cancelled parks and
\* overlapping turns included: it is parked some day.  (One generation of the id: see
\* the findings for two.)
IdleAgentIsArmed ==
  /\ reg # NoRef /\ adopted.ref = reg
  /\ status[reg] = "idle" /\ sess[reg] # NoSession /\ life[sess[reg]] = "live"
  /\ park.ref = NoRef
  /\ \A c \in Caller : caller[c].pc # "cancelDone"
  => adopted.timer

\* A killed agent stays killed: no late attach, status write, park or revival brings
\* the tombstone back or gives it a session.
TombstoneIsFinal ==
  [][\A r \in Ref : status[r] = "aborted" => status'[r] = "aborted" /\ sess'[r] = NoSession]_vars

\* Work bound to an older ref (its park, revival, release or finished run) leaves the
\* row of the ref that replaced it alone: which ref it is, its status, its session.
WorkOf(r) ==
  \/ park.ref = r /\ park' # park
  \/ revival'[r] # revival[r]
  \/ \E x \in Releaser : release[x].ref = r /\ release'[x] # release[x]
  \/ run'[r] # run[r] /\ run[r].pc \notin {"probing", "retry"}

StaleWorkIsHarmless ==
  [][\A r \in Ref : WorkOf(r) /\ reg \notin {r, NoRef} =>
       reg' = reg /\ status'[reg] = status[reg] /\ sess'[reg] = sess[reg]]_vars

\* ensureLive resolves with a session that is open and that no park is disposing.
HandsOutOpenSession ==
  [][\A c \in Caller : caller[c].pc # "got" /\ caller'[c].pc = "got" =>
       LET s == caller'[c].ses IN
       /\ s = LiveSession'
       /\ life'[s] \in {"live", "disposing"}
       /\ ~(park.detached /\ park.ses = s)]_vars

\* Every ensureLive call is answered: with a session or with an error.
EnsureLiveReturns ==
  \A c \in Caller : caller[c].pc \notin {"idle", "got"} ~> caller[c].pc \in {"idle", "got"}

\* Every release call returns, although it may wait for a park, a file and a dispose.
ReleaseReturns == \A x \in Releaser : release[x].pc # "idle" ~> release[x].pc = "idle"

=============================================================================
