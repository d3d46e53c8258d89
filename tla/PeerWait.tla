------------------------------ MODULE PeerWait ------------------------------
(***************************************************************************)
(* Agents that wait for each other: the `wait` tool (tools/wait.ts), the   *)
(* message bus between agents (irc/bus.ts, session/irc-bridge.ts) and the  *)
(* spawn runs behind a session's permits (task/spawn-run.ts,               *)
(* task/index.ts).  A turn is blocked in a `wait` (a race between the runs *)
(* it watches, a leg of its own and the next message), in an inline await  *)
(* (a blocking `task` fan-out, an eval `wait()`), or in a send.  A wait    *)
(* that only a message can end is told by the deadlock watch, or by the    *)
(* bus's liveness check, that none will come.                              *)
(*                                                                         *)
(* Promise callbacks run before the next turn step of any agent: an action *)
(* of a turn needs Quiet, a hand-off or a settlement does not.  The two    *)
(* hour cap of `wait` is left out, so that nothing here ends by it.        *)
(***************************************************************************)
EXTENDS Integers, FiniteSets, TLC

CONSTANTS
  Agents,        \* ids of agents
  Main,          \* the top-level agent
  None,
  Msgs,          \* identities of the messages that may be sent (a bound)
  MaxPermits,    \* bound on task.maxConcurrency
  QueueInline,   \* may a blocking spawn be launched while no permit is free?
  MaxWaits,      \* bound on the calls of `wait`
  MaxKills       \* bound on hard aborts

ASSUME PeerAssumption ==
  /\ Main \in Agents /\ None \notin Agents \cup Msgs
  /\ IsFiniteSet(Agents) /\ IsFiniteSet(Msgs)
  /\ MaxPermits \in Nat \ {0} /\ {MaxWaits, MaxKills} \subseteq Nat /\ QueueInline \in BOOLEAN

VARIABLES
  permits,   \* task.maxConcurrency: permits of each session's semaphore
  status,    \* registry status; "running" means a live turn is in flight
  owner,     \* the agent whose session spawned it
  phase,     \* the two runs an agent can have: its spawn, and a wake turn's
  block,     \* what the agent's turn is blocked in
  watched,   \* the runs that block is about
  leg,       \* the wait also races on a bash job or service of its own
  wake,      \* why the wait's race has settled, before the tool returns
  got,       \* the message its waiter was given
  due,       \* accepted results of its jobs that it has not seen
  msgs,      \* where each message is
  waits,     \* calls of `wait` so far
  kills

vars == <<permits, status, owner, phase, block, watched, leg, wake, got, due, msgs,
          waits, kills>>
turn == <<block, watched, leg, wake, got>>

Runs == Agents \X {"spawn", "wake"}
Phases == {"none", "queued", "held", "over"}
Blocks == {"free", "send", "wait", "inline", "eval"}
Wakes == {"no", "job", "leg", "message", "interrupt", "alone", "owner", "silent"}

\* A turn that is not blocked in an await holds none: no run watched, no
\* waiter, no leg.
TypeOK ==
  /\ \A a \in Agents : block[a] \in {"free", "send"} =>
       watched[a] = {} /\ ~leg[a] /\ wake[a] = "no" /\ got[a] = None
  /\ status \in [Agents -> {"none", "running", "idle", "aborted"}]
  /\ owner \in [Agents -> Agents \cup {None}]
  /\ phase \in [Runs -> Phases]
  /\ block \in [Agents -> Blocks]
  /\ watched \in [Agents -> SUBSET Runs]
  /\ leg \in [Agents -> BOOLEAN]
  /\ wake \in [Agents -> Wakes]
  /\ got \in [Agents -> Msgs \cup {None}]
  /\ due \in [Agents -> SUBSET Runs]
  /\ msgs \in [Msgs -> [st : {"new", "flight", "aside", "held", "read", "failed"},
                        from : Agents \cup {None}, to : Agents \cup {None}]]
  /\ permits \in 1 .. MaxPermits
  /\ waits \in 0 .. MaxWaits /\ kills \in 0 .. MaxKills

Init ==
  /\ status = [a \in Agents |-> IF a = Main THEN "running" ELSE "none"]
  /\ owner = [a \in Agents |-> None]
  /\ phase = [r \in Runs |-> "none"]
  /\ block = [a \in Agents |-> "free"]
  /\ watched = [a \in Agents |-> {}]
  /\ leg = [a \in Agents |-> FALSE]
  /\ wake = [a \in Agents |-> "no"]
  /\ got = [a \in Agents |-> None]
  /\ due = [a \in Agents |-> {}]
  /\ msgs = [m \in Msgs |-> [st |-> "new", from |-> None, to |-> None]]
  /\ permits \in 1 .. MaxPermits
  /\ waits = 0 /\ kills = 0

-----------------------------------------------------------------------------
(* The deadlock watch of a message-only wait.                              *)

\* The peers with a live turn in flight.
RunningPeers(a) == {b \in Agents \ {a} : status[b] = "running"}

ListsQueued(b) == {r[1] : r \in watched[b]}

\* The agents a block is published with: a `wait` leaves out a spawn still
\* queued for its permit, the inline holders name every agent they await.
Listed(b) ==
  {r[1] : r \in IF block[b] = "wait" THEN {r \in watched[b] : phase[r] # "queued"}
                ELSE watched[b]}

MessageOnly(a) == block[a] = "wait" /\ watched[a] = {} /\ ~leg[a]

Awaits(b) == block[b] \in {"wait", "inline", "eval"}

\* Its result can land without the caller: it is not running, or can act.
Lands(a, actors, c) == c # a /\ (c \notin RunningPeers(a) \/ c \in actors)

CanResume(a, actors, b) ==
  CASE block[b] = "wait" -> leg[b] \/ \E c \in Listed(b) : Lands(a, actors, c)
    [] block[b] \in {"inline", "eval"} -> \A c \in Listed(b) : Lands(a, actors, c)
    [] OTHER -> TRUE

\* The running peers that can act, now or once what they await lands: the
\* least set closed under CanResume.
PeersThatCanAct(a) ==
  LET grown[n \in 0 .. Cardinality(Agents)] ==
        IF n = 0 THEN {}
        ELSE LET acting == grown[n - 1]
             IN  acting \cup {b \in RunningPeers(a) \ acting : CanResume(a, acting, b)}
  IN  grown[Cardinality(Agents)]

IgnoresCoAwaited(a, actors) ==
  \E b \in RunningPeers(a) :
    /\ Awaits(b) /\ a \in Listed(b)
    /\ \/ block[b] # "wait"
       \/ ~leg[b] /\ \A c \in Listed(b) : ~Lands(a, actors, c)

\* A running peer blocked on the caller, with no co-awaited agent able to act.
PeerAwaitingCaller(a, actors) ==
  \E b \in RunningPeers(a) :
    /\ Awaits(b) /\ a \in Listed(b)
    /\ \/ block[b] # "wait"
       \/ ~leg[b] /\ \A c \in Listed(b) : ~Lands(a, actors, c)
    /\ Listed(b) \cap actors = {}

Awaited == UNION {IF Awaits(b) THEN Listed(b) ELSE {} : b \in Agents}

\* Another waiter, one that a blocked agent awaits, goes first.
DefersTo(a) == a \notin Awaited /\ \E b \in RunningPeers(a) \cap Awaited :
                 block[b] = "wait" /\ ~leg[b] /\ Listed(b) = {}

Verdict(a) ==
  IF ~MessageOnly(a) \/ wake[a] # "no" THEN "no"
  ELSE IF RunningPeers(a) = {} THEN "alone"
  ELSE LET actors == PeersThatCanAct(a) IN
    CASE PeerAwaitingCaller(a, actors) -> "owner"
      [] ~PeerAwaitingCaller(a, actors) /\ actors = {} /\ ~DefersTo(a) -> "silent"
      [] OTHER -> "no"

\* Every hold, release and status change re-runs the checks of all waits
\* in the same synchronous step: until then nothing else runs.
Checked == \A a \in Agents : Verdict(a) = "no"

CheckWaits ==
  /\ ~Checked
  /\ wake' = [a \in Agents |-> IF wake[a] = "no" THEN Verdict(a) ELSE wake[a]]
  /\ UNCHANGED <<permits, status, owner, phase, block, watched, leg, got, due, msgs, waits, kills>>

PermitHolders(a) == {c \in Agents : owner[c] = a /\ phase[<<c, "spawn">>] \in {"held", "over"}}
FreePermits(a) == permits - Cardinality(PermitHolders(a))

Granted(c) == phase[<<c, "spawn">>] = "queued" /\ FreePermits(owner[c]) > 0

\* No wait is about to return either, and no permit to be taken up: a release
\* hands it to the next in the queue.
Quiet == (\A a \in Agents : wake[a] = "no" /\ ~Granted(a)) /\ Checked

\* The agent's turn takes a step of its own.
Turn(a) == status[a] = "running" /\ block[a] = "free" /\ Quiet

Asides(a) == {m \in Msgs : msgs[m].st = "aside" /\ msgs[m].to = a}

OwnedRuns(a) == {r \in Runs : owner[r[1]] = a /\ phase[r] # "none"}

-----------------------------------------------------------------------------
(* Spawns and their permits.                                               *)

\* Launch the spawns of new, those in first getting a permit at once.
Launch(a, new, first) ==
  /\ new # {} /\ first \subseteq new
  /\ \A c \in new : status[c] = "none" /\ owner[c] = None /\ c # Main
  /\ \/ first = new /\ Cardinality(new) <= FreePermits(a)
     \/ first # new /\ Cardinality(first) = FreePermits(a)
  /\ owner' = [c \in Agents |-> IF c \in new THEN a ELSE owner[c]]
  /\ phase' = [r \in Runs |-> IF r \in new \X {"spawn"}
                              THEN IF r[1] \in first THEN "held" ELSE "queued"
                              ELSE phase[r]]

\* A `task` call that registers background jobs; the turn goes on.
SpawnJobs(a) ==
  /\ Turn(a)
  /\ \E c \in Agents, first \in SUBSET Agents : Launch(a, {c}, first)
  /\ UNCHANGED <<permits, status, turn, due, msgs, waits, kills>>

\* A blocking `task` fan-out: the turn attaches to every run and holds an
\* inline await on each, naming the ids claimed up front.
SpawnInline(a) ==
  /\ Turn(a)
  /\ \E new, first \in SUBSET Agents :
       /\ Launch(a, new, first)
       /\ QueueInline \/ first = new
       /\ watched' = [watched EXCEPT ![a] = new \X {"spawn"}]
  /\ block' = [block EXCEPT ![a] = "inline"]
  /\ UNCHANGED <<permits, status, leg, wake, got, due, msgs, waits, kills>>

\* An eval `wait()` on handles of running jobs, its call holding the turn.
EvalWait(a) ==
  /\ Turn(a)
  /\ \E runs \in SUBSET {r \in OwnedRuns(a) : phase[r] # "queued"} :
       /\ runs # {}
       /\ watched' = [watched EXCEPT ![a] = runs]
  /\ block' = [block EXCEPT ![a] = "eval"]
  /\ UNCHANGED <<permits, status, owner, phase, leg, wake, got, due, msgs, waits, kills>>

Acquire(c) ==
  /\ Granted(c) /\ Checked
  /\ phase' = [phase EXCEPT ![<<c, "spawn">>] = "held"]
  /\ UNCHANGED <<permits, status, owner, turn, due, msgs, waits, kills>>

\* The run creates its session, registers it and starts the first turn.
Start(c) ==
  /\ status[c] = "none" /\ phase[<<c, "spawn">>] = "held" /\ Quiet
  /\ status' = [status EXCEPT ![c] = "running"]
  /\ UNCHANGED <<permits, owner, phase, turn, due, msgs, waits, kills>>

EndRuns(a) ==
  phase' = [r \in Runs |-> IF r[1] = a /\ phase[r] = "held" THEN "over" ELSE phase[r]]

\* The turn ends; messages it has not read keep it going.
Finish(a) ==
  /\ Asides(a) = {} /\ Turn(a)
  /\ status' = [status EXCEPT ![a] = "idle"]
  /\ EndRuns(a)
  /\ UNCHANGED <<permits, owner, turn, due, msgs, waits, kills>>

KillKeepsHolds(a) ==
  /\ Quiet /\ a # Main /\ kills < MaxKills
  /\ status[a] = "running" /\ block[a] # "send" /\ OwnedRuns(a) = {}
  /\ status' = [status EXCEPT ![a] = "aborted"]
  /\ block' = [block EXCEPT ![a] = "free"]
  /\ EndRuns(a)
  /\ kills' = kills + 1
  /\ UNCHANGED <<permits, owner, watched, leg, wake, got, due, msgs, waits>>

\* A hard abort of an agent none of whose own runs is unsettled; the aborted
\* tool releases its holds and its waiter.
Kill(a) ==
  /\ Quiet /\ a # Main /\ kills < MaxKills
  /\ status[a] = "running" /\ block[a] # "send" /\ OwnedRuns(a) = {}
  /\ status' = [status EXCEPT ![a] = "aborted"]
  /\ block' = [block EXCEPT ![a] = "free"]
  /\ watched' = [watched EXCEPT ![a] = {}]
  /\ leg' = [leg EXCEPT ![a] = FALSE]
  /\ EndRuns(a)
  /\ kills' = kills + 1
  /\ UNCHANGED <<permits, owner, wake, got, due, msgs, waits>>

\* The run settles after its turn is over: the permit goes back, an inline
\* owner's hold on it is released, a wait that watches it wakes, and a job's
\* result is accepted for its owner.  A wake turn's may settle quietly.
Settle(r) ==
  LET o == owner[r[1]] IN
  /\ phase[r] = "over" /\ Checked
  /\ phase' = [phase EXCEPT ![r] = "none"]
  /\ IF block[o] = "inline" /\ r \in watched[o]
       THEN watched' = [watched EXCEPT ![o] = @ \ {r}] /\ UNCHANGED due
       ELSE /\ \E heard \in BOOLEAN :
                 /\ heard \/ r[2] = "wake"
                 /\ due' = IF heard THEN [due EXCEPT ![o] = @ \cup {r}] ELSE due
            /\ UNCHANGED watched
  /\ wake' = IF block[o] = "wait" /\ r \in watched[o] /\ wake[o] = "no"
               THEN [wake EXCEPT ![o] = "job"] ELSE wake
  /\ UNCHANGED <<permits, status, owner, block, leg, got, msgs, waits, kills>>

\* Every awaited run has settled: the inline call returns.
Resume(a) ==
  /\ \/ block[a] = "inline" /\ watched[a] = {}
     \/ block[a] = "eval" /\ \A r \in watched[a] : phase[r] = "none"
  /\ Quiet
  /\ block' = [block EXCEPT ![a] = "free"]
  /\ watched' = [watched EXCEPT ![a] = {}]
  /\ due' = [due EXCEPT ![a] = @ \ watched[a]]
  /\ UNCHANGED <<permits, status, owner, phase, leg, wake, got, msgs, waits, kills>>

\* A result reaches its owner: it starts a turn of an idle agent, joins a
\* running one, and interrupts a wait that does not watch the job.
DeliverResult(a, r) ==
  /\ r \in due[a] /\ Quiet /\ status[a] \in {"running", "idle"}
  /\ block[a] = "free" \/ (block[a] = "wait" /\ r \notin watched[a])
  /\ due' = [due EXCEPT ![a] = @ \ {r}]
  /\ status' = [status EXCEPT ![a] = "running"]
  /\ wake' = IF block[a] = "wait" THEN [wake EXCEPT ![a] = "interrupt"] ELSE wake
  /\ UNCHANGED <<permits, owner, phase, block, watched, leg, got, msgs, waits, kills>>

-----------------------------------------------------------------------------
(* The wait tool.                                                          *)

\* With no message and no result at hand, and something to wait for: block
\* on one snapshot of the owned jobs, the leg, and the next message.
Wait(a) ==
  /\ Turn(a) /\ Asides(a) = {} /\ due[a] = {} /\ waits < MaxWaits
  /\ \E own \in BOOLEAN :
       /\ own \/ OwnedRuns(a) # {} \/ RunningPeers(a) # {}
       /\ leg' = [leg EXCEPT ![a] = own]
  /\ watched' = [watched EXCEPT ![a] = OwnedRuns(a)]
  /\ block' = [block EXCEPT ![a] = "wait"]
  /\ waits' = waits + 1
  /\ UNCHANGED <<permits, status, owner, phase, wake, got, due, msgs, kills>>

LegEnds(a) ==
  /\ leg[a] /\ Quiet
  /\ wake' = [wake EXCEPT ![a] = "leg"]
  /\ UNCHANGED <<permits, status, owner, phase, block, watched, leg, got, due, msgs, waits, kills>>

WakeBeatsMessage(a) ==
  /\ wake[a] # "no" /\ Checked
  /\ block' = [block EXCEPT ![a] = "free"]
  /\ watched' = [watched EXCEPT ![a] = {}]
  /\ leg' = [leg EXCEPT ![a] = FALSE]
  /\ wake' = [wake EXCEPT ![a] = "no"]
  /\ got' = [got EXCEPT ![a] = None]
  /\ IF wake[a] = "message"
       THEN msgs' = [msgs EXCEPT ![got[a]].st = "read"] /\ UNCHANGED due
       ELSE due' = [due EXCEPT ![a] = @ \ watched[a]] /\ UNCHANGED msgs
  /\ UNCHANGED <<permits, status, owner, phase, waits, kills>>

\* The tool returns: a message wins over whatever else settled the race; else
\* an interrupt reports nothing, and any other end reports the watched jobs
\* that have settled.  Results left unreported go to their ordinary delivery.
WaitReturn(a) ==
  /\ wake[a] # "no" /\ Checked
  /\ block' = [block EXCEPT ![a] = "free"]
  /\ watched' = [watched EXCEPT ![a] = {}]
  /\ leg' = [leg EXCEPT ![a] = FALSE]
  /\ wake' = [wake EXCEPT ![a] = "no"]
  /\ got' = [got EXCEPT ![a] = None]
  /\ IF got[a] # None
       THEN msgs' = [msgs EXCEPT ![got[a]].st = "read"] /\ UNCHANGED due
       ELSE /\ due' = [due EXCEPT ![a] = IF wake[a] = "interrupt" THEN @ ELSE @ \ watched[a]]
            /\ UNCHANGED msgs
  /\ UNCHANGED <<permits, status, owner, phase, waits, kills>>

-----------------------------------------------------------------------------
(* Messages between agents.                                                *)

Send(a, m) ==
  /\ Turn(a) /\ msgs[m].st = "new"
  /\ \E b \in Agents \ {a} :
       /\ status[b] # "none"
       /\ msgs' = [msgs EXCEPT ![m] = [st |-> "flight", from |-> a, to |-> b]]
  /\ block' = [block EXCEPT ![a] = "send"]
  /\ UNCHANGED <<permits, status, owner, phase, watched, leg, wake, got, due, waits, kills>>

\* A registered waiter is one whose wait has not been given a message and was
\* not ended by the liveness check, which removes it.
HasWaiter(b) == block[b] = "wait" /\ got[b] = None /\ wake[b] # "alone"

\* The hand-off after the awaited ensureLive: the recipient's waiter first,
\* then its live turn, then a wake turn with a job for its owner.
HandOff(m) ==
  LET to == msgs[m].to
      put(where) == msgs' = [msgs EXCEPT ![m].st = where]
  IN
  /\ msgs[m].st = "flight" /\ Checked
  /\ block' = [block EXCEPT ![msgs[m].from] = "free"]
  /\ \/ status[to] = "aborted" /\ put("failed")
        /\ UNCHANGED <<status, phase, wake, got>>
     \/ HasWaiter(to) /\ put("held")
        /\ got' = [got EXCEPT ![to] = m]
        /\ wake' = [wake EXCEPT ![to] = IF @ = "no" THEN "message" ELSE @]
        /\ UNCHANGED <<status, phase>>
     \/ status[to] = "running" /\ ~HasWaiter(to) /\ put("aside")
        /\ UNCHANGED <<status, phase, wake, got>>
     \/ status[to] = "idle" /\ put("read")
        /\ status' = [status EXCEPT ![to] = "running"]
        /\ phase' = [r \in Runs |-> IF r = <<to, "wake">> /\ phase[r] = "none" /\ to # Main
                                    THEN "held" ELSE phase[r]]
        /\ UNCHANGED <<wake, got>>
  /\ UNCHANGED <<permits, owner, watched, leg, due, waits, kills>>

\* A step boundary of the turn injects a queued message; a `wait` called with
\* one queued takes it and returns.
Read(m) ==
  /\ msgs[m].st = "aside" /\ Turn(msgs[m].to)
  /\ msgs' = [msgs EXCEPT ![m].st = "read"]
  /\ UNCHANGED <<permits, status, owner, phase, turn, due, waits, kills>>

-----------------------------------------------------------------------------
Coordinate ==
  \/ CheckWaits
  \/ \E a \in Agents : Acquire(a) \/ Start(a) \/ Resume(a) \/ LegEnds(a) \/ WaitReturn(a)
  \/ \E r \in Runs : Settle(r)
  \/ \E a \in Agents, r \in Runs : DeliverResult(a, r)
  \/ \E m \in Msgs : HandOff(m)

Next ==
  \/ Coordinate
  \/ \E a \in Agents : \/ SpawnJobs(a) \/ SpawnInline(a) \/ EvalWait(a)
                       \/ Wait(a) \/ Finish(a) \/ Kill(a)
  \/ \E a \in Agents, m \in Msgs : Send(a, m)
  \/ \E m \in Msgs : Read(m)

Spec == Init /\ [][Next]_vars

\* Callbacks run, a bash job or a service of one's own ends, and a turn left
\* alone reads its messages and ends.  Nothing makes it spawn, send or wait,
\* and the bounds let no turn go on for ever, so one condition is enough.
LiveSpec ==
  Spec /\ WF_vars(Coordinate \/ (\E m \in Msgs : Read(m)) \/ (\E a \in Agents : Finish(a)))

-----------------------------------------------------------------------------
(* Properties.                                                             *)

\* S is a set of running agents each blocked on the rest of S: inline on some
\* member, or in a race none of whose watched runs can settle without S.  A
\* queued run of b is stuck when S holds all of b's permits; once one is free
\* b's wait has ended, and the tool is about to return.
StuckOn(S, b, r) ==
  IF phase[r] = "queued"
    THEN PermitHolders(b) \subseteq S /\ (FreePermits(b) <= 0 \/ wake[b] # "no")
    ELSE r[1] \in S

Stuck(S) ==
  \A b \in S : /\ status[b] = "running"
               /\ \/ block[b] \in {"inline", "eval"} /\ \E r \in watched[b] : StuckOn(S, b, r)
                  \/ block[b] = "wait" /\ ~leg[b] /\ \A r \in watched[b] : StuckOn(S, b, r)

\* Some member of S awaits a, and S holds whatever else it awaits that runs.
AwaitedFrom(S, a) ==
  \E b \in S : LET others == {r[1] : r \in watched[b]} IN
    a \in others /\ \A c \in others : status[c] = "running" => c \in S

\* S holds whatever runs, and nobody in it was handed a message.
NobodyElseRuns(S) ==
  {b \in Agents : status[b] = "running"} \subseteq S /\ \A b \in Agents : got[b] = None

\* Nobody is told too soon that no message can come: whenever the deadlock
\* watch tells a waiter so, it is caught in a set of agents that all wait for
\* each other, and that set holds every running agent, or one that awaits the
\* waiter together with all it awaits besides that still run.  (In the latter
\* case one of them may have been handed a message and be about to return: the
\* watch does not see that, as the README says.)
ToldForAReason ==
  [][\A a \in Agents :
       wake[a] = "no" /\ wake'[a] \in {"owner", "silent"} =>
         \E S \in SUBSET Agents :
           a \in S /\ Stuck(S) /\ (AwaitedFrom(S, a) \/ NobodyElseRuns(S))]_vars

\* A turn blocked in a wait, an inline await or an eval wait comes back, with
\* no help from the cap: a cycle of waiters is always broken.
NobodyIsStuck ==
  [](\A a \in Agents : block[a] \in {"wait", "inline", "eval"} => <>(block[a] = "free"))

\* A message handed to a waiter or to a live turn is read, whatever else ends
\* that wait at the same time, unless its recipient is killed.
HandedOverIsRead ==
  \A m \in Msgs : msgs[m].st \in {"held", "aside"} ~>
    msgs[m].st = "read" \/ \E a \in Agents : msgs[m].to = a /\ status[a] = "aborted"
=============================================================================
