--------------------------- MODULE PeerWaitProofs ---------------------------
(***************************************************************************)
(* Theorems about PeerWait, for any number of agents, messages and         *)
(* permits: the types with what an unblocked turn must not hold; that a    *)
(* message given to a waiter stays with it until the tool returns it; that *)
(* the deadlock watch tells a waiter only what is so, and that it always   *)
(* tells one when all running agents are stuck.                            *)
(*                                                                         *)
(* The watch's verdict is a least fixed point that a recursive function    *)
(* reaches in as many rounds as there are agents.  What the proof needs of *)
(* it is that it is one: ActorsAreClosed, by counting.                     *)
(***************************************************************************)
EXTENDS PeerWait, TLAPS, FiniteSetTheorems, WellFoundedInduction

\* What a race has settled on, the message its waiter was given and the leg it runs
\* belong to a blocked `wait`, and a waiter that was given a message is about to return.
OfWait ==
  \A a \in Agents :
    /\ wake[a] # "no" \/ got[a] # None \/ leg[a] => block[a] = "wait"
    /\ got[a] # None => wake[a] # "no"

\* A message on its way blocks its sender, who has no other.
InFlight ==
  /\ \A m \in Msgs : msgs[m].st # "new" => msgs[m].from \in Agents /\ msgs[m].to \in Agents
  /\ \A m \in Msgs : msgs[m].st = "flight" => block[msgs[m].from] = "send"
  /\ \A m, n \in Msgs :
       msgs[m].st = "flight" /\ msgs[n].st = "flight" /\ msgs[m].from = msgs[n].from => m = n

\* A message is held exactly by the waiter it was handed to.
HeldByWaiter ==
  /\ \A m \in Msgs : msgs[m].st = "held" => got[msgs[m].to] = m
  /\ \A a \in Agents : got[a] # None => msgs[got[a]].st = "held" /\ msgs[got[a]].to = a

WInv == TypeOK /\ OfWait /\ InFlight /\ HeldByWaiter

\* A turn that holds nothing.
HoldsNone(a) == watched[a] = {} /\ ~leg[a] /\ wake[a] = "no" /\ got[a] = None

\* The deadlock watch speaks to waits that only a message can end.
LEMMA VerdictIsForWaits ==
  ASSUME NEW a \in Agents
  PROVE  /\ Verdict(a) \in Wakes
         /\ Verdict(a) # "no" => block[a] = "wait" /\ wake[a] = "no"
<1>1. CASE ~MessageOnly(a) \/ wake[a] # "no"
  BY <1>1 DEF Verdict, Wakes
<1>2. CASE MessageOnly(a) /\ wake[a] = "no"
  BY <1>2 DEF Verdict, Wakes, MessageOnly
<1> QED  BY <1>1, <1>2

LEMMA LaunchTypes ==
  ASSUME TypeOK, NEW a \in Agents, NEW new \in SUBSET Agents, NEW first \in SUBSET Agents,
         Launch(a, new, first)
  PROVE  owner' \in [Agents -> Agents \cup {None}] /\ phase' \in [Runs -> Phases]
BY DEF TypeOK, Launch, Phases

\* A step that leaves waits and messages alone.
LEMMA OthersKeep ==
  ASSUME WInv, UNCHANGED <<turn, msgs>>
  PROVE  OfWait' /\ InFlight' /\ HeldByWaiter'
BY DEF WInv, OfWait, InFlight, HeldByWaiter, turn

\* The steps of a turn, of its spawns and of the permits.
LEMMA SpawnKeeps ==
  ASSUME WInv, NEW a \in Agents, SpawnJobs(a) \/ SpawnInline(a) \/ EvalWait(a) \/ Acquire(a)
                                 \/ Start(a) \/ Finish(a)
  PROVE  WInv'
<1>0. TypeOK /\ OfWait /\ InFlight /\ HeldByWaiter
  BY DEF WInv
<1>1. CASE SpawnJobs(a)
  <2>1. UNCHANGED <<permits, status, turn, due, msgs, waits, kills>>
    BY <1>1 DEF SpawnJobs
  <2>2. owner' \in [Agents -> Agents \cup {None}] /\ phase' \in [Runs -> Phases]
    BY <1>0, <1>1, LaunchTypes DEF SpawnJobs
  <2>3. TypeOK'
    BY <1>0, <2>1, <2>2 DEF TypeOK, turn
  <2> QED  BY <2>1, <2>3, OthersKeep DEF WInv
<1>2. ASSUME NEW runs \in SUBSET Runs, NEW b \in {"inline", "eval"},
             block[a] = "free", watched' = [watched EXCEPT ![a] = runs],
             block' = [block EXCEPT ![a] = b],
             owner' \in [Agents -> Agents \cup {None}], phase' \in [Runs -> Phases],
             UNCHANGED <<permits, status, leg, wake, got, due, msgs, waits, kills>>
      PROVE  WInv'
  <2>1. TypeOK'
    BY <1>0, <1>2 DEF TypeOK, Blocks
  <2>2. OfWait' /\ InFlight' /\ HeldByWaiter'
    BY <1>0, <1>2 DEF TypeOK, OfWait, InFlight, HeldByWaiter
  <2> QED  BY <2>1, <2>2 DEF WInv
<1>3. CASE SpawnInline(a)
  <2>1. PICK new \in SUBSET Agents, first \in SUBSET Agents :
          /\ Launch(a, new, first)
          /\ watched' = [watched EXCEPT ![a] = new \X {"spawn"}]
    BY <1>3 DEF SpawnInline
  <2>2. new \X {"spawn"} \in SUBSET Runs
    BY DEF Runs
  <2> QED  BY <1>0, <1>2, <1>3, <2>1, <2>2, LaunchTypes DEF SpawnInline, Turn
<1>4. CASE EvalWait(a)
  <2>1. PICK runs \in SUBSET Runs : watched' = [watched EXCEPT ![a] = runs]
    BY <1>4 DEF EvalWait, OwnedRuns
  <2> QED  BY <1>0, <1>2, <1>4, <2>1 DEF EvalWait, Turn, TypeOK
<1>5. CASE Acquire(a) \/ Start(a) \/ Finish(a)
  <2>1. UNCHANGED <<permits, owner, turn, due, msgs, waits, kills>>
    BY <1>5 DEF Acquire, Start, Finish
  <2>2. /\ status' \in [Agents -> {"none", "running", "idle", "aborted"}]
        /\ phase' \in [Runs -> Phases]
    <3>1. CASE Acquire(a)
      BY <1>0, <3>1 DEF TypeOK, Acquire, Phases
    <3>2. CASE Start(a)
      BY <1>0, <3>2 DEF TypeOK, Start
    <3>3. CASE Finish(a)
      BY <1>0, <3>3 DEF TypeOK, Finish, EndRuns, Phases
    <3> QED  BY <1>5, <3>1, <3>2, <3>3
  <2>3. TypeOK'
    BY <1>0, <2>1, <2>2 DEF TypeOK, turn
  <2> QED  BY <2>1, <2>3, OthersKeep DEF WInv
<1> QED  BY <1>1, <1>3, <1>4, <1>5

\* A kill releases what its turn held: nothing has settled a wait it is in.
LEMMA KillKeeps ==
  ASSUME WInv, NEW a \in Agents, Kill(a)
  PROVE  WInv'
<1>0. TypeOK /\ OfWait /\ InFlight /\ HeldByWaiter
  BY DEF WInv
<1>1. wake[a] = "no" /\ got[a] = None /\ block[a] # "send"
  BY <1>0 DEF Kill, Quiet, OfWait
<1>2. TypeOK'
  <2>1. phase' \in [Runs -> Phases]
    BY <1>0 DEF Kill, EndRuns, TypeOK, Phases
  <2>2. kills' \in 0 .. MaxKills
    BY <1>0, PeerAssumption DEF Kill, TypeOK
  <2> QED  BY <1>0, <1>1, <2>1, <2>2 DEF Kill, TypeOK, Blocks
<1>3. OfWait' /\ InFlight' /\ HeldByWaiter'
  BY <1>0, <1>1 DEF Kill, TypeOK, OfWait, InFlight, HeldByWaiter
<1> QED  BY <1>2, <1>3 DEF WInv

\* A settled run ends a wait that watches it, and wakes no other turn.
LEMMA SettleKeeps ==
  ASSUME WInv, NEW r \in Runs, Settle(r)
  PROVE  WInv'
<1>0. TypeOK /\ OfWait /\ InFlight /\ HeldByWaiter
  BY DEF WInv
<1> DEFINE o == owner[r[1]]
<1>1. UNCHANGED <<permits, status, owner, block, leg, got, msgs, waits, kills>>
  BY DEF Settle
<1>2. phase' \in [Runs -> Phases] /\ due' \in [Agents -> SUBSET Runs]
  BY <1>0 DEF Settle, TypeOK, Phases
<1>3. wake' = wake \/ (block[o] = "wait" /\ wake' = [wake EXCEPT ![o] = "job"])
  BY DEF Settle
<1>4. watched' = watched \/ (block[o] = "inline" /\ watched' = [watched EXCEPT ![o] = @ \ {r}])
  BY DEF Settle
<1> HIDE DEF o
<1>5. TypeOK'
  <2>1. wake' \in [Agents -> Wakes] /\ watched' \in [Agents -> SUBSET Runs]
    BY <1>0, <1>3, <1>4 DEF TypeOK, Wakes
  <2>2. \A a \in Agents : block[a] \in {"free", "send"} => wake'[a] = wake[a] /\ watched'[a] = watched[a]
    BY <1>0, <1>3, <1>4 DEF TypeOK
  <2> QED  BY <1>0, <1>1, <1>2, <2>1, <2>2 DEF TypeOK
<1>6. OfWait' /\ InFlight' /\ HeldByWaiter'
  BY <1>0, <1>1, <1>3 DEF TypeOK, OfWait, InFlight, HeldByWaiter
<1> QED  BY <1>5, <1>6 DEF WInv

LEMMA ResumeKeeps ==
  ASSUME WInv, NEW a \in Agents, Resume(a)
  PROVE  WInv'
<1>0. TypeOK /\ OfWait /\ InFlight /\ HeldByWaiter
  BY DEF WInv
<1>1. ~leg[a] /\ wake[a] = "no" /\ got[a] = None /\ block[a] # "send"
  BY <1>0 DEF Resume, OfWait
<1>2. TypeOK'
  BY <1>0, <1>1 DEF Resume, TypeOK, Blocks
<1>3. OfWait' /\ InFlight' /\ HeldByWaiter'
  BY <1>0, <1>1 DEF Resume, TypeOK, OfWait, InFlight, HeldByWaiter
<1> QED  BY <1>2, <1>3 DEF WInv

LEMMA DeliverKeeps ==
  ASSUME WInv, NEW a \in Agents, NEW r \in Runs, DeliverResult(a, r)
  PROVE  WInv'
<1>0. TypeOK /\ OfWait /\ InFlight /\ HeldByWaiter
  BY DEF WInv
<1>1. TypeOK'
  BY <1>0 DEF DeliverResult, TypeOK, Wakes
<1>2. OfWait' /\ InFlight' /\ HeldByWaiter'
  BY <1>0 DEF DeliverResult, TypeOK, OfWait, InFlight, HeldByWaiter
<1> QED  BY <1>1, <1>2 DEF WInv

\* The steps of a `wait`.
LEMMA WaitKeeps ==
  ASSUME WInv, NEW a \in Agents, Wait(a) \/ LegEnds(a)
  PROVE  WInv'
<1>0. TypeOK /\ OfWait /\ InFlight /\ HeldByWaiter
  BY DEF WInv
<1>1. CASE Wait(a)
  <2>1. OwnedRuns(a) \in SUBSET Runs
    BY DEF OwnedRuns
  <2>2. waits' \in 0 .. MaxWaits
    BY <1>0, <1>1, PeerAssumption DEF Wait, TypeOK
  <2>3. TypeOK'
    BY <1>0, <1>1, <2>1, <2>2 DEF Wait, Turn, TypeOK, Blocks
  <2>4. OfWait' /\ InFlight' /\ HeldByWaiter'
    BY <1>0, <1>1 DEF Wait, Turn, TypeOK, OfWait, InFlight, HeldByWaiter
  <2> QED  BY <2>3, <2>4 DEF WInv
<1>2. CASE LegEnds(a)
  <2>1. TypeOK'
    BY <1>0, <1>2 DEF LegEnds, TypeOK, Wakes, OfWait
  <2>2. OfWait' /\ InFlight' /\ HeldByWaiter'
    BY <1>0, <1>2 DEF LegEnds, TypeOK, OfWait, InFlight, HeldByWaiter
  <2> QED  BY <2>1, <2>2 DEF WInv
<1> QED  BY <1>1, <1>2

LEMMA CheckWaitsKeeps ==
  ASSUME WInv, CheckWaits
  PROVE  WInv'
<1>0. TypeOK /\ OfWait /\ InFlight /\ HeldByWaiter
  BY DEF WInv
<1>1. UNCHANGED <<permits, status, owner, phase, block, watched, leg, got, due, msgs, waits, kills>>
  BY DEF CheckWaits
<1>2. /\ wake' \in [Agents -> Wakes]
      /\ \A a \in Agents : wake'[a] = wake[a] \/ (wake[a] = "no" /\ block[a] = "wait")
      /\ \A a \in Agents : wake[a] # "no" => wake'[a] = wake[a]
  BY <1>0, VerdictIsForWaits DEF CheckWaits, TypeOK
<1>3. TypeOK'
  BY <1>0, <1>1, <1>2 DEF TypeOK
<1>4. OfWait' /\ InFlight' /\ HeldByWaiter'
  BY <1>0, <1>1, <1>2 DEF OfWait, InFlight, HeldByWaiter
<1> QED  BY <1>3, <1>4 DEF WInv

MsgState == {"new", "flight", "aside", "held", "read", "failed"}

LEMMA RecordUpdate ==
  ASSUME TypeOK, NEW m \in Msgs, NEW where \in MsgState, msgs' = [msgs EXCEPT ![m].st = where]
  PROVE  /\ msgs' \in [Msgs -> [st : MsgState, from : Agents \cup {None}, to : Agents \cup {None}]]
         /\ \A n \in Msgs : /\ msgs'[n].from = msgs[n].from /\ msgs'[n].to = msgs[n].to
                            /\ msgs'[n].st = IF n = m THEN where ELSE msgs[n].st
BY DEF TypeOK, MsgState

\* A message that moves on, and takes its sender's block along if it was on its way.
LEMMA SameFlights ==
  ASSUME InFlight, NEW m \in Msgs, NEW b \in Agents,
         \A n \in Msgs : /\ msgs'[n].from = msgs[n].from /\ msgs'[n].to = msgs[n].to
                         /\ n # m => msgs'[n].st = msgs[n].st,
         msgs[m].st # "new", msgs'[m].st # "flight",
         \A c \in Agents : block'[c] # block[c] => c = b,
         block[b] = "send" => msgs[m].st = "flight" /\ msgs[m].from = b
  PROVE  InFlight'
<1>1. \A n \in Msgs : msgs'[n].st # "new" => msgs'[n].from \in Agents /\ msgs'[n].to \in Agents
  BY DEF InFlight
<1>2. \A n \in Msgs : msgs'[n].st = "flight" => n # m /\ msgs[n].st = "flight"
  OBVIOUS
<1>3. ASSUME NEW n \in Msgs, msgs'[n].st = "flight"  PROVE block'[msgs'[n].from] = "send"
  <2>1. n # m /\ msgs[n].st = "flight" /\ msgs[n].from \in Agents /\ block[msgs[n].from] = "send"
    BY <1>2, <1>3 DEF InFlight
  <2>2. msgs[n].from # b
    BY <2>1 DEF InFlight
  <2> QED  BY <2>1, <2>2
<1>4. \A n, k \in Msgs :
        msgs'[n].st = "flight" /\ msgs'[k].st = "flight" /\ msgs'[n].from = msgs'[k].from => n = k
  BY <1>2 DEF InFlight
<1> QED  BY <1>1, <1>3, <1>4 DEF InFlight

\* The tool returns: the message its waiter was given is read, and no other.
LEMMA WaitReturnKeeps ==
  ASSUME WInv, NEW a \in Agents, WaitReturn(a)
  PROVE  WInv'
<1>0. TypeOK /\ OfWait /\ InFlight /\ HeldByWaiter
  BY DEF WInv
<1>1. block[a] = "wait"
  BY <1>0 DEF WaitReturn, OfWait
<1>2. /\ block' = [block EXCEPT ![a] = "free"] /\ watched' = [watched EXCEPT ![a] = {}]
      /\ leg' = [leg EXCEPT ![a] = FALSE] /\ wake' = [wake EXCEPT ![a] = "no"]
      /\ got' = [got EXCEPT ![a] = None]
      /\ UNCHANGED <<permits, status, owner, phase, waits, kills>>
  BY DEF WaitReturn
<1>3. \/ got[a] = None /\ msgs' = msgs
      \/ /\ got[a] \in Msgs /\ msgs[got[a]].st = "held" /\ msgs[got[a]].to = a
         /\ msgs' = [msgs EXCEPT ![got[a]].st = "read"]
  BY <1>0 DEF WaitReturn, TypeOK, HeldByWaiter
<1>4. due' \in [Agents -> SUBSET Runs]
  BY <1>0 DEF WaitReturn, TypeOK
<1>5. msgs' \in [Msgs -> [st : MsgState, from : Agents \cup {None}, to : Agents \cup {None}]]
  BY <1>0, <1>3, RecordUpdate DEF TypeOK, MsgState
<1>6. TypeOK'
  BY <1>0, <1>2, <1>4, <1>5 DEF TypeOK, Blocks, Wakes, MsgState
<1>7. \A m \in Msgs :
        /\ msgs'[m].from = msgs[m].from /\ msgs'[m].to = msgs[m].to
        /\ msgs'[m].st = IF m = got[a] THEN "read" ELSE msgs[m].st
  BY <1>0, <1>3, PeerAssumption DEF TypeOK
<1>8. OfWait'
  BY <1>0, <1>2 DEF TypeOK, OfWait
<1>9. InFlight'
  <2>1. CASE msgs' = msgs
    <3>1. \A c \in Agents : block'[c] # block[c] => c = a
      BY <1>0, <1>2 DEF TypeOK
    <3> QED  BY <1>0, <1>1, <2>1, <3>1 DEF InFlight
  <2>2. CASE got[a] \in Msgs /\ msgs[got[a]].st = "held"
    <3>1. \A c \in Agents : block'[c] # block[c] => c = a
      BY <1>0, <1>2 DEF TypeOK
    <3> QED  BY <1>0, <1>1, <1>7, <2>2, <3>1, SameFlights
  <2> QED  BY <1>3, <2>1, <2>2
<1>10. HeldByWaiter'
  <2>1. \A m \in Msgs : msgs'[m].st = "held" => got'[msgs'[m].to] = m
    BY <1>0, <1>2, <1>7 DEF TypeOK, HeldByWaiter, InFlight
  <2>2. \A b \in Agents : got'[b] # None => msgs'[got'[b]].st = "held" /\ msgs'[got'[b]].to = b
    BY <1>0, <1>2, <1>3, <1>7 DEF TypeOK, HeldByWaiter
  <2> QED  BY <2>1, <2>2 DEF HeldByWaiter
<1> QED  BY <1>6, <1>8, <1>9, <1>10 DEF WInv

LEMMA SendKeeps ==
  ASSUME WInv, NEW a \in Agents, NEW m \in Msgs, Send(a, m)
  PROVE  WInv'
<1>0. TypeOK /\ OfWait /\ InFlight /\ HeldByWaiter
  BY DEF WInv
<1>1. PICK b \in Agents : msgs' = [msgs EXCEPT ![m] = [st |-> "flight", from |-> a, to |-> b]]
  BY DEF Send
<1>2. /\ block[a] = "free" /\ msgs[m].st = "new" /\ block' = [block EXCEPT ![a] = "send"]
      /\ UNCHANGED <<permits, status, owner, phase, watched, leg, wake, got, due, waits, kills>>
  BY DEF Send, Turn
<1>3. /\ msgs'[m] = [st |-> "flight", from |-> a, to |-> b]
      /\ \A n \in Msgs : n # m => msgs'[n] = msgs[n]
  BY <1>0, <1>1 DEF TypeOK
<1>4. TypeOK'
  <2>1. msgs' \in [Msgs -> [st : {"new", "flight", "aside", "held", "read", "failed"},
                            from : Agents \cup {None}, to : Agents \cup {None}]]
    BY <1>0, <1>1 DEF TypeOK
  <2> QED  BY <1>0, <1>2, <2>1 DEF TypeOK, Blocks
<1>5. OfWait'
  BY <1>0, <1>2 DEF TypeOK, OfWait
<1>6. InFlight'
  <2>1. \A n \in Msgs : msgs[n].st = "flight" => msgs[n].from # a
    BY <1>0, <1>2 DEF InFlight
  <2>2. \A n \in Msgs :
          /\ msgs'[n].st # "new" => msgs'[n].from \in Agents /\ msgs'[n].to \in Agents
          /\ msgs'[n].st = "flight" => block'[msgs'[n].from] = "send"
    <3>1. \A c \in Agents : block'[c] = IF c = a THEN "send" ELSE block[c]
      BY <1>0, <1>2 DEF TypeOK
    <3> SUFFICES ASSUME NEW n \in Msgs
                 PROVE  /\ msgs'[n].st # "new" => msgs'[n].from \in Agents /\ msgs'[n].to \in Agents
                        /\ msgs'[n].st = "flight" => block'[msgs'[n].from] = "send"
      OBVIOUS
    <3>2. CASE n = m
      BY <1>3, <3>1, <3>2
    <3>3. CASE n # m
      BY <1>0, <1>3, <3>1, <3>3 DEF InFlight
    <3> QED  BY <3>2, <3>3
  <2>3. \A n, k \in Msgs :
          msgs'[n].st = "flight" /\ msgs'[k].st = "flight" /\ msgs'[n].from = msgs'[k].from => n = k
    BY <1>0, <1>3, <2>1 DEF InFlight
  <2> QED  BY <2>2, <2>3 DEF InFlight
<1>7. HeldByWaiter'
  <2>1. \A n \in Msgs : msgs'[n].st = "held" => msgs'[n] = msgs[n]
    BY <1>3
  <2>2. \A b1 \in Agents : got[b1] # None => got[b1] \in Msgs /\ got[b1] # m
    BY <1>0, <1>2 DEF TypeOK, HeldByWaiter
  <2> QED  BY <1>0, <1>2, <1>3, <2>1, <2>2 DEF HeldByWaiter
<1> QED  BY <1>4, <1>5, <1>6, <1>7 DEF WInv

\* The hand-off frees the sender, who was blocked in nothing but the send.
LEMMA HandOffKeeps ==
  ASSUME WInv, NEW m \in Msgs, HandOff(m)
  PROVE  WInv'
<1>0. TypeOK /\ OfWait /\ InFlight /\ HeldByWaiter
  BY DEF WInv
<1> DEFINE to   == msgs[m].to
           from == msgs[m].from
<1>1. /\ to \in Agents /\ from \in Agents /\ msgs[m].st = "flight" /\ block[from] = "send"
      /\ HoldsNone(from)
  BY <1>0 DEF HandOff, InFlight, TypeOK, HoldsNone
<1>2. /\ block' = [block EXCEPT ![from] = "free"]
      /\ UNCHANGED <<permits, owner, watched, leg, due, waits, kills>>
  BY DEF HandOff
<1>3. /\ status' \in [Agents -> {"none", "running", "idle", "aborted"}]
      /\ phase' \in [Runs -> Phases]
  BY <1>0, <1>1 DEF HandOff, TypeOK, Phases
<1>4. \/ /\ UNCHANGED <<wake, got>>
         /\ \E where \in {"failed", "aside", "read"} : msgs' = [msgs EXCEPT ![m].st = where]
      \/ /\ HasWaiter(to) /\ msgs' = [msgs EXCEPT ![m].st = "held"]
         /\ got' = [got EXCEPT ![to] = m]
         /\ wake' = [wake EXCEPT ![to] = IF @ = "no" THEN "message" ELSE @]
  BY DEF HandOff
<1>5. \A n \in Msgs : /\ msgs'[n].from = msgs[n].from /\ msgs'[n].to = msgs[n].to
                      /\ n # m => msgs'[n].st = msgs[n].st
  BY <1>0, <1>4 DEF TypeOK
<1>6. msgs' \in [Msgs -> [st : {"new", "flight", "aside", "held", "read", "failed"},
                          from : Agents \cup {None}, to : Agents \cup {None}]]
  BY <1>0, <1>4 DEF TypeOK
<1> HIDE DEF to, from
<1>7. msgs'[m].st \in {"failed", "aside", "read", "held"}
  BY <1>0, <1>4 DEF TypeOK
<1>8. InFlight'
  <2>1. \A c \in Agents : block'[c] # block[c] => c = from
    BY <1>0, <1>2 DEF TypeOK
  <2> QED  BY <1>0, <1>1, <1>5, <1>7, <2>1, SameFlights DEF from
<1>9. CASE UNCHANGED <<wake, got>> /\ msgs'[m].st # "held"
  <2>1. TypeOK'
    BY <1>0, <1>1, <1>2, <1>3, <1>6, <1>9 DEF TypeOK, Blocks, HoldsNone
  <2>2. OfWait'
    BY <1>0, <1>1, <1>2, <1>9 DEF TypeOK, OfWait, HoldsNone
  <2>3. HeldByWaiter'
    BY <1>0, <1>1, <1>5, <1>9 DEF TypeOK, HeldByWaiter
  <2> QED  BY <1>8, <2>1, <2>2, <2>3 DEF WInv
<1>10. CASE /\ HasWaiter(to) /\ msgs'[m].st = "held"
            /\ got' = [got EXCEPT ![to] = m]
            /\ wake' = [wake EXCEPT ![to] = IF @ = "no" THEN "message" ELSE @]
  <2>1. /\ block[to] = "wait" /\ got[to] = None /\ to # from
        /\ \A b \in Agents : b # to => got'[b] = got[b] /\ wake'[b] = wake[b]
        /\ got'[to] = m /\ wake'[to] # "no" /\ wake'[to] \in Wakes
    BY <1>0, <1>1, <1>10 DEF TypeOK, HasWaiter, Wakes
  <2>2. TypeOK'
    <3>1. wake' \in [Agents -> Wakes] /\ got' \in [Agents -> Msgs \cup {None}]
      BY <1>0, <1>10 DEF TypeOK, Wakes
    <3>2. \A a \in Agents : block'[a] \in {"free", "send"} => HoldsNone(a)'
      BY <1>0, <1>1, <1>2, <2>1 DEF TypeOK, HoldsNone
    <3> QED  BY <1>0, <1>2, <1>3, <1>6, <3>1, <3>2 DEF TypeOK, Blocks, HoldsNone
  <2>3. OfWait'
    BY <1>0, <1>1, <1>2, <2>1 DEF TypeOK, OfWait, HoldsNone
  <2>4. HeldByWaiter'
    <3>1. ASSUME NEW n \in Msgs, msgs'[n].st = "held"  PROVE got'[msgs'[n].to] = n
      <4>1. CASE n = m
        BY <1>5, <2>1, <4>1 DEF to
      <4>2. CASE n # m
        <5>1. msgs[n].st = "held" /\ msgs[n].to \in Agents /\ got[msgs[n].to] = n
          BY <1>0, <1>5, <3>1, <4>2 DEF HeldByWaiter, InFlight
        <5>2. msgs[n].to # to
          BY <2>1, <5>1, PeerAssumption
        <5> QED  BY <1>5, <2>1, <5>1, <5>2
      <4> QED  BY <4>1, <4>2
    <3>2. \A b \in Agents : got'[b] # None => msgs'[got'[b]].st = "held" /\ msgs'[got'[b]].to = b
      BY <1>0, <1>1, <1>5, <1>10, <2>1 DEF TypeOK, HeldByWaiter, to
    <3> QED  BY <3>1, <3>2 DEF HeldByWaiter
  <2> QED  BY <1>8, <2>2, <2>3, <2>4 DEF WInv
<1> QED  BY <1>0, <1>4, <1>9, <1>10 DEF TypeOK

LEMMA ReadKeeps ==
  ASSUME WInv, NEW m \in Msgs, Read(m)
  PROVE  WInv'
<1>0. TypeOK /\ OfWait /\ InFlight /\ HeldByWaiter
  BY DEF WInv
<1>1. /\ msgs[m].st = "aside" /\ msgs' = [msgs EXCEPT ![m].st = "read"]
      /\ UNCHANGED <<permits, status, owner, phase, turn, due, waits, kills>>
  BY DEF Read
<1>2. TypeOK'
  BY <1>0, <1>1 DEF TypeOK, turn
<1>3. OfWait' /\ InFlight' /\ HeldByWaiter'
  BY <1>0, <1>1 DEF TypeOK, OfWait, InFlight, HeldByWaiter, turn
<1> QED  BY <1>2, <1>3 DEF WInv

LEMMA WaitStep ==
  ASSUME WInv, [Next]_vars
  PROVE  WInv'
<1>1. CASE UNCHANGED vars
  <2>1. TypeOK'
    BY <1>1 DEF vars, turn, WInv, TypeOK
  <2> QED  BY <1>1, <2>1, OthersKeep DEF vars, turn, WInv
<1>2. CASE Coordinate
  BY <1>2, CheckWaitsKeeps, SpawnKeeps, ResumeKeeps, WaitKeeps, WaitReturnKeeps, SettleKeeps,
     DeliverKeeps, HandOffKeeps DEF Coordinate
<1>3. CASE \E a \in Agents : SpawnJobs(a) \/ SpawnInline(a) \/ EvalWait(a) \/ Wait(a) \/ Finish(a) \/ Kill(a)
  BY <1>3, SpawnKeeps, WaitKeeps, KillKeeps
<1>4. CASE \/ \E a \in Agents, m \in Msgs : Send(a, m)
           \/ \E m \in Msgs : Read(m)
  BY <1>4, SendKeeps, ReadKeeps
<1> QED  BY <1>1, <1>2, <1>3, <1>4 DEF Next

LEMMA WaitInit == Init => WInv
<1> SUFFICES ASSUME Init  PROVE WInv
  OBVIOUS
<1>1. TypeOK
  BY PeerAssumption DEF Init, TypeOK, Phases, Blocks, Wakes
<1>2. OfWait /\ InFlight /\ HeldByWaiter
  BY DEF Init, OfWait, InFlight, HeldByWaiter
<1> QED  BY <1>1, <1>2 DEF WInv

\* A turn that is not blocked in an await holds no run, leg or waiter, however its wait
\* ended: by a message, a result, a kill or the deadlock watch.
THEOREM TypeCorrect == Spec => []TypeOK
<1>1. WInv => TypeOK
  BY DEF WInv
<1>2. WInv /\ [Next]_vars => WInv'
  BY WaitStep
<1> QED  BY <1>1, <1>2, WaitInit, PTL DEF Spec

-----------------------------------------------------------------------------
\* A message handed to a waiter is read by it and by nobody else: until the tool returns
\* it nothing takes it away, neither what else ends the race nor a kill.
HeldUntilRead ==
  [][\A m \in Msgs : msgs[m].st = "held" =>
       \/ msgs'[m] = msgs[m] /\ got'[msgs[m].to] = m
       \/ msgs'[m].st = "read" /\ WaitReturn(msgs[m].to)]_vars

LEMMA HeldStep ==
  ASSUME WInv, [Next]_vars, NEW m \in Msgs, msgs[m].st = "held"
  PROVE  \/ msgs'[m] = msgs[m] /\ got'[msgs[m].to] = m
         \/ msgs'[m].st = "read" /\ WaitReturn(msgs[m].to)
<1>0. TypeOK /\ OfWait /\ InFlight /\ HeldByWaiter /\ WInv'
  BY WaitStep DEF WInv
<1>1. /\ msgs[m].to \in Agents /\ got[msgs[m].to] = m /\ wake[msgs[m].to] # "no"
      /\ block[msgs[m].to] = "wait"
  BY <1>0, PeerAssumption DEF HeldByWaiter, InFlight, OfWait
<1>2. ASSUME msgs'[m] = msgs[m]  PROVE got'[msgs[m].to] = m
  BY <1>0, <1>2 DEF WInv, HeldByWaiter
<1>3. ASSUME NEW a \in Agents, WaitReturn(a)
      PROVE  msgs'[m] = msgs[m] \/ (msgs'[m].st = "read" /\ a = msgs[m].to)
  <2>1. CASE got[a] = m
    BY <1>0, <1>3, <2>1, PeerAssumption DEF WaitReturn, TypeOK, HeldByWaiter
  <2>2. CASE got[a] # m
    BY <1>0, <1>3, <2>2 DEF WaitReturn, TypeOK
  <2> QED  BY <2>1, <2>2
<1>4. ASSUME NEW n \in Msgs, HandOff(n) \/ Read(n) \/ \E a \in Agents : Send(a, n)
      PROVE  msgs'[m] = msgs[m]
  <2>1. n # m
    BY <1>4 DEF HandOff, Read, Send
  <2> QED  BY <1>0, <1>4, <2>1 DEF HandOff, Read, Send, TypeOK
<1>5. CASE UNCHANGED msgs
  BY <1>2, <1>5
<1> QED
  BY <1>1, <1>2, <1>3, <1>4, <1>5
     DEF Next, Coordinate, CheckWaits, Acquire, Start, Resume, LegEnds, Settle, DeliverResult,
         SpawnJobs, SpawnInline, EvalWait, Wait, Finish, Kill, vars

\* Of HandedOverIsRead, what holds without fairness and for any agents: only the return
\* of the recipient's own tool ends the hold on a message, and by reading it.
THEOREM HeldMessageIsRead == Spec => HeldUntilRead
<1>1. WInv /\ [Next]_vars => WInv'
  BY WaitStep
<1>2. WInv /\ [Next]_vars =>
        [\A m \in Msgs : msgs[m].st = "held" =>
           \/ msgs'[m] = msgs[m] /\ got'[msgs[m].to] = m
           \/ msgs'[m].st = "read" /\ WaitReturn(msgs[m].to)]_vars
  BY HeldStep
<1> QED  BY <1>1, <1>2, WaitInit, PTL DEF Spec, HeldUntilRead

-----------------------------------------------------------------------------
(* What PeersThatCanAct computes.  The library's induction theorems take   *)
(* an operator; but a set of numbers has a least member, so a property of  *)
(* a recursive function is proved from its first exception.                *)

\* A set of numbers that has a member has a least one.
LEMMA LeastNumber ==
  ASSUME NEW T, T \subseteq Nat, T # {}
  PROVE  \E n \in T : \A k \in T : n <= k
<1>1. IsWellFoundedOn(OpToRel(<, Nat), Nat)
  BY NatLessThanWellFounded
<1>2. PICK n \in T : \A k \in T : ~ (<<k, n>> \in OpToRel(<, Nat))
  BY <1>1, WFMin
<1>3. \A k \in T : ~(k < n)
  BY <1>2 DEF OpToRel
<1> QED  BY <1>3

\* One round of peersThatCanAct, and n rounds of it from nobody.
Grow(a, acting) == acting \cup {b \in RunningPeers(a) \ acting : CanResume(a, acting, b)}

Rounds(a, n, g) ==
  g = [i \in 0 .. n |-> IF i = 0 THEN {} ELSE Grow(a, g[i - 1])]

\* A round, out of its function.
LEMMA RoundOf ==
  ASSUME NEW a, NEW n, NEW g, Rounds(a, n, g), NEW i \in 0 .. n
  PROVE  g[i] = IF i = 0 THEN {} ELSE Grow(a, g[i - 1])
<1> DEFINE V(j) == IF j = 0 THEN {} ELSE Grow(a, g[j - 1])
<1>1. g = [j \in 0 .. n |-> V(j)]
  BY DEF Rounds
<1> HIDE DEF V
<1>2. g[i] = V(i)
  BY <1>1
<1> QED  BY <1>2 DEF V

\* The recursive definition has a value, on any number of rounds.
LEMMA RoundsExist ==
  ASSUME NEW a, NEW n \in Nat
  PROVE  \E g : Rounds(a, n, g)
<1> DEFINE T == {k \in Nat : ~ \E g : Rounds(a, k, g)}
<1>1. SUFFICES ASSUME T # {}  PROVE FALSE
  OBVIOUS
<1>2. PICK k \in T : \A i \in T : k <= i
  <2>1. T \subseteq Nat
    OBVIOUS
  <2> HIDE DEF T
  <2> QED  BY <1>1, <2>1, LeastNumber
<1>3. CASE k = 0
  <2>1. Rounds(a, 0, [i \in 0 .. 0 |-> {}])
    BY DEF Rounds
  <2> QED  BY <1>2, <1>3, <2>1
<1>4. CASE k # 0
  <2>1. k - 1 \in Nat /\ k - 1 \notin T
    BY <1>2, <1>4
  <2>2. PICK g : Rounds(a, k - 1, g)
    BY <2>1
  <2> DEFINE h == [i \in 0 .. k |-> IF i = 0 THEN {} ELSE Grow(a, g[i - 1])]
  <2>3. \A i \in 0 .. k - 1 : i \in 0 .. k /\ h[i] = g[i]
    <3>1. \A i \in 0 .. k - 1 : g[i] = IF i = 0 THEN {} ELSE Grow(a, g[i - 1])
      BY <2>2, RoundOf
    <3>2. \A i \in 0 .. k - 1 : i \in 0 .. k
      BY <1>2
    <3> QED  BY <3>1, <3>2
  <2>4. \A i \in 0 .. k : h[i] = IF i = 0 THEN {} ELSE Grow(a, h[i - 1])
    <3>1. \A i \in 0 .. k : i # 0 => i - 1 \in 0 .. k - 1
      BY <1>2
    <3>2. \A i \in 0 .. k : i # 0 => g[i - 1] = h[i - 1]
      BY <2>3, <3>1
    <3>3. \A i \in 0 .. k : h[i] = IF i = 0 THEN {} ELSE Grow(a, g[i - 1])
      OBVIOUS
    <3> HIDE DEF h
    <3> QED  BY <3>2, <3>3
  <2>5. h = [i \in 0 .. k |-> IF i = 0 THEN {} ELSE Grow(a, h[i - 1])]
    <3> HIDE DEF h
    <3>1. h = [i \in 0 .. k |-> h[i]]
      BY DEF h
    <3> QED  BY <2>4, <3>1
  <2> HIDE DEF h
  <2>6. Rounds(a, k, h)
    BY <2>5 DEF Rounds
  <2> QED  BY <1>2, <2>6
<1> QED  BY <1>3, <1>4

\* It is that of the actors.
LEMMA ActorsAreRounds ==
  ASSUME NEW a
  PROVE  \E g : Rounds(a, Cardinality(Agents), g) /\ PeersThatCanAct(a) = g[Cardinality(Agents)]
<1>1. Cardinality(Agents) \in Nat
  BY PeerAssumption, FS_CardinalityType
<1>2. \E g : Rounds(a, Cardinality(Agents), g)
  BY <1>1, RoundsExist
<1> QED  BY <1>2 DEF PeersThatCanAct, Rounds, Grow

\* Whoever can act with some actors can act with more.
LEMMA MoreCanAct ==
  ASSUME NEW a, NEW A, NEW B, A \subseteq B, NEW b, CanResume(a, A, b)
  PROVE  CanResume(a, B, b)
<1>1. \A c : Lands(a, A, c) => Lands(a, B, c)
  BY DEF Lands
<1>2. CASE block[b] = "wait"
  BY <1>1, <1>2 DEF CanResume
<1>3. CASE block[b] \in {"inline", "eval"}
  BY <1>1, <1>3 DEF CanResume
<1>4. CASE block[b] \notin {"wait", "inline", "eval"}
  BY <1>4 DEF CanResume
<1> QED  BY <1>2, <1>3, <1>4

\* The rounds end with running peers that can act given each other, and with all of them.
LEMMA ActorsAreClosed ==
  ASSUME NEW a \in Agents
  PROVE  LET actors == PeersThatCanAct(a) IN
           /\ actors \subseteq RunningPeers(a)
           /\ \A b \in actors : CanResume(a, actors, b)
           /\ \A b \in RunningPeers(a) \ actors : ~CanResume(a, actors, b)
<1> DEFINE N == Cardinality(Agents)
<1>1. N \in Nat /\ IsFiniteSet(Agents)
  BY PeerAssumption, FS_CardinalityType
<1>2. PICK g : Rounds(a, N, g) /\ PeersThatCanAct(a) = g[N]
  BY ActorsAreRounds
<1> HIDE DEF N
<1>3. /\ g[0] = {}
      /\ \A n \in 0 .. N : n # 0 => n - 1 \in 0 .. N /\ g[n] = Grow(a, g[n - 1])
  <2>1. 0 \in 0 .. N /\ \A n \in 0 .. N : n # 0 => n - 1 \in 0 .. N
    BY <1>1
  <2>2. \A n \in 0 .. N : g[n] = IF n = 0 THEN {} ELSE Grow(a, g[n - 1])
    BY <1>2, RoundOf
  <2> QED  BY <2>1, <2>2
<1> DEFINE Fine(n) ==
             /\ g[n] \subseteq RunningPeers(a)
             /\ \A b \in g[n] : CanResume(a, g[n], b)
             /\ Cardinality(g[n]) >= n \/ Grow(a, g[n]) = g[n]
           T == {n \in 0 .. N : ~Fine(n)}
<1>4. ASSUME NEW A, A \subseteq RunningPeers(a)
      PROVE  /\ IsFiniteSet(A) /\ Cardinality(A) \in Nat /\ Cardinality(A) < N
             /\ Grow(a, A) \subseteq RunningPeers(a) /\ A \subseteq Grow(a, A)
  <2>1. A \subseteq Agents /\ A # Agents
    BY <1>4 DEF RunningPeers
  <2>2. IsFiniteSet(A) /\ Cardinality(A) <= N /\ Cardinality(A) # N
    BY <1>1, <2>1, FS_Subset DEF N
  <2>3. Cardinality(A) \in Nat
    BY <2>2, FS_CardinalityType
  <2>4. Grow(a, A) \subseteq RunningPeers(a) /\ A \subseteq Grow(a, A)
    BY <1>4 DEF Grow
  <2> QED  BY <1>1, <2>2, <2>3, <2>4
<1>5. Fine(0)
  BY <1>3, FS_EmptySet
<1>6. ASSUME NEW n \in 0 .. N, n # 0, Fine(n - 1)
      PROVE  Fine(n)
  <2> DEFINE A == g[n - 1]
  <2>1. /\ A \subseteq RunningPeers(a) /\ (\A b \in A : CanResume(a, A, b)) /\ g[n] = Grow(a, A)
        /\ Cardinality(A) >= n - 1 \/ Grow(a, A) = A
    BY <1>3, <1>6
  <2> HIDE DEF A
  <2>2. /\ g[n] \subseteq RunningPeers(a) /\ A \subseteq g[n]
        /\ Cardinality(A) \in Nat /\ Cardinality(g[n]) \in Nat /\ IsFiniteSet(g[n])
    BY <1>4, <2>1
  <2>3. \A b \in g[n] : CanResume(a, g[n], b)
    <3>1. \A b \in g[n] : CanResume(a, A, b)
      BY <2>1 DEF Grow
    <3> QED  BY <2>2, <3>1, MoreCanAct
  <2>4. CASE g[n] = A
    BY <2>1, <2>2, <2>3, <2>4
  <2>5. CASE g[n] # A
    <3>1. Cardinality(A) <= Cardinality(g[n]) /\ Cardinality(A) # Cardinality(g[n])
      BY <2>2, <2>5, FS_Subset
    <3> QED  BY <2>1, <2>2, <2>3, <2>5, <3>1
  <2> QED  BY <2>4, <2>5
<1> HIDE DEF Fine
<1>7. T = {}
  <2>1. SUFFICES ASSUME T # {}  PROVE FALSE
    OBVIOUS
  <2>2. T \subseteq Nat
    BY <1>1
  <2>3. PICK n \in T : \A k \in T : n <= k
    BY <2>1, <2>2, LeastNumber
  <2>4. n # 0 /\ n - 1 \in 0 .. N /\ n - 1 \notin T
    BY <1>1, <1>5, <2>3
  <2> QED  BY <1>6, <2>3, <2>4
<1>8. Fine(N)
  BY <1>1, <1>7
<1>9. /\ g[N] \subseteq RunningPeers(a)
      /\ \A b \in g[N] : CanResume(a, g[N], b)
      /\ Grow(a, g[N]) = g[N]
  BY <1>1, <1>4, <1>8 DEF Fine
<1>10. \A b \in RunningPeers(a) \ g[N] : ~CanResume(a, g[N], b)
  BY <1>9 DEF Grow
<1> QED  BY <1>2, <1>9, <1>10

-----------------------------------------------------------------------------
(* What the other agents hold while the deadlock watch speaks.             *)

\* A blocked turn is in flight.
BlockedRuns == \A x \in Agents : block[x] # "free" => status[x] = "running"

\* A spawn queued for its permit has no session yet; a wake turn's run never queues.
QueuedIsNew ==
  \A x \in Agents : /\ phase[<<x, "spawn">>] = "queued" => status[x] = "none"
                    /\ phase[<<x, "wake">>] # "queued"

\* A wait watches its own agent's runs, every unsettled spawn among them: nothing is
\* spawned by a turn that waits.
WaitsForAll ==
  \A x \in Agents : block[x] = "wait" =>
    /\ \A r \in watched[x] : owner[r[1]] = x
    /\ \A y \in Agents : owner[y] = x /\ phase[<<y, "spawn">>] # "none" => <<y, "spawn">> \in watched[x]

\* The sender of a message that a waiter holds is another agent, back in its turn.
SenderActs ==
  \A x \in Agents : got[x] # None =>
    LET f == msgs[got[x]].from IN f # x /\ status[f] = "running" /\ block[f] = "free"

\* A permit that is free for a queued spawn of a waiter has ended its wait.
GrantWakes ==
  \A x, y \in Agents : owner[y] = x /\ Granted(y) /\ block[x] = "wait" => wake[x] # "no"

Waiters == BlockedRuns /\ QueuedIsNew /\ WaitsForAll /\ SenderActs /\ GrantWakes

\* The two runs of an agent, and the agent of a run.
LEMMA SpawnRuns ==
  ASSUME NEW x \in Agents
  PROVE  <<x, "spawn">> \in Runs /\ <<x, "wake">> \in Runs
BY DEF Runs

LEMMA RunsOf ==
  ASSUME NEW r \in Runs
  PROVE  r[1] \in Agents /\ (r = <<r[1], "spawn">> \/ r = <<r[1], "wake">>)
BY DEF Runs

\* Permits are counted in numbers.
LEMMA FreePermitsType ==
  ASSUME WInv, NEW a
  PROVE  FreePermits(a) \in Int /\ IsFiniteSet(PermitHolders(a))
<1>1. IsFiniteSet(PermitHolders(a))
  <2>1. PermitHolders(a) \subseteq Agents
    BY DEF PermitHolders
  <2> QED  BY <2>1, PeerAssumption, FS_Subset
<1>2. permits \in Int
  BY PeerAssumption DEF WInv, TypeOK
<1> QED  BY <1>1, <1>2, FS_CardinalityType DEF FreePermits

\* While no wait is about to return, no waiter holds a message.
LEMMA QuietSenders ==
  ASSUME WInv, Quiet, got' = got
  PROVE  SenderActs'
BY DEF WInv, OfWait, Quiet, SenderActs

\* Nor is a permit free for a queued spawn, if the queues do not change.
LEMMA QuietGrants ==
  ASSUME Quiet, UNCHANGED <<permits, owner, phase>>
  PROVE  GrantWakes'
<1>1. \A y \in Agents : Granted(y)' = Granted(y)
  BY DEF Granted, FreePermits, PermitHolders
<1> QED  BY <1>1 DEF Quiet, GrantWakes

\* What frees no permit of a waiter that goes on waiting.
LEMMA GrantsGoOn ==
  ASSUME WInv, GrantWakes, permits' = permits,
         \A x, y \in Agents :
           owner'[y] = x /\ phase'[<<y, "spawn">>] = "queued" /\ block'[x] = "wait" =>
             /\ owner[y] = x /\ phase[<<y, "spawn">>] = "queued" /\ block[x] = "wait"
             /\ wake[x] # "no" => wake'[x] # "no"
             /\ wake'[x] # "no" \/ PermitHolders(x) \subseteq PermitHolders(x)'
  PROVE  GrantWakes'
<1> SUFFICES ASSUME NEW x \in Agents, NEW y \in Agents,
                    owner'[y] = x, Granted(y)', block'[x] = "wait", wake'[x] = "no"
             PROVE  FALSE
  BY DEF GrantWakes
<1>1. /\ owner[y] = x /\ phase[<<y, "spawn">>] = "queued" /\ block[x] = "wait" /\ wake[x] = "no"
      /\ PermitHolders(x) \subseteq PermitHolders(x)'
  BY DEF Granted
<1>2. Cardinality(PermitHolders(x)) <= Cardinality(PermitHolders(x)')
      /\ Cardinality(PermitHolders(x)) \in Nat /\ Cardinality(PermitHolders(x)') \in Nat
  <2>1. PermitHolders(x)' \subseteq Agents
    BY DEF PermitHolders
  <2>2. IsFiniteSet(PermitHolders(x)')
    BY <2>1, PeerAssumption, FS_Subset
  <2> QED  BY <1>1, <2>2, FS_Subset, FS_CardinalityType
<1>3. permits \in Nat
  BY PeerAssumption DEF WInv, TypeOK
<1>4. FreePermits(x)' > 0
  BY DEF Granted
<1>5. FreePermits(x) > 0
  BY <1>2, <1>3, <1>4 DEF FreePermits
<1> QED  BY <1>1, <1>5 DEF GrantWakes, Granted

\* A launch gives the agents of new, who had none, an owner and a run.
LEMMA LaunchWaiters ==
  ASSUME WInv, Waiters, NEW a \in Agents, NEW new \in SUBSET Agents, NEW first \in SUBSET Agents,
         Launch(a, new, first), block[a] = "free", status' = status,
         \A x \in Agents \ {a} : block'[x] = block[x] /\ watched'[x] = watched[x],
         block'[a] # "wait"
  PROVE  QueuedIsNew' /\ WaitsForAll' /\ (permits' = permits /\ wake' = wake => GrantWakes')
<1>0. TypeOK /\ QueuedIsNew /\ WaitsForAll
  BY DEF WInv, Waiters
<1>1. /\ \A c \in new : status[c] = "none" /\ owner[c] = None
      /\ \A c \in Agents : owner'[c] = IF c \in new THEN a ELSE owner[c]
  BY <1>0 DEF Launch, TypeOK
<1>2. /\ \A c \in Agents : c \notin new => phase'[<<c, "spawn">>] = phase[<<c, "spawn">>]
      /\ \A c \in Agents : phase'[<<c, "wake">>] = phase[<<c, "wake">>]
  BY SpawnRuns DEF Launch
<1>3. QueuedIsNew'
  BY <1>0, <1>1, <1>2 DEF QueuedIsNew
<1>4. WaitsForAll'
  <2> SUFFICES ASSUME NEW x \in Agents, block'[x] = "wait"
               PROVE  /\ \A r \in watched'[x] : owner'[r[1]] = x
                      /\ \A y \in Agents : owner'[y] = x /\ phase'[<<y, "spawn">>] # "none"
                                           => <<y, "spawn">> \in watched'[x]
    BY DEF WaitsForAll
  <2>1. x # a /\ block[x] = "wait" /\ watched'[x] = watched[x] /\ x # None
    BY PeerAssumption
  <2>2. \A r \in watched[x] : r \in Runs /\ owner[r[1]] = x
    BY <1>0, <2>1 DEF WaitsForAll, TypeOK
  <2>3. \A r \in watched'[x] : owner'[r[1]] = x
    BY <1>1, <2>1, <2>2, RunsOf
  <2>4. ASSUME NEW y \in Agents, owner'[y] = x, phase'[<<y, "spawn">>] # "none"
        PROVE  <<y, "spawn">> \in watched'[x]
    <3>1. y \notin new /\ owner[y] = x
      BY <1>1, <2>1, <2>4
    <3> QED  BY <1>0, <1>2, <2>1, <2>4, <3>1 DEF WaitsForAll
  <2> QED  BY <2>3, <2>4
<1>5. ASSUME permits' = permits, wake' = wake  PROVE GrantWakes'
  <2> SUFFICES ASSUME NEW x \in Agents, NEW y \in Agents,
                      owner'[y] = x, phase'[<<y, "spawn">>] = "queued", block'[x] = "wait"
               PROVE  /\ owner[y] = x /\ phase[<<y, "spawn">>] = "queued" /\ block[x] = "wait"
                      /\ PermitHolders(x) \subseteq PermitHolders(x)'
    BY <1>5, GrantsGoOn DEF Waiters
  <2>1. x # a /\ block[x] = "wait" /\ x # None
    BY PeerAssumption
  <2>2. y \notin new
    BY <1>1, <2>1
  <2>3. \A c \in PermitHolders(x) : c \in Agents /\ c \notin new
    BY <1>1, <2>1 DEF PermitHolders
  <2>4. PermitHolders(x) \subseteq PermitHolders(x)'
    BY <1>1, <1>2, <2>3 DEF PermitHolders
  <2> QED  BY <1>1, <1>2, <2>1, <2>2, <2>4
<1> QED  BY <1>3, <1>4, <1>5

\* A step that starts no run and no wait.
LEMMA RunsGoOn ==
  ASSUME WInv, Waiters, owner' = owner,
         \A x \in Agents : /\ block'[x] = "wait" => block[x] = "wait" /\ watched'[x] = watched[x]
                           /\ phase'[<<x, "spawn">>] # "none" => phase[<<x, "spawn">>] # "none"
  PROVE  WaitsForAll'
BY DEF Waiters, WaitsForAll

\* Each step keeps what the other agents hold.
LEMMA WaitersStep ==
  ASSUME WInv, Waiters, [Next]_vars
  PROVE  Waiters'
<1>0. /\ TypeOK /\ OfWait /\ InFlight /\ HeldByWaiter
      /\ BlockedRuns /\ QueuedIsNew /\ WaitsForAll /\ SenderActs /\ GrantWakes
  BY DEF WInv, Waiters
<1>1. CASE UNCHANGED vars
  <2>1. GrantWakes'
    BY <1>0, <1>1, GrantsGoOn DEF vars, turn, PermitHolders
  <2> QED
    BY <1>0, <1>1, <2>1 DEF vars, turn, Waiters, BlockedRuns, QueuedIsNew, WaitsForAll, SenderActs
<1>2. CASE CheckWaits
  <2>1. UNCHANGED <<permits, status, owner, phase, block, watched, leg, got, due, msgs, waits, kills>>
    BY <1>2 DEF CheckWaits
  <2>2. GrantWakes'
    <3>1. \A x \in Agents : wake[x] # "no" => wake'[x] # "no"
      BY <1>2 DEF CheckWaits
    <3> QED  BY <1>0, <2>1, <3>1, GrantsGoOn DEF PermitHolders
  <2> QED  BY <1>0, <2>1, <2>2 DEF Waiters, BlockedRuns, QueuedIsNew, WaitsForAll, SenderActs
<1>3. ASSUME NEW a \in Agents, SpawnJobs(a)  PROVE Waiters'
  <2>1. Quiet /\ block[a] = "free" /\ UNCHANGED <<permits, status, turn, due, msgs, waits, kills>>
    BY <1>3 DEF SpawnJobs, Turn
  <2>2. QueuedIsNew' /\ WaitsForAll' /\ GrantWakes'
    <3>1. PICK c \in Agents, first \in SUBSET Agents : Launch(a, {c}, first)
      BY <1>3 DEF SpawnJobs
    <3> QED  BY <2>1, <3>1, LaunchWaiters DEF turn
  <2>3. BlockedRuns' /\ SenderActs'
    BY <1>0, <2>1, QuietSenders DEF BlockedRuns, turn
  <2> QED  BY <2>2, <2>3 DEF Waiters
<1>4. ASSUME NEW a \in Agents, SpawnInline(a)  PROVE Waiters'
  <2>1. /\ Turn(a) /\ block' = [block EXCEPT ![a] = "inline"]
        /\ UNCHANGED <<permits, status, leg, wake, got, due, msgs, waits, kills>>
    BY <1>4 DEF SpawnInline
  <2>2. PICK new \in SUBSET Agents, first \in SUBSET Agents :
          Launch(a, new, first) /\ watched' = [watched EXCEPT ![a] = new \X {"spawn"}]
    BY <1>4 DEF SpawnInline
  <2>3. QueuedIsNew' /\ WaitsForAll' /\ GrantWakes'
    <3>1. /\ \A x \in Agents \ {a} : block'[x] = block[x] /\ watched'[x] = watched[x]
          /\ block'[a] # "wait" /\ block[a] = "free"
      BY <1>0, <2>1, <2>2 DEF TypeOK, Turn
    <3> QED  BY <2>1, <2>2, <3>1, LaunchWaiters
  <2>4. BlockedRuns' /\ SenderActs'
    BY <1>0, <2>1, QuietSenders DEF BlockedRuns, TypeOK, Turn
  <2> QED  BY <2>3, <2>4 DEF Waiters
<1>5. ASSUME NEW a \in Agents, EvalWait(a)  PROVE Waiters'
  <2>1. /\ Turn(a) /\ block' = [block EXCEPT ![a] = "eval"]
        /\ \A x \in Agents \ {a} : watched'[x] = watched[x]
        /\ UNCHANGED <<permits, status, owner, phase, leg, wake, got, due, msgs, waits, kills>>
    BY <1>0, <1>5 DEF EvalWait, TypeOK
  <2>2. WaitsForAll'
    BY <1>0, <2>1, RunsGoOn DEF TypeOK
  <2> QED  BY <1>0, <2>1, <2>2, QuietSenders, QuietGrants DEF Waiters, BlockedRuns, QueuedIsNew, TypeOK, Turn
<1>6. ASSUME NEW a \in Agents, Acquire(a)  PROVE Waiters'
  <2>1. /\ phase[<<a, "spawn">>] = "queued" /\ phase' = [phase EXCEPT ![<<a, "spawn">>] = "held"]
        /\ UNCHANGED <<permits, status, owner, turn, due, msgs, waits, kills>>
    BY <1>6 DEF Acquire, Granted
  <2>2. \A r \in Runs : phase'[r] = IF r = <<a, "spawn">> THEN "held" ELSE phase[r]
    BY <1>0, <2>1, SpawnRuns DEF TypeOK
  <2>3. WaitsForAll'
    BY <2>1, <2>2, RunsGoOn, SpawnRuns DEF turn
  <2>4. QueuedIsNew'
    BY <1>0, <2>1, <2>2, SpawnRuns DEF QueuedIsNew
  <2>5. GrantWakes'
    <3>1. \A x \in Agents : PermitHolders(x) \subseteq PermitHolders(x)'
      BY <2>1, <2>2, SpawnRuns DEF PermitHolders
    <3>2. \A y \in Agents : phase'[<<y, "spawn">>] = "queued" => phase[<<y, "spawn">>] = "queued"
      BY <2>2, SpawnRuns
    <3> QED  BY <1>0, <2>1, <3>1, <3>2, GrantsGoOn DEF turn
  <2> QED  BY <1>0, <2>1, <2>3, <2>4, <2>5 DEF Waiters, BlockedRuns, SenderActs, turn
<1>7. ASSUME NEW a \in Agents, Start(a)  PROVE Waiters'
  <2>1. /\ Quiet /\ phase[<<a, "spawn">>] = "held"
        /\ \A x \in Agents : status'[x] = IF x = a THEN "running" ELSE status[x]
        /\ UNCHANGED <<permits, owner, phase, turn, due, msgs, waits, kills>>
    BY <1>0, <1>7 DEF Start, TypeOK
  <2> QED
    BY <1>0, <2>1, QuietSenders, QuietGrants DEF Waiters, BlockedRuns, QueuedIsNew, WaitsForAll, turn
<1>8. ASSUME NEW a \in Agents, Finish(a) \/ Kill(a)  PROVE Waiters'
  <2>1. /\ Quiet /\ got' = got /\ owner' = owner /\ EndRuns(a) /\ block'[a] = "free"
        /\ status[a] = "running"
        /\ \A x \in Agents \ {a} :
             block'[x] = block[x] /\ watched'[x] = watched[x] /\ status'[x] = status[x]
    BY <1>0, <1>8 DEF Finish, Kill, Turn, TypeOK, turn
  <2>2. \A x \in Agents, k \in {"spawn", "wake"} :
          \/ phase'[<<x, k>>] = phase[<<x, k>>]
          \/ phase[<<x, k>>] = "held" /\ phase'[<<x, k>>] = "over"
    BY <2>1, SpawnRuns DEF EndRuns
  <2>3. WaitsForAll'
    BY <2>1, <2>2, RunsGoOn
  <2>4. QueuedIsNew'
    BY <1>0, <2>1, <2>2 DEF QueuedIsNew
  <2>5. BlockedRuns'
    BY <1>0, <2>1 DEF BlockedRuns
  <2>6. GrantWakes'
    <3>1. \A x \in Agents : PermitHolders(x) \subseteq PermitHolders(x)'
      BY <2>1, <2>2 DEF PermitHolders
    <3>2. permits' = permits /\ wake' = wake
      BY <1>8 DEF Finish, Kill, turn
    <3>3. \A y \in Agents : phase'[<<y, "spawn">>] = "queued" => phase[<<y, "spawn">>] = "queued"
      BY <2>2
    <3>4. \A x \in Agents : block'[x] = "wait" => block[x] = "wait"
      BY <2>1
    <3> QED  BY <1>0, <2>1, <3>1, <3>2, <3>3, <3>4, GrantsGoOn
  <2> QED  BY <2>1, <2>3, <2>4, <2>5, <2>6, QuietSenders DEF Waiters
<1>9. ASSUME NEW r \in Runs, Settle(r)  PROVE Waiters'
  <2>1. /\ phase' = [phase EXCEPT ![r] = "none"]
        /\ UNCHANGED <<permits, status, owner, block, leg, got, msgs, waits, kills>>
        /\ \A x \in Agents : block[x] = "wait" => watched'[x] = watched[x]
    BY <1>0, <1>9 DEF Settle, TypeOK
  <2>2. \A s \in Runs : phase'[s] = IF s = r THEN "none" ELSE phase[s]
    BY <1>0, <2>1 DEF TypeOK
  <2>3. WaitsForAll'
    BY <2>1, <2>2, RunsGoOn, SpawnRuns
  <2>4. QueuedIsNew'
    <3>1. \A x \in Agents, k \in {"spawn", "wake"} : phase'[<<x, k>>] \in {"none", phase[<<x, k>>]}
      BY <2>2, SpawnRuns
    <3>2. status' = status
      BY <2>1
    <3> QED  BY <1>0, <3>1, <3>2 DEF QueuedIsNew
  <2>5. GrantWakes'
    <3> SUFFICES ASSUME NEW x \in Agents, NEW y \in Agents,
                        owner[y] = x, phase'[<<y, "spawn">>] = "queued", block[x] = "wait"
                 PROVE  /\ phase[<<y, "spawn">>] = "queued"
                        /\ wake[x] # "no" => wake'[x] # "no"
                        /\ wake'[x] # "no" \/ PermitHolders(x) \subseteq PermitHolders(x)'
      BY <1>0, <2>1, GrantsGoOn
    <3>1. phase[<<y, "spawn">>] = "queued"
      BY <2>2, SpawnRuns
    <3>2. wake[x] # "no" => wake'[x] # "no"
      BY <1>0, <1>9 DEF Settle, TypeOK
    <3>3. CASE \E c \in PermitHolders(x) : r = <<c, "spawn">>
      <4>1. PICK c \in Agents : r = <<c, "spawn">> /\ owner[c] = x
        BY <3>3 DEF PermitHolders
      <4>2. phase[r] = "over"
        BY <1>9 DEF Settle
      <4>3. r \in watched[x]
        BY <1>0, <4>1, <4>2 DEF WaitsForAll
      <4>4. wake'[x] # "no"
        <5>1. owner[r[1]] = x
          BY <4>1
        <5> QED  BY <1>0, <1>9, <4>3, <5>1 DEF Settle, TypeOK
      <4> QED  BY <3>1, <4>4
    <3>4. CASE \A c \in PermitHolders(x) : r # <<c, "spawn">>
      <4>1. \A c \in PermitHolders(x) : phase'[<<c, "spawn">>] = phase[<<c, "spawn">>]
        BY <2>2, <3>4, SpawnRuns DEF PermitHolders
      <4>2. owner' = owner
        BY <2>1
      <4> QED  BY <3>1, <3>2, <4>1, <4>2 DEF PermitHolders
    <3> QED  BY <3>3, <3>4
  <2> QED  BY <1>0, <2>1, <2>3, <2>4, <2>5 DEF Waiters, BlockedRuns, SenderActs
<1>10. ASSUME NEW a \in Agents, Resume(a)  PROVE Waiters'
  <2>1. /\ Quiet /\ block' = [block EXCEPT ![a] = "free"] /\ watched' = [watched EXCEPT ![a] = {}]
        /\ UNCHANGED <<permits, status, owner, phase, leg, wake, got, msgs, waits, kills>>
    BY <1>10 DEF Resume
  <2>2. WaitsForAll'
    BY <1>0, <2>1, RunsGoOn DEF TypeOK
  <2> QED  BY <1>0, <2>1, <2>2, QuietSenders, QuietGrants DEF Waiters, BlockedRuns, QueuedIsNew, TypeOK
<1>11. ASSUME NEW a \in Agents, NEW r \in Runs, DeliverResult(a, r)  PROVE Waiters'
  <2>1. /\ Quiet /\ status[a] \in {"running", "idle"} /\ status' = [status EXCEPT ![a] = "running"]
        /\ UNCHANGED <<permits, owner, phase, block, watched, leg, got, msgs, waits, kills>>
    BY <1>11 DEF DeliverResult
  <2> QED
    BY <1>0, <2>1, QuietSenders, QuietGrants DEF Waiters, BlockedRuns, QueuedIsNew, WaitsForAll, TypeOK
<1>12. ASSUME NEW a \in Agents, Wait(a)  PROVE Waiters'
  <2>1. /\ Turn(a) /\ block' = [block EXCEPT ![a] = "wait"]
        /\ watched' = [watched EXCEPT ![a] = OwnedRuns(a)]
        /\ UNCHANGED <<permits, status, owner, phase, wake, got, due, msgs, kills>>
    BY <1>12 DEF Wait
  <2>2. WaitsForAll'
    <3>1. \A x \in Agents \ {a} : block'[x] = block[x] /\ watched'[x] = watched[x]
      BY <1>0, <2>1 DEF TypeOK
    <3>2. watched'[a] = OwnedRuns(a)
      BY <1>0, <2>1 DEF TypeOK
    <3>3. /\ \A r \in OwnedRuns(a) : owner[r[1]] = a
          /\ \A y \in Agents : owner[y] = a /\ phase[<<y, "spawn">>] # "none"
                               => <<y, "spawn">> \in OwnedRuns(a)
      BY SpawnRuns DEF OwnedRuns
    <3> QED  BY <1>0, <2>1, <3>1, <3>2, <3>3 DEF WaitsForAll
  <2> QED  BY <1>0, <2>1, <2>2, QuietSenders, QuietGrants DEF Waiters, BlockedRuns, QueuedIsNew, TypeOK, Turn
<1>13. ASSUME NEW a \in Agents, LegEnds(a)  PROVE Waiters'
  <2>1. UNCHANGED <<permits, status, owner, phase, block, watched, leg, got, due, msgs, waits, kills>>
    BY <1>13 DEF LegEnds
  <2>2. GrantWakes'
    BY <1>13, <2>1, QuietGrants DEF LegEnds
  <2> QED  BY <1>0, <2>1, <2>2 DEF Waiters, BlockedRuns, QueuedIsNew, WaitsForAll, SenderActs
<1>14. ASSUME NEW a \in Agents, WaitReturn(a)  PROVE Waiters'
  <2>1. /\ block' = [block EXCEPT ![a] = "free"] /\ watched' = [watched EXCEPT ![a] = {}]
        /\ got' = [got EXCEPT ![a] = None]
        /\ UNCHANGED <<permits, status, owner, phase, waits, kills>>
    BY <1>14 DEF WaitReturn
  <2>2. WaitsForAll'
    BY <1>0, <2>1, RunsGoOn DEF TypeOK
  <2>3. \A m \in Msgs : msgs'[m].from = msgs[m].from
    <3>1. CASE got[a] = None
      BY <1>14, <3>1 DEF WaitReturn, OfWait
    <3>2. CASE got[a] # None
      <4>1. got[a] \in Msgs /\ msgs' = [msgs EXCEPT ![got[a]].st = "read"]
        BY <1>0, <1>14, <3>2 DEF WaitReturn, TypeOK
      <4> QED  BY <1>0, <4>1, RecordUpdate DEF MsgState
    <3> QED  BY <3>1, <3>2
  <2>4. SenderActs'
    BY <1>0, <2>1, <2>3 DEF SenderActs, TypeOK
  <2>5. GrantWakes'
    <3>1. \A x \in Agents : block'[x] = "wait" => block[x] = "wait" /\ wake'[x] = wake[x]
      BY <1>0, <1>14, <2>1 DEF WaitReturn, TypeOK
    <3> QED  BY <1>0, <2>1, <3>1, GrantsGoOn DEF PermitHolders
  <2> QED  BY <1>0, <2>1, <2>2, <2>4, <2>5 DEF Waiters, BlockedRuns, QueuedIsNew, TypeOK
<1>15. ASSUME NEW a \in Agents, NEW m \in Msgs, Send(a, m)  PROVE Waiters'
  <2>1. /\ Turn(a) /\ block' = [block EXCEPT ![a] = "send"]
        /\ UNCHANGED <<permits, status, owner, phase, watched, leg, wake, got, due, waits, kills>>
    BY <1>15 DEF Send
  <2>2. WaitsForAll'
    BY <1>0, <2>1, RunsGoOn DEF TypeOK
  <2> QED  BY <1>0, <2>1, <2>2, QuietSenders, QuietGrants DEF Waiters, BlockedRuns, QueuedIsNew, TypeOK, Turn
<1>16. ASSUME NEW m \in Msgs, HandOff(m)  PROVE Waiters'
  <2> DEFINE to   == msgs[m].to
             from == msgs[m].from
  <2>1. /\ to \in Agents /\ from \in Agents /\ msgs[m].st = "flight"
        /\ block[from] = "send" /\ status[from] = "running"
        /\ \A x \in Agents : block'[x] = IF x = from THEN "free" ELSE block[x]
        /\ UNCHANGED <<permits, owner, watched, leg, due, waits, kills>>
    BY <1>0, <1>16 DEF HandOff, InFlight, BlockedRuns, TypeOK
  <2>2. \A n \in Msgs : msgs'[n].from = msgs[n].from
    BY <1>0, <1>16 DEF HandOff, TypeOK
  <2>3. /\ \A x \in Agents : status'[x] = status[x] \/ (status[x] = "idle" /\ status'[x] = "running")
        /\ \A x \in Agents : phase'[<<x, "spawn">>] = phase[<<x, "spawn">>]
        /\ \A x \in Agents : phase'[<<x, "wake">>] \in {phase[<<x, "wake">>], "held"}
    <3>1. CASE UNCHANGED <<status, phase>>
      BY <3>1
    <3>2. CASE /\ status[to] = "idle" /\ status' = [status EXCEPT ![to] = "running"]
               /\ phase' = [r \in Runs |-> IF r = <<to, "wake">> /\ phase[r] = "none" /\ to # Main
                                           THEN "held" ELSE phase[r]]
      <4>1. \A x \in Agents : <<x, "spawn">> # <<to, "wake">>
        OBVIOUS
      <4> QED  BY <1>0, <3>2, <4>1, SpawnRuns DEF TypeOK
    <3> QED  BY <1>16, <3>1, <3>2 DEF HandOff
  <2>4. got' = got \/ (got' = [got EXCEPT ![to] = m] /\ block[to] = "wait")
    BY <1>16 DEF HandOff, HasWaiter
  <2> HIDE DEF to
  <2>5. WaitsForAll'
    BY <2>1, <2>3, RunsGoOn
  <2>6. SenderActs'
    <3> SUFFICES ASSUME NEW x \in Agents, got'[x] # None
                 PROVE  LET f == msgs'[got'[x]].from
                        IN  f # x /\ status'[f] = "running" /\ block'[f] = "free"
      BY DEF SenderActs
    <3>1. CASE got'[x] = got[x]
      <4>1. got[x] \in Msgs /\ msgs[got[x]].from \in Agents
        BY <1>0, <3>1 DEF TypeOK, HeldByWaiter, InFlight
      <4> QED  BY <1>0, <2>1, <2>2, <2>3, <3>1, <4>1 DEF SenderActs
    <3>2. CASE got'[x] # got[x]
      <4>1. x = to /\ got'[x] = m /\ block[x] = "wait"
        BY <1>0, <2>4, <3>2 DEF TypeOK
      <4> QED  BY <2>1, <2>2, <2>3, <4>1
    <3> QED  BY <3>1, <3>2
  <2>7. BlockedRuns' /\ QueuedIsNew'
    BY <1>0, <2>1, <2>3 DEF BlockedRuns, QueuedIsNew
  <2>8. GrantWakes'
    <3>1. \A x \in Agents : PermitHolders(x)' = PermitHolders(x)
      BY <2>1, <2>3 DEF PermitHolders
    <3>2. \A x \in Agents : wake[x] # "no" => wake'[x] # "no"
      BY <1>0, <1>16 DEF HandOff, TypeOK
    <3>3. \A x \in Agents : block'[x] = "wait" => block[x] = "wait"
      BY <2>1
    <3> QED  BY <1>0, <2>1, <2>3, <3>1, <3>2, <3>3, GrantsGoOn
  <2> QED  BY <2>5, <2>6, <2>7, <2>8 DEF Waiters
<1>17. ASSUME NEW m \in Msgs, Read(m)  PROVE Waiters'
  <2>1. /\ Quiet /\ UNCHANGED <<permits, status, owner, phase, turn, due, waits, kills>>
    BY <1>17 DEF Read, Turn
  <2> QED
    BY <1>0, <2>1, QuietSenders, QuietGrants DEF Waiters, BlockedRuns, QueuedIsNew, WaitsForAll, turn
<1> QED
  BY <1>1, <1>2, <1>3, <1>4, <1>5, <1>6, <1>7, <1>8, <1>9, <1>10, <1>11, <1>12, <1>13, <1>14,
     <1>15, <1>16, <1>17 DEF Next, Coordinate

LEMMA WaitersInit == Init => Waiters
BY SpawnRuns, PeerAssumption DEF Init, Waiters, BlockedRuns, QueuedIsNew, WaitsForAll, SenderActs, GrantWakes, Granted

\* What cannot land without the caller is the caller or a peer that cannot act.
LEMMA WhatDoesNotLand ==
  ASSUME NEW a, NEW actors, NEW c, ~Lands(a, actors, c)
  PROVE  c \in {a} \cup (RunningPeers(a) \ actors)
BY DEF Lands

\* The caller of a message-only wait and the peers that cannot act are stuck together.
LEMMA RestIsStuck ==
  ASSUME WInv, Waiters, NEW a \in Agents, MessageOnly(a)
  PROVE  Stuck({a} \cup (RunningPeers(a) \ PeersThatCanAct(a)))
<1> DEFINE actors == PeersThatCanAct(a)
           S      == {a} \cup (RunningPeers(a) \ actors)
<1>0. TypeOK /\ BlockedRuns /\ QueuedIsNew /\ WaitsForAll /\ GrantWakes
  BY DEF WInv, Waiters
<1>1. \A b \in RunningPeers(a) \ actors : ~CanResume(a, actors, b)
  BY ActorsAreClosed
<1>2. \A c : ~Lands(a, actors, c) => c \in S
  BY WhatDoesNotLand
<1>3. \A b \in S : b \in Agents /\ status[b] = "running"
  BY <1>0 DEF RunningPeers, MessageOnly, BlockedRuns
<1> HIDE DEF actors, S
<1>4. \A b \in S : b = a \/ ~CanResume(a, actors, b)
  BY <1>1 DEF S
<1> SUFFICES ASSUME NEW b \in S
             PROVE  \/ block[b] \in {"inline", "eval"} /\ \E r \in watched[b] : StuckOn(S, b, r)
                    \/ block[b] = "wait" /\ ~leg[b] /\ \A r \in watched[b] : StuckOn(S, b, r)
  BY <1>3 DEF Stuck, S, actors
<1>5. CASE b = a
  BY <1>5 DEF MessageOnly
<1>6. CASE ~CanResume(a, actors, b) /\ block[b] = "wait"
  <2>1. ~leg[b] /\ \A c \in Listed(b) : c \in S
    BY <1>2, <1>6 DEF CanResume
  <2>2. \A r \in watched[b] : phase[r] # "queued" => r[1] \in S
    BY <1>6, <2>1 DEF Listed
  <2>3. ASSUME NEW c \in PermitHolders(b)  PROVE c \in S
    <3>1. owner[c] = b /\ phase[<<c, "spawn">>] \in {"held", "over"} /\ c \in Agents
      BY <2>3 DEF PermitHolders
    <3>2. <<c, "spawn">> \in watched[b] /\ phase[<<c, "spawn">>] # "queued"
      BY <1>0, <1>3, <1>6, <3>1 DEF WaitsForAll
    <3> QED  BY <2>2, <3>2
  <2>4. ASSUME NEW r \in watched[b], phase[r] = "queued"
        PROVE  FreePermits(b) <= 0 \/ wake[b] # "no"
    <3>1. r \in Runs /\ owner[r[1]] = b
      BY <1>0, <1>3, <1>6, <2>4 DEF TypeOK, WaitsForAll
    <3>2. r[1] \in Agents /\ r = <<r[1], "spawn">>
      BY <1>0, <2>4, <3>1, RunsOf DEF QueuedIsNew
    <3>3. ~Granted(r[1]) \/ wake[b] # "no"
      BY <1>0, <1>3, <1>6, <3>1, <3>2 DEF GrantWakes
    <3>4. FreePermits(b) \in Int
      BY FreePermitsType
    <3> QED  BY <2>4, <3>1, <3>2, <3>3, <3>4 DEF Granted
  <2> QED  BY <1>6, <2>1, <2>2, <2>3, <2>4 DEF StuckOn
<1>7. CASE ~CanResume(a, actors, b) /\ block[b] \in {"inline", "eval"}
  <2>1. PICK c \in Listed(b) : c \in S
    BY <1>2, <1>7 DEF CanResume
  <2>2. PICK r \in watched[b] : r[1] = c
    BY <1>7, <2>1 DEF Listed
  <2>3. r \in Runs /\ status[r[1]] = "running"
    BY <1>0, <1>3, <2>1, <2>2 DEF TypeOK
  <2>4. phase[r] # "queued"
    BY <1>0, <2>3, RunsOf DEF QueuedIsNew
  <2> QED  BY <1>7, <2>1, <2>2, <2>4 DEF StuckOn
<1>8. CASE ~CanResume(a, actors, b) /\ block[b] \notin {"wait", "inline", "eval"}
  BY <1>8 DEF CanResume
<1> QED  BY <1>4, <1>5, <1>6, <1>7, <1>8

\* Told "owner": the peer blocked on the caller cannot act, nor can what it awaits
\* besides.  Told "silent": nobody can act, a message in somebody's hands included.
LEMMA ToldIsStuck ==
  ASSUME WInv, Waiters, NEW a \in Agents, Verdict(a) \in {"owner", "silent"}
  PROVE  \E S \in SUBSET Agents :
           a \in S /\ Stuck(S) /\ (AwaitedFrom(S, a) \/ NobodyElseRuns(S))
<1> DEFINE actors == PeersThatCanAct(a)
           S      == {a} \cup (RunningPeers(a) \ actors)
<1>0. /\ TypeOK /\ InFlight /\ HeldByWaiter
      /\ BlockedRuns /\ QueuedIsNew /\ WaitsForAll /\ SenderActs
  BY DEF WInv, Waiters
<1>1. MessageOnly(a) /\ (PeerAwaitingCaller(a, actors) \/ actors = {})
  BY DEF Verdict
<1>2. S \in SUBSET Agents /\ a \in S /\ Stuck(S)
  BY <1>1, RestIsStuck DEF RunningPeers
<1>3. \A b \in actors : CanResume(a, actors, b)
  BY ActorsAreClosed
<1> HIDE DEF actors
<1>4. CASE PeerAwaitingCaller(a, actors)
  <2>1. PICK b \in RunningPeers(a) :
          /\ Awaits(b) /\ a \in Listed(b)
          /\ \/ block[b] # "wait"
             \/ ~leg[b] /\ \A c \in Listed(b) : ~Lands(a, actors, c)
          /\ Listed(b) \cap actors = {}
    BY <1>4 DEF PeerAwaitingCaller
  <2>2. ~CanResume(a, actors, b)
    BY <2>1 DEF CanResume, Awaits, Lands
  <2>3. b \in S
    BY <1>3, <2>1, <2>2
  <2>4. \E r \in watched[b] : r[1] = a
    BY <2>1 DEF Listed
  <2>5. ASSUME NEW r \in watched[b], status[r[1]] = "running"  PROVE r[1] \in S
    <3>1. r \in Runs /\ r[1] \in Agents /\ phase[r] # "queued"
      <4>1. r \in Runs /\ r[1] \in Agents
        BY <1>0, <2>1, RunsOf DEF TypeOK, RunningPeers
      <4> QED  BY <1>0, <2>5, <4>1, RunsOf DEF QueuedIsNew
    <3>2. r[1] \in Listed(b)
      BY <3>1 DEF Listed
    <3> QED  BY <2>1, <2>5, <3>1, <3>2 DEF RunningPeers
  <2>6. AwaitedFrom(S, a)
    <3> HIDE DEF S
    <3> QED  BY <2>3, <2>4, <2>5 DEF AwaitedFrom
  <2> QED  BY <1>2, <2>6
<1>5. CASE actors = {}
  <2>1. \A b \in Agents : status[b] = "running" => b \in S
    BY <1>5 DEF RunningPeers
  <2> HIDE DEF S
  <2>2. ASSUME NEW b \in Agents, got[b] # None  PROVE FALSE
    <3>1. got[b] \in Msgs /\ msgs[got[b]].from \in Agents
      BY <1>0, <2>2 DEF TypeOK, HeldByWaiter, InFlight
    <3>2. status[msgs[got[b]].from] = "running" /\ block[msgs[got[b]].from] = "free"
      BY <1>0, <2>2 DEF SenderActs
    <3> QED  BY <1>2, <2>1, <3>1, <3>2 DEF Stuck
  <2> QED  BY <1>2, <2>1, <2>2 DEF NobodyElseRuns
<1> QED  BY <1>1, <1>4, <1>5

\* No other step tells a waiter so.
LEMMA ToldByTheWatch ==
  ASSUME WInv, [Next]_vars, NEW a \in Agents, wake[a] = "no", wake'[a] \in {"owner", "silent"}
  PROVE  Verdict(a) \in {"owner", "silent"}
<1>0. wake \in [Agents -> Wakes]
  BY DEF WInv, TypeOK
<1>1. CASE CheckWaits
  BY <1>1 DEF CheckWaits
<1>2. CASE UNCHANGED wake
  BY <1>2
<1>3. ASSUME NEW b \in Agents, NEW w \in {"no", "job", "leg", "message", "interrupt"},
             wake' = wake \/ wake' = [wake EXCEPT ![b] = w]
      PROVE  FALSE
  BY <1>0, <1>3
<1>4. ASSUME NEW b \in Agents,
             \/ LegEnds(b) \/ WaitReturn(b) \/ \E r \in Runs : DeliverResult(b, r)
      PROVE  FALSE
  <2>1. \E w \in {"no", "leg", "interrupt"} : wake' = wake \/ wake' = [wake EXCEPT ![b] = w]
    BY <1>4 DEF LegEnds, WaitReturn, DeliverResult
  <2> QED  BY <1>3, <2>1
<1>5. ASSUME NEW r \in Runs, Settle(r)  PROVE FALSE
  <2>1. wake' = wake \/ wake' = [wake EXCEPT ![owner[r[1]]] = "job"]
    BY <1>5 DEF Settle
  <2> QED  BY <1>0, <2>1
<1>6. ASSUME NEW m \in Msgs, HandOff(m)  PROVE FALSE
  <2>1. \/ wake' = wake
        \/ wake' = [wake EXCEPT ![msgs[m].to] = IF @ = "no" THEN "message" ELSE @]
    BY <1>6 DEF HandOff
  <2> QED  BY <1>0, <2>1
<1> QED
  BY <1>1, <1>2, <1>4, <1>5, <1>6
     DEF Next, Coordinate, Acquire, Start, Resume, SpawnJobs, SpawnInline, EvalWait, Wait, Finish,
         Kill, Send, Read, turn, vars

\* A waiter that the deadlock watch ends is really caught in a knot of agents waiting for
\* each other, whatever messages, settlements, kills and queued spawns came before: the
\* watch never breaks a wait that somebody outside the knot could still end, save where
\* ToldForAReason's comment says.
THEOREM ToldOnlyWhenStuck == Spec => ToldForAReason
<1>1. WInv /\ Waiters /\ [Next]_vars => WInv' /\ Waiters'
  BY WaitStep, WaitersStep
<1>2. WInv /\ Waiters /\ [Next]_vars =>
        [\A a \in Agents :
           wake[a] = "no" /\ wake'[a] \in {"owner", "silent"} =>
             \E S \in SUBSET Agents :
               a \in S /\ Stuck(S) /\ (AwaitedFrom(S, a) \/ NobodyElseRuns(S))]_vars
  BY ToldByTheWatch, ToldIsStuck
<1>3. Init => WInv /\ Waiters
  BY WaitInit, WaitersInit
<1> QED  BY <1>1, <1>2, <1>3, PTL DEF Spec, ToldForAReason

-----------------------------------------------------------------------------
(* The other way round: a deadlock does not go unseen.                     *)

\* Whoever spawned has a session, and a turn awaits runs of its own.  An owner
\* is older than what it spawns, so that nobody waits for itself.
OwnersStarted == \A x \in Agents : owner[x] \in Agents => status[owner[x]] # "none"

HoldsOwn ==
  \A x \in Agents : block[x] \in {"inline", "eval"} =>
    \A r \in watched[x] : owner[r[1]] = x /\ (QueueInline \/ phase[r] # "queued")

Older(f) == \A x \in Agents : owner[x] \in Agents => f[x] < f[owner[x]]

OwnersAreOlder == \E f \in [Agents -> Nat] : Older(f)

Owners == OwnersStarted /\ HoldsOwn /\ OwnersAreOlder

\* A step that changes no owner.
LEMMA SameOwners ==
  ASSUME Owners, owner' = owner,
         \A x \in Agents : status[x] # "none" => status'[x] # "none"
  PROVE  OwnersStarted' /\ OwnersAreOlder'
BY DEF Owners, OwnersStarted, OwnersAreOlder, Older

\* A step that blocks no turn inline, and queues no run.
LEMMA SameHolds ==
  ASSUME Owners, owner' = owner,
         \A x \in Agents : block'[x] \in {"inline", "eval"} =>
           block[x] = block'[x] /\ watched'[x] \subseteq watched[x],
         \A r \in Runs : phase'[r] = "queued" => phase[r] = "queued",
         watched \in [Agents -> SUBSET Runs]
  PROVE  HoldsOwn'
BY DEF Owners, HoldsOwn

\* A launch makes its agents the youngest.
LEMMA LaunchOwners ==
  ASSUME WInv, Owners, NEW a \in Agents, NEW new \in SUBSET Agents, NEW first \in SUBSET Agents,
         Launch(a, new, first), block[a] = "free", status[a] = "running", status' = status,
         \A x \in Agents \ {a} : block'[x] = block[x] /\ watched'[x] = watched[x],
         block'[a] \in {"inline", "eval"} =>
           watched'[a] = new \X {"spawn"} /\ (QueueInline \/ first = new)
  PROVE  Owners'
<1>0. TypeOK /\ OwnersStarted /\ HoldsOwn /\ OwnersAreOlder
  BY DEF WInv, Owners
<1>1. /\ \A c \in new : status[c] = "none" /\ owner[c] = None /\ c # a
      /\ \A c \in Agents : owner'[c] = IF c \in new THEN a ELSE owner[c]
  BY <1>0 DEF Launch, TypeOK
<1>2. /\ \A r \in Runs : r \notin new \X {"spawn"} => phase'[r] = phase[r]
      /\ \A r \in Runs : r \in new \X {"spawn"} /\ first = new => phase'[r] = "held"
  BY DEF Launch
<1>3. \A c \in Agents : owner[c] \in Agents => owner[c] \notin new /\ c \notin new
  BY <1>0, <1>1, PeerAssumption DEF OwnersStarted
<1>4. OwnersStarted'
  BY <1>0, <1>1 DEF OwnersStarted
<1>5. OwnersAreOlder'
  <2>1. PICK f \in [Agents -> Nat] : Older(f)
    BY <1>0 DEF OwnersAreOlder
  <2> DEFINE g == [x \in Agents |-> IF x \in new THEN 0 ELSE f[x] + 1]
  <2>2. g \in [Agents -> Nat]
    OBVIOUS
  <2>3. ASSUME NEW x \in Agents, owner'[x] \in Agents  PROVE g[x] < g[owner'[x]]
    <3>1. CASE x \in new
      BY <1>1, <3>1
    <3>2. CASE x \notin new
      <4>1. owner'[x] = owner[x] /\ owner[x] \in Agents /\ owner[x] \notin new
        BY <1>1, <1>3, <2>3, <3>2
      <4>2. f[x] < f[owner[x]] /\ f[x] \in Nat /\ f[owner[x]] \in Nat
        BY <2>1, <4>1 DEF Older
      <4> QED  BY <3>2, <4>1, <4>2
    <3> QED  BY <3>1, <3>2
  <2> HIDE DEF g
  <2> QED  BY <2>2, <2>3 DEF OwnersAreOlder, Older
<1>6. HoldsOwn'
  <2> SUFFICES ASSUME NEW x \in Agents, block'[x] \in {"inline", "eval"}, NEW r \in watched'[x]
               PROVE  owner'[r[1]] = x /\ (QueueInline \/ phase'[r] # "queued")
    BY DEF HoldsOwn
  <2>1. CASE x = a
    <3>1. r \in new \X {"spawn"} /\ r \in Runs /\ (QueueInline \/ first = new)
      BY <2>1 DEF Runs
    <3>2. r[1] \in new
      BY <3>1
    <3> QED  BY <1>1, <1>2, <2>1, <3>1, <3>2
  <2>2. CASE x # a
    <3>1. r \in Runs /\ r[1] \in Agents /\ owner[r[1]] = x /\ (QueueInline \/ phase[r] # "queued")
      BY <1>0, <2>2, RunsOf DEF HoldsOwn, TypeOK
    <3>2. r[1] \notin new
      BY <1>3, <3>1
    <3>3. r \notin new \X {"spawn"}
      BY <3>2
    <3> QED  BY <1>1, <1>2, <3>1, <3>2, <3>3
  <2> QED  BY <2>1, <2>2
<1> QED  BY <1>4, <1>5, <1>6 DEF Owners

\* Each step keeps who owns and holds what.
LEMMA OwnersStep ==
  ASSUME WInv, Waiters, Owners, [Next]_vars
  PROVE  Owners'
<1>0. TypeOK /\ OfWait /\ BlockedRuns
  BY DEF WInv, Waiters
<1>1. ASSUME NEW a \in Agents, SpawnJobs(a)  PROVE Owners'
  <2>1. PICK c \in Agents, first \in SUBSET Agents : Launch(a, {c}, first)
    BY <1>1 DEF SpawnJobs
  <2> QED  BY <1>1, <2>1, LaunchOwners DEF SpawnJobs, Turn, turn
<1>2. ASSUME NEW a \in Agents, SpawnInline(a)  PROVE Owners'
  <2>1. PICK new \in SUBSET Agents, first \in SUBSET Agents :
          /\ Launch(a, new, first) /\ (QueueInline \/ first = new)
          /\ watched' = [watched EXCEPT ![a] = new \X {"spawn"}]
    BY <1>2 DEF SpawnInline
  <2>2. /\ watched'[a] = new \X {"spawn"} /\ block[a] = "free" /\ status[a] = "running"
        /\ \A x \in Agents \ {a} : block'[x] = block[x] /\ watched'[x] = watched[x]
        /\ status' = status
    BY <1>0, <1>2, <2>1 DEF SpawnInline, Turn, TypeOK
  <2> QED  BY <2>1, <2>2, LaunchOwners
<1>3. ASSUME NEW a \in Agents, EvalWait(a)  PROVE Owners'
  <2>1. /\ block' = [block EXCEPT ![a] = "eval"]
        /\ UNCHANGED <<permits, status, owner, phase, leg, wake, got, due, msgs, waits, kills>>
    BY <1>3 DEF EvalWait
  <2>2. PICK runs \in SUBSET {r \in OwnedRuns(a) : phase[r] # "queued"} :
          watched' = [watched EXCEPT ![a] = runs]
    BY <1>3 DEF EvalWait
  <2>3. HoldsOwn'
    <3> SUFFICES ASSUME NEW x \in Agents, block'[x] \in {"inline", "eval"}, NEW r \in watched'[x]
                 PROVE  owner[r[1]] = x /\ (QueueInline \/ phase[r] # "queued")
      BY <2>1 DEF HoldsOwn
    <3>1. CASE x = a
      BY <1>0, <2>2, <3>1 DEF TypeOK, OwnedRuns
    <3>2. CASE x # a
      BY <1>0, <2>1, <2>2, <3>2 DEF TypeOK, Owners, HoldsOwn
    <3> QED  BY <3>1, <3>2
  <2> QED  BY <2>1, <2>3, SameOwners DEF Owners
<1>4. ASSUME owner' = owner,
             \A x \in Agents : status[x] # "none" => status'[x] # "none",
             \A x \in Agents : block'[x] \in {"inline", "eval"} =>
               block[x] = block'[x] /\ watched'[x] \subseteq watched[x],
             \A r \in Runs : phase'[r] = "queued" => phase[r] = "queued"
      PROVE  Owners'
  BY <1>0, <1>4, SameOwners, SameHolds DEF Owners, TypeOK
<1>5. CASE UNCHANGED vars \/ CheckWaits
  BY <1>4, <1>5 DEF vars, turn, CheckWaits
<1>6. ASSUME NEW a \in Agents, Acquire(a)  PROVE Owners'
  <2>1. phase' = [phase EXCEPT ![<<a, "spawn">>] = "held"] /\ UNCHANGED <<status, owner, turn>>
    BY <1>6 DEF Acquire
  <2>2. \A r \in Runs : phase'[r] = "queued" => phase[r] = "queued"
    BY <1>0, <2>1, SpawnRuns DEF TypeOK
  <2> QED  BY <1>4, <2>1, <2>2 DEF turn
<1>7. ASSUME NEW a \in Agents, Start(a)  PROVE Owners'
  <2>1. status' = [status EXCEPT ![a] = "running"] /\ UNCHANGED <<owner, phase, turn>>
    BY <1>7 DEF Start
  <2>2. \A x \in Agents : status[x] # "none" => status'[x] # "none"
    BY <1>0, <2>1 DEF TypeOK
  <2> QED  BY <1>4, <2>1, <2>2 DEF turn
<1>8. ASSUME NEW a \in Agents, Finish(a) \/ Kill(a)  PROVE Owners'
  <2>1. /\ owner' = owner /\ EndRuns(a) /\ block'[a] = "free"
        /\ \A x \in Agents \ {a} : block'[x] = block[x] /\ watched'[x] = watched[x]
        /\ \A x \in Agents : status[x] # "none" => status'[x] # "none"
    BY <1>0, <1>8 DEF Finish, Kill, Turn, TypeOK, turn
  <2>2. \A r \in Runs : phase'[r] = "queued" => phase[r] = "queued"
    BY <2>1 DEF EndRuns
  <2>3. \A x \in Agents : block'[x] \in {"inline", "eval"} =>
          block[x] = block'[x] /\ watched'[x] \subseteq watched[x]
    BY <2>1
  <2> QED  BY <1>4, <2>1, <2>2, <2>3
<1>9. ASSUME NEW r \in Runs, Settle(r)  PROVE Owners'
  <2>1. phase' = [phase EXCEPT ![r] = "none"] /\ UNCHANGED <<status, owner, block>>
    BY <1>9 DEF Settle
  <2>2. \A s \in Runs : phase'[s] = "queued" => phase[s] = "queued"
    BY <1>0, <2>1 DEF TypeOK
  <2>3. \A x \in Agents : watched'[x] \subseteq watched[x]
    BY <1>0, <1>9 DEF Settle, TypeOK
  <2> QED  BY <1>4, <2>1, <2>2, <2>3
<1>10. ASSUME NEW a \in Agents, \/ Resume(a) \/ LegEnds(a) \/ WaitReturn(a) \/ Wait(a)
                                \/ \E m \in Msgs : Send(a, m)
                                \/ \E r \in Runs : DeliverResult(a, r)
      PROVE  Owners'
  <2>1. UNCHANGED <<owner, phase>>
    BY <1>10 DEF Resume, LegEnds, WaitReturn, Wait, Send, DeliverResult
  <2>2. \A x \in Agents : status[x] # "none" => status'[x] # "none"
    BY <1>0, <1>10 DEF Resume, LegEnds, WaitReturn, Wait, Send, DeliverResult, TypeOK
  <2>3. /\ \A x \in Agents \ {a} : block'[x] = block[x] /\ watched'[x] = watched[x]
        /\ block'[a] \in {"free", "wait", "send"} \/ UNCHANGED <<block, watched>>
    BY <1>0, <1>10 DEF Resume, LegEnds, WaitReturn, Wait, Send, DeliverResult, TypeOK
  <2>4. \A x \in Agents : block'[x] \in {"inline", "eval"} =>
          block[x] = block'[x] /\ watched'[x] \subseteq watched[x]
    BY <2>3
  <2> QED  BY <1>4, <2>1, <2>2, <2>4
<1>11. ASSUME NEW m \in Msgs, HandOff(m)  PROVE Owners'
  <2>1. UNCHANGED <<owner, watched>> /\ block' = [block EXCEPT ![msgs[m].from] = "free"]
    BY <1>11 DEF HandOff
  <2>2. \A x \in Agents : status[x] # "none" => status'[x] # "none"
    BY <1>0, <1>11 DEF HandOff, TypeOK
  <2>3. \A r \in Runs : phase'[r] = "queued" => phase[r] = "queued"
    BY <1>0, <1>11 DEF HandOff, TypeOK
  <2>4. \A x \in Agents : block'[x] \in {"inline", "eval"} => block[x] = block'[x]
    BY <1>0, <2>1 DEF TypeOK
  <2> QED  BY <1>4, <2>1, <2>2, <2>3, <2>4
<1>12. ASSUME NEW m \in Msgs, Read(m)  PROVE Owners'
  BY <1>4, <1>12 DEF Read, turn
<1> QED
  BY <1>1, <1>2, <1>3, <1>5, <1>6, <1>7, <1>8, <1>9, <1>10, <1>11, <1>12 DEF Next, Coordinate

LEMMA OwnersInit == Init => Owners
<1> SUFFICES ASSUME Init  PROVE Owners
  OBVIOUS
<1>1. \A x \in Agents : owner[x] \notin Agents
  BY PeerAssumption DEF Init
<1>2. [x \in Agents |-> 0] \in [Agents -> Nat] /\ Older([x \in Agents |-> 0])
  BY <1>1 DEF Older
<1>3. OwnersAreOlder
  BY <1>2 DEF OwnersAreOlder
<1> QED  BY <1>1, <1>3 DEF Init, Owners, OwnersStarted, HoldsOwn

\* If nobody can act in the first round, nobody can.
LEMMA NobodyActs ==
  ASSUME NEW a \in Agents, \A b \in RunningPeers(a) : ~CanResume(a, {}, b)
  PROVE  PeersThatCanAct(a) = {}
<1> DEFINE N == Cardinality(Agents)
<1>1. N \in Nat
  BY PeerAssumption, FS_CardinalityType
<1>2. PICK g : Rounds(a, N, g) /\ PeersThatCanAct(a) = g[N]
  BY ActorsAreRounds
<1> HIDE DEF N
<1>3. \A n \in 0 .. N : g[n] = IF n = 0 THEN {} ELSE Grow(a, g[n - 1])
  BY <1>2, RoundOf
<1> DEFINE T == {n \in 0 .. N : g[n] # {}}
<1>4. SUFFICES ASSUME T # {}  PROVE FALSE
  BY <1>1, <1>2
<1>5. T \subseteq Nat
  BY <1>1
<1>6. PICK n \in T : \A k \in T : n <= k
  BY <1>4, <1>5, LeastNumber
<1>7. n # 0 /\ n - 1 \in 0 .. N /\ n - 1 \notin T /\ n \in 0 .. N
  BY <1>1, <1>3, <1>6
<1>8. g[n] = Grow(a, {})
  BY <1>3, <1>7
<1> QED  BY <1>6, <1>8 DEF Grow

\* A queue does not stand still without a holder of a permit.
LEMMA QueueHasHolder ==
  ASSUME WInv, Quiet, NEW S, NEW b \in Agents, NEW r,
         phase[r] = "queued", StuckOn(S, b, r)
  PROVE  PermitHolders(b) \subseteq S /\ PermitHolders(b) # {}
<1>1. PermitHolders(b) \subseteq S /\ FreePermits(b) <= 0
  BY DEF StuckOn, Quiet
<1>2. ASSUME PermitHolders(b) = {}  PROVE FALSE
  <2>1. permits \in Nat /\ permits >= 1
    BY PeerAssumption DEF WInv, TypeOK
  <2>2. FreePermits(b) = permits
    BY <1>2, <2>1, FS_EmptySet DEF FreePermits
  <2> QED  BY <1>1, <2>1, <2>2
<1> QED  BY <1>1, <1>2

\* So a member of a stuck set that has spawned nobody in it waits for a message only.
LEMMA YoungestWaits ==
  ASSUME WInv, Waiters, Owners, Quiet, ~QueueInline,
         NEW S \in SUBSET Agents, Stuck(S), NEW b \in S, \A c \in S : owner[c] # b
  PROVE  MessageOnly(b)
<1>0. TypeOK /\ QueuedIsNew /\ WaitsForAll /\ HoldsOwn /\ wake[b] = "no"
  BY DEF WInv, Waiters, Owners, Quiet
<1>1. \/ block[b] \in {"inline", "eval"} /\ \E r \in watched[b] : StuckOn(S, b, r)
      \/ block[b] = "wait" /\ ~leg[b] /\ \A r \in watched[b] : StuckOn(S, b, r)
  BY DEF Stuck
<1>2. ASSUME NEW r \in watched[b], block[b] \in {"wait", "inline", "eval"}, phase[r] # "queued"
      PROVE  ~StuckOn(S, b, r)
  <2>1. owner[r[1]] = b
    BY <1>0, <1>2 DEF WaitsForAll, HoldsOwn
  <2> QED  BY <1>2, <2>1 DEF StuckOn
<1>3. block[b] = "wait" /\ ~leg[b] /\ \A r \in watched[b] : StuckOn(S, b, r)
  BY <1>0, <1>1, <1>2 DEF HoldsOwn
<1>4. ASSUME NEW r \in watched[b], phase[r] = "queued"  PROVE FALSE
  <2>1. StuckOn(S, b, r) /\ b \in Agents
    BY <1>3, <1>4
  <2>2. PermitHolders(b) \subseteq S /\ PermitHolders(b) # {}
    BY <1>4, <2>1, QueueHasHolder
  <2> QED  BY <2>2 DEF PermitHolders
<1>5. watched[b] = {}
  BY <1>2, <1>3, <1>4
<1> QED  BY <1>3, <1>5 DEF MessageOnly

\* The same of a waiter with no agent listed.
LEMMA UnlistedWaits ==
  ASSUME WInv, Waiters, Quiet, NEW S \in SUBSET Agents, Stuck(S), NEW w \in S,
         block[w] = "wait", ~leg[w], Listed(w) = {}
  PROVE  MessageOnly(w)
<1>1. WaitsForAll /\ \A r \in watched[w] : StuckOn(S, w, r)
  BY DEF Waiters, Stuck
<1>2. ASSUME NEW r \in watched[w]  PROVE FALSE
  <2>1. phase[r] = "queued"
    BY <1>2 DEF Listed
  <2>2. PICK c \in PermitHolders(w) : TRUE
    BY <1>1, <1>2, <2>1, QueueHasHolder
  <2>3. <<c, "spawn">> \in watched[w] /\ phase[<<c, "spawn">>] # "queued"
    BY <1>1, <2>2 DEF PermitHolders, WaitsForAll
  <2> QED  BY <2>3 DEF Listed
<1> QED  BY <1>2 DEF MessageOnly

\* In a stuck set that holds every running agent nobody can act for a waiter in it.
LEMMA StuckDoNotAct ==
  ASSUME WInv, Waiters, Owners, ~QueueInline,
         Stuck({x \in Agents : status[x] = "running"}),
         NEW a \in Agents
  PROVE  PeersThatCanAct(a) = {}
<1> DEFINE S == {x \in Agents : status[x] = "running"}
<1>0. TypeOK /\ HoldsOwn
  BY DEF WInv, Owners
<1>1. \A c \in S : ~Lands(a, {}, c)
  BY DEF Lands, RunningPeers
<1>2. ASSUME NEW b \in RunningPeers(a)  PROVE ~CanResume(a, {}, b)
  <2>1. b \in S /\ b \in Agents
    BY DEF RunningPeers
  <2> HIDE DEF S
  <2>2. CASE block[b] \in {"inline", "eval"} /\ \E r \in watched[b] : StuckOn(S, b, r)
    <3>1. PICK r \in watched[b] : StuckOn(S, b, r)
      BY <2>2
    <3>2. r[1] \in S /\ r[1] \in Listed(b)
      BY <1>0, <2>1, <2>2, <3>1 DEF StuckOn, HoldsOwn, Listed
    <3> QED  BY <1>1, <2>2, <3>2 DEF CanResume
  <2>3. CASE block[b] = "wait" /\ ~leg[b] /\ \A r \in watched[b] : StuckOn(S, b, r)
    <3>1. \A c \in Listed(b) : c \in S
      BY <2>3 DEF StuckOn, Listed
    <3> QED  BY <1>1, <2>3, <3>1 DEF CanResume
  <2> QED  BY <2>1, <2>2, <2>3 DEF Stuck, S
<1> QED  BY <1>2, NobodyActs

\* When nothing is left to run before the next turn step (Quiet), the running agents are
\* not all stuck: the deadlock watch or the liveness check would have told one of them.
DeadlockIsSeen ==
  Quiet => LET S == {x \in Agents : status[x] = "running"} IN S = {} \/ ~Stuck(S)

\* The youngest would wait for a message only, and so be told, or defer to a waiter that is.
LEMMA NoDeadlock ==
  ASSUME WInv, Waiters, Owners, ~QueueInline
  PROVE  DeadlockIsSeen
<1> DEFINE S == {x \in Agents : status[x] = "running"}
<1> SUFFICES ASSUME Quiet, S # {}, Stuck(S)  PROVE FALSE
  BY DEF DeadlockIsSeen
<1>0. \A x \in Agents : wake[x] = "no" /\ Verdict(x) = "no"
  BY DEF Quiet, Checked
<1>1. \A x \in Agents : PeersThatCanAct(x) = {}
  BY StuckDoNotAct
<1>2. S \in SUBSET Agents
  OBVIOUS
<1>3. PICK f \in [Agents -> Nat] : Older(f)
  BY DEF Owners, OwnersAreOlder
<1>4. \A x \in Agents : RunningPeers(x) = S \ {x}
  BY DEF RunningPeers
<1> HIDE DEF S
<1>5. PICK b \in S : \A c \in S : f[b] <= f[c]
  <2> DEFINE T == {f[c] : c \in S}
  <2>1. T \subseteq Nat /\ T # {}
    BY <1>2
  <2>2. PICK n \in T : \A k \in T : n <= k
    <3> HIDE DEF T
    <3> QED  BY <2>1, LeastNumber
  <2> QED  BY <2>2
<1>6. \A c \in S : owner[c] # b
  BY <1>2, <1>3, <1>5 DEF Older
<1>7. MessageOnly(b)
  BY <1>2, <1>6, YoungestWaits DEF S
\* What the watch has found for a waiter of S that is not alone.
<1>8. ASSUME NEW x \in S, MessageOnly(x), S # {x}  PROVE DefersTo(x)
  <2>1. RunningPeers(x) # {}
    BY <1>4, <1>8, <1>2
  <2> QED  BY <1>0, <1>1, <1>2, <1>8, <2>1 DEF Verdict
<1>9. S # {b}
  BY <1>0, <1>2, <1>4, <1>7 DEF Verdict
<1>10. PICK w \in RunningPeers(b) \cap Awaited : block[w] = "wait" /\ ~leg[w] /\ Listed(w) = {}
  BY <1>7, <1>8, <1>9 DEF DefersTo
<1>11. w \in S /\ w \in Agents /\ w # b
  BY <1>2, <1>4, <1>10
<1>12. MessageOnly(w)
  BY <1>2, <1>10, <1>11, UnlistedWaits DEF S
<1>13. DefersTo(w)
  BY <1>8, <1>11, <1>12
<1> QED  BY <1>10, <1>13 DEF DefersTo

\* The safety half of NobodyIsStuck: agents that all wait for each other, inline, in a
\* race, behind queued spawns or for a message, are never left so without one of them
\* being told.  A blocking spawn launched without a permit (QueueInline) breaks it.
THEOREM DeadlocksAreSeen == ASSUME ~QueueInline  PROVE Spec => []DeadlockIsSeen
<1>1. WInv /\ Waiters /\ Owners /\ [Next]_vars => WInv' /\ Waiters' /\ Owners'
  BY WaitStep, WaitersStep, OwnersStep
<1>2. WInv /\ Waiters /\ Owners => DeadlockIsSeen
  BY NoDeadlock
<1>3. Init => WInv /\ Waiters /\ Owners
  BY WaitInit, WaitersInit, OwnersInit
<1> QED  BY <1>1, <1>2, <1>3, PTL DEF Spec
=============================================================================
