------------------------ MODULE AgentLifecycleProofs ------------------------
(***************************************************************************)
(* Theorems about AgentLifecycle, for any number of generations, sessions, *)
(* ensureLive calls and release calls.                                     *)
(*                                                                         *)
(* The inductive invariant adds to the types what every promise in flight  *)
(* is bound to: its continuation writes the row of a ref and disposes a    *)
(* session that exist.                                                     *)
(***************************************************************************)
EXTENDS AgentLifecycle, TLAPS

RowBound     == reg # NoRef => status[reg] # "none"
ParkBound    == park.ref # NoRef => park.ses \in Session
ReleaseBound ==
  \A x \in Releaser :
    /\ release[x].pc # "idle" => release[x].ref \in Ref
    /\ release[x].pc = "dispose" => release[x].ses \in Session
RevivalBound ==
  \A r \in Ref :
    revival[r].pc \in {"opened", "claimed", "attached", "disposing"} => revival[r].ses \in Session
RunBound ==
  \A r \in Ref :
    /\ run[r].pc \in {"attached", "running"} => run[r].ses \in Session
    /\ run[r].pc = "probing" => run[r].ref \in Ref
    /\ run[r].pc \in {"probing", "retry"} => status[r] = "none"

IInv ==
  /\ TypeOK
  /\ RowBound /\ ParkBound /\ ReleaseBound /\ RevivalBound /\ RunBound
  /\ DetachedWhenStopped

\* A step that creates no ref.
CreatesNone == \A q \in Ref : status'[q] = "none" <=> status[q] = "none"

\* A step that stops a ref detaches it.
StopsDetached ==
  \A q \in Ref : \/ status'[q] = status[q] /\ sess'[q] = sess[q]
                 \/ status'[q] = "aborted" /\ sess'[q] = NoSession

-----------------------------------------------------------------------------
(* What the operators the actions share assign.                            *)

LEMMA NilTypes ==
  /\ NotAdopted \in Adoption /\ NotParking \in Park
  /\ NoRevival \in Revival /\ NoCall \in Call
  /\ NoRelease \in Release /\ NoRun \in Run
BY DEF NotAdopted, NotParking, NoRevival, NoCall, NoRelease, NoRun,
       Adoption, Park, Revival, Call, Release, Run, OptRef, OptSession

LEMMA OnStatusType ==
  ASSUME adopted \in Adoption, NEW r, NEW st
  PROVE  OnStatus(r, st) \in Adoption
BY DEF OnStatus, Adoption

LEMMA SetStatusType ==
  ASSUME TypeOK, NEW r \in Ref, NEW st \in Status, SetStatus(r, st)
  PROVE  status' \in [Ref -> Status] /\ adopted' \in Adoption
<1>1. adopted \in Adoption /\ status \in [Ref -> Status]  BY DEF TypeOK
<1>2. OnStatus(r, st) \in Adoption  BY <1>1, OnStatusType
<1> QED  BY <1>1, <1>2 DEF SetStatus

LEMMA UnregisterType ==
  ASSUME TypeOK, NEW r, Unregister(r)
  PROVE  /\ reg' \in OptRef /\ adopted' \in Adoption
         /\ reg' \in {reg, NoRef}
<1>1. adopted \in Adoption /\ reg \in OptRef  BY DEF TypeOK
<1> QED  BY <1>1, NilTypes DEF Unregister, OnRemoved, OptRef

LEMMA MirrorKeeps ==
  ASSUME IInv, NEW s \in Session, NEW st \in {"running", "idle"}, Mirror(s, st), sess' = sess
  PROVE  /\ status' \in [Ref -> Status] /\ adopted' \in Adoption
         /\ CreatesNone /\ DetachedWhenStopped'
<1>0. TypeOK /\ RowBound /\ DetachedWhenStopped  BY DEF IInv
<1>1. CASE s \in mirrored /\ LiveSession = s /\ CanSet(reg)
  <2>1. reg \in Ref /\ st \in Status
    BY <1>0, <1>1, NilAssumption DEF TypeOK, LiveSession, OptRef, Status
  <2>2. SetStatus(reg, st)
    BY <1>1 DEF Mirror
  <2>3. status' \in [Ref -> Status] /\ adopted' \in Adoption
    BY <1>0, <2>1, <2>2, SetStatusType
  <2>4. status' = [status EXCEPT ![reg] = st]
    BY <2>2 DEF SetStatus
  <2>5. CreatesNone
    BY <1>0, <2>1, <2>4, NilAssumption DEF TypeOK, RowBound, CreatesNone
  <2>6. DetachedWhenStopped'
    BY <1>0, <2>1, <2>4 DEF TypeOK, DetachedWhenStopped
  <2> QED  BY <2>3, <2>5, <2>6
<1>2. CASE ~(s \in mirrored /\ LiveSession = s /\ CanSet(reg))
  BY <1>0, <1>2 DEF Mirror, TypeOK, CreatesNone, DetachedWhenStopped
<1> QED  BY <1>1, <1>2

LEMMA SettleParkKeeps ==
  ASSUME IInv, SettlePark
  PROVE  /\ park' \in Park
         /\ caller' \in [Caller -> Call]
         /\ release' \in [Releaser -> Release]
         /\ ParkBound' /\ ReleaseBound'
<1>0. TypeOK /\ ReleaseBound  BY DEF IInv
<1>1. park' \in Park /\ ParkBound'
  BY NilTypes DEF SettlePark, NotParking, ParkBound
<1>2. \A c \in Caller : caller[c] \in Call /\ caller'[c] \in Call
  <2> SUFFICES ASSUME NEW c \in Caller  PROVE caller[c] \in Call /\ caller'[c] \in Call
    OBVIOUS
  <2>1. caller[c] \in Call  BY <1>0 DEF TypeOK
  <2>2. /\ [caller[c] EXCEPT !.pc = "cancelDone"] \in Call
        /\ [caller[c] EXCEPT !.pc = "parkDone"] \in Call
    BY <2>1 DEF Call
  <2> QED  BY <2>1, <2>2 DEF SettlePark
<1>3. caller' \in [Caller -> Call]
  BY <1>2 DEF SettlePark
<1>4. \A x \in Releaser :
        /\ release'[x] \in Release
        /\ release'[x].ref = release[x].ref
        /\ release[x].pc = "idle" => release'[x].pc = "idle"
        /\ release'[x].pc = "dispose" => release'[x] = release[x]
  <2> SUFFICES ASSUME NEW x \in Releaser
               PROVE  /\ release'[x] \in Release
                      /\ release'[x].ref = release[x].ref
                      /\ release[x].pc = "idle" => release'[x].pc = "idle"
                      /\ release'[x].pc = "dispose" => release'[x] = release[x]
    OBVIOUS
  <2> DEFINE done == [release[x] EXCEPT !.pc = "parkDone"]
  <2>1. release[x] \in Release  BY <1>0 DEF TypeOK
  <2>2. done \in Release /\ done.ref = release[x].ref /\ done.pc = "parkDone"
    BY <2>1 DEF Release
  <2>3. release'[x] = IF release[x].pc = "parkWait" THEN done ELSE release[x]
    BY DEF SettlePark
  <2> HIDE DEF done
  <2> QED  BY <2>1, <2>2, <2>3
<1>5. release' \in [Releaser -> Release]
  BY <1>4 DEF SettlePark
<1>6. ReleaseBound'
  BY <1>0, <1>4 DEF ReleaseBound
<1> QED  BY <1>1, <1>3, <1>5, <1>6

LEMMA ResolveKeeps ==
  ASSUME IInv, NEW c \in Caller, Resolve(c)
  PROVE  /\ caller' \in [Caller -> Call]
         /\ revival' \in [Ref -> Revival] /\ inflight' \in OptRef
         /\ RevivalBound'
<1>0. /\ reg \in OptRef /\ sess \in [Ref -> OptSession] /\ status \in [Ref -> Status]
      /\ caller \in [Caller -> Call] /\ revival \in [Ref -> Revival] /\ inflight \in OptRef
      /\ RevivalBound
  BY DEF IInv, TypeOK
<1>1. \A call \in Call : [caller EXCEPT ![c] = call] \in [Caller -> Call]
  BY <1>0
<1>2. NoCall \in Call /\ NoRef \in OptRef
  BY NilTypes DEF OptRef
<1>3. Got(LiveSession) \in Call
  BY <1>0 DEF Got, NoCall, LiveSession, Call, OptRef, OptSession
<1>4. Waits(reg) \in Call
  BY <1>0 DEF Waits, NoCall, Call, OptRef, OptSession
<1>5. CASE UNCHANGED <<revival, inflight>>
  BY <1>0, <1>1, <1>2, <1>3, <1>4, <1>5 DEF Resolve, StartRevival, RevivalBound
<1>6. CASE reg # NoRef /\ StartRevival(reg, c)
  <2>1. reg \in Ref  BY <1>0, <1>6 DEF OptRef
  <2>2. CASE status[reg] = "parked"
    <3> DEFINE new == [NoRevival EXCEPT !.pc = IF Revivable(reg) THEN "build" ELSE "factory"]
    <3>1. new \in Revival /\ new.pc \in {"build", "factory"}
      BY DEF NoRevival, Revival, OptSession
    <3>2. /\ revival' = [revival EXCEPT ![reg] = new] /\ inflight' = reg
          /\ caller' = [caller EXCEPT ![c] = Waits(reg)]
      BY <1>6, <2>2 DEF StartRevival
    <3> HIDE DEF new
    <3> QED  BY <1>0, <1>1, <1>4, <2>1, <3>1, <3>2 DEF RevivalBound
  <2>3. CASE status[reg] # "parked"
    BY <1>0, <1>1, <1>2, <1>6, <2>3 DEF StartRevival, RevivalBound
  <2> QED  BY <2>2, <2>3
<1> QED  BY <1>5, <1>6 DEF Resolve

LEMMA SettleKeeps ==
  ASSUME IInv, NEW r \in Ref, NEW answer \in Call, Settle(r, answer)
  PROVE  /\ caller' \in [Caller -> Call]
         /\ revival' \in [Ref -> Revival] /\ inflight' \in OptRef
         /\ RevivalBound'
<1>0. /\ caller \in [Caller -> Call] /\ revival \in [Ref -> Revival] /\ inflight \in OptRef
      /\ RevivalBound
  BY DEF IInv, TypeOK
<1>1. caller' \in [Caller -> Call]
  BY <1>0 DEF Settle, Tell
<1>2. inflight' \in OptRef
  BY <1>0 DEF Settle, Dequeued, OptRef
<1>3. NoRevival \in Revival /\ NoRevival.pc = "none"
  BY NilTypes DEF NoRevival
<1>4. revival' = [revival EXCEPT ![r] = NoRevival]
  BY DEF Settle
<1>5. revival' \in [Ref -> Revival] /\ RevivalBound'
  BY <1>0, <1>3, <1>4 DEF RevivalBound
<1> QED  BY <1>1, <1>2, <1>5

LEMMA DropColdType ==
  ASSUME TypeOK, NEW r, DropCold(r)
  PROVE  adopted' \in Adoption
BY NilTypes DEF TypeOK, DropCold

LEMMA CaptureKeeps ==
  ASSUME IInv, NEW x \in Releaser, NEW r \in Ref, NEW tomb \in BOOLEAN, NEW owns \in BOOLEAN,
         Capture(x, r, tomb, owns)
  PROVE  /\ sess' \in [Ref -> OptSession] /\ status' \in [Ref -> Status]
         /\ life' \in [Session -> Life] /\ release' \in [Releaser -> Release]
         /\ ReleaseBound' /\ DetachedWhenStopped' /\ CreatesNone /\ StopsDetached
<1> DEFINE live == IF reg = r THEN sess[r] ELSE NoSession
           rec  == [pc |-> IF tomb THEN "persist" ELSE IF live # NoSession THEN "dispose" ELSE "cleanup",
                    ref |-> r, ses |-> live, tomb |-> tomb, owns |-> owns]
<1>0. /\ sess \in [Ref -> OptSession] /\ status \in [Ref -> Status] /\ life \in [Session -> Life]
      /\ release \in [Releaser -> Release]
      /\ RowBound /\ ReleaseBound /\ DetachedWhenStopped
  BY DEF IInv, TypeOK
<1>1. live \in OptSession /\ (live # NoSession => live \in Session)
  BY <1>0 DEF OptSession
<1>2. rec \in Release /\ rec.ref = r /\ (rec.pc = "dispose" => rec.ses \in Session)
  BY <1>1 DEF Release, OptRef
<1>3. release' = [release EXCEPT ![x] = rec]
  BY DEF Capture
<1>4. life' \in [Session -> Life]
  BY <1>0, <1>1 DEF Capture, Disposing, Life
<1>5. /\ sess' \in [Ref -> OptSession] /\ status' \in [Ref -> Status]
      /\ CreatesNone /\ StopsDetached
  <2>1. CASE tomb /\ reg = r
    <3>1. sess' = [sess EXCEPT ![r] = NoSession] /\ status' = [status EXCEPT ![r] = "aborted"]
      BY <2>1 DEF Capture
    <3>2. status[r] # "none"
      BY <1>0, <2>1, NilAssumption DEF RowBound
    <3> QED  BY <1>0, <3>1, <3>2 DEF Status, OptSession, CreatesNone, StopsDetached
  <2>2. CASE ~(tomb /\ reg = r)
    BY <1>0, <2>2 DEF Capture, CreatesNone, StopsDetached
  <2> QED  BY <2>1, <2>2
<1>6. DetachedWhenStopped'
  BY <1>0, <1>5 DEF StopsDetached, DetachedWhenStopped
<1> HIDE DEF rec, live
<1>7. release' \in [Releaser -> Release] /\ ReleaseBound'
  BY <1>0, <1>2, <1>3 DEF ReleaseBound
<1> QED  BY <1>4, <1>5, <1>6, <1>7

LEMMA BeginReleaseKeeps ==
  ASSUME IInv, NEW x \in Releaser, NEW r \in Ref, NEW tomb \in BOOLEAN, BeginRelease(x, r, tomb)
  PROVE  /\ adopted' \in Adoption /\ park' \in Park
         /\ sess' \in [Ref -> OptSession] /\ status' \in [Ref -> Status]
         /\ life' \in [Session -> Life] /\ release' \in [Releaser -> Release]
         /\ ParkBound' /\ ReleaseBound' /\ DetachedWhenStopped' /\ CreatesNone /\ StopsDetached
<1> DEFINE owns == adopted.ref = r /\ adopted.owns
<1>0. /\ adopted \in Adoption /\ park \in Park
      /\ sess \in [Ref -> OptSession] /\ status \in [Ref -> Status]
      /\ life \in [Session -> Life] /\ release \in [Releaser -> Release]
      /\ ParkBound /\ ReleaseBound /\ DetachedWhenStopped
  BY DEF IInv, TypeOK
<1>1. owns \in BOOLEAN  BY <1>0 DEF Adoption
<1>2. adopted' \in Adoption  BY <1>0, NilTypes DEF BeginRelease, OnRemoved
<1>3. CASE park.ref = r
  <2> DEFINE rec == [pc |-> "parkWait", ref |-> r, ses |-> NoSession, tomb |-> tomb, owns |-> owns]
  <2>1. /\ park' = [park EXCEPT !.cancelled = @ \/ ~park.detached]
        /\ release' = [release EXCEPT ![x] = rec]
        /\ UNCHANGED <<sess, status, life>>
    BY <1>3 DEF BeginRelease
  <2>2. rec \in Release /\ rec.ref = r /\ rec.pc = "parkWait"
    BY <1>1 DEF Release, OptRef, OptSession
  <2>3. park' \in Park /\ park'.ses = park.ses /\ park'.ref = park.ref
    BY <1>0, <2>1 DEF Park
  <2> HIDE DEF rec
  <2>4. release' \in [Releaser -> Release] /\ ReleaseBound'
    BY <1>0, <2>1, <2>2 DEF ReleaseBound
  <2>5. ParkBound' /\ DetachedWhenStopped' /\ CreatesNone /\ StopsDetached
    BY <1>0, <2>1, <2>3 DEF ParkBound, DetachedWhenStopped, CreatesNone, StopsDetached
  <2> QED  BY <1>0, <1>2, <2>1, <2>3, <2>4, <2>5
<1>4. CASE park.ref # r
  <2>1. UNCHANGED park /\ Capture(x, r, tomb, owns)
    BY <1>4 DEF BeginRelease
  <2> HIDE DEF owns
  <2>2. /\ sess' \in [Ref -> OptSession] /\ status' \in [Ref -> Status]
        /\ life' \in [Session -> Life] /\ release' \in [Releaser -> Release]
        /\ ReleaseBound' /\ DetachedWhenStopped' /\ CreatesNone /\ StopsDetached
    BY <1>1, <2>1, CaptureKeeps
  <2> QED  BY <1>0, <1>2, <2>1, <2>2 DEF ParkBound
<1> QED  BY <1>3, <1>4

-----------------------------------------------------------------------------
(* Every step keeps the invariant.                                         *)

\* A spawn, the run it starts, and a restored transcript keep the invariant.
LEMMA SpawnStepKeeps ==
  ASSUME IInv, NEW r \in Ref, SpawnStep(r)
  PROVE  IInv'
<1>0. /\ IInv /\ TypeOK /\ RowBound /\ ParkBound /\ ReleaseBound
      /\ RevivalBound /\ RunBound /\ DetachedWhenStopped
  BY DEF IInv
<1>1. ASSUME NEW st \in {"parked", "aborted"}, RestoreRegisters(r, st)
     PROVE  IInv'
  <2>1. reg' \in OptRef
    BY <1>0, <1>1, NilTypes DEF TypeOK, RestoreRegisters, Unborn, Register, OptRef
  <2>2. status' \in [Ref -> Status]
    BY <1>0, <1>1, NilTypes DEF TypeOK, RestoreRegisters, Unborn, Register, Status
  <2>3. TypeOK'
    BY <1>0, <1>1, <2>1, <2>2 DEF TypeOK, RestoreRegisters, sessionVars
  <2>4. RowBound'
    BY <1>0, <1>1, NilAssumption DEF TypeOK, OptRef, OptSession, RowBound, RestoreRegisters,
                                     Unborn, Register
  <2>5. RunBound'
    BY <1>0, <1>1, NilAssumption DEF TypeOK, OptRef, OptSession, RunBound, RestoreRegisters,
                                     Unborn, Register
  <2>6. DetachedWhenStopped'
    BY <1>0, <1>1, NilAssumption DEF TypeOK, OptRef, OptSession, DetachedWhenStopped,
                                     RestoreRegisters, Unborn, Register
  <2> QED  BY <1>0, <1>1, <2>3, <2>4, <2>5, <2>6 DEF IInv, ParkBound, ReleaseBound, RevivalBound,
                                                     RestoreRegisters, sessionVars
<1>2. ASSUME NEW st \in {"parked", "aborted"}, RestoreReplaces(r, st)
     PROVE  IInv'
  <2>1. reg' \in OptRef
    BY <1>0, <1>2, NilTypes DEF TypeOK, RestoreReplaces, OnRemoved, Unborn, OptRef
  <2>2. status' \in [Ref -> Status]
    BY <1>0, <1>2, NilTypes DEF TypeOK, RestoreReplaces, OnRemoved, Unborn, Status
  <2>3. adopted' \in Adoption
    BY <1>0, <1>2, NilTypes DEF TypeOK, RestoreReplaces, OnRemoved, Unborn, Adoption, OptRef
  <2>4. TypeOK'
    BY <1>0, <1>2, <2>1, <2>2, <2>3 DEF TypeOK, RestoreReplaces, sessionVars
  <2>5. RowBound'
    BY <1>0, <1>2, NilAssumption DEF TypeOK, RowBound, RestoreReplaces, Unborn
  <2>6. RunBound'
    BY <1>0, <1>2, NilAssumption DEF TypeOK, OptRef, OptSession, RunBound, RestoreReplaces,
                                     OnRemoved, Unborn, NotAdopted
  <2>7. DetachedWhenStopped'
    BY <1>0, <1>2, NilAssumption DEF TypeOK, OptRef, OptSession, DetachedWhenStopped,
                                     RestoreReplaces, OnRemoved, Unborn, NotAdopted
  <2> QED  BY <1>0, <1>2, <2>4, <2>5, <2>6, <2>7 DEF IInv, ParkBound, ReleaseBound, RevivalBound,
                                                     RestoreReplaces, sessionVars
<1>3. CASE SpawnClaims(r)
  <2>1. reg' \in OptRef
    BY <1>0, <1>3, NilTypes DEF TypeOK, SpawnClaims, Unborn, Register, OptRef
  <2>2. status' \in [Ref -> Status]
    BY <1>0, <1>3, NilTypes DEF TypeOK, SpawnClaims, Unborn, Register, Status
  <2>3. run' \in [Ref -> Run]
    BY <1>0, <1>3, NilTypes DEF TypeOK, SpawnClaims, Unborn, Register, Run, OptRef, OptSession
  <2>4. TypeOK'
    BY <1>0, <1>3, <2>1, <2>2, <2>3 DEF TypeOK, SpawnClaims, sessionVars
  <2>5. RowBound'
    BY <1>0, <1>3, NilAssumption DEF TypeOK, OptRef, OptSession, RowBound, SpawnClaims, Unborn,
                                     Register, NoRun
  <2>6. RunBound'
    BY <1>0, <1>3, NilAssumption DEF TypeOK, OptRef, OptSession, RunBound, SpawnClaims, Unborn,
                                     Register, NoRun
  <2>7. DetachedWhenStopped'
    BY <1>0, <1>3, NilAssumption DEF TypeOK, OptRef, OptSession, DetachedWhenStopped, SpawnClaims,
                                     Unborn, Register, NoRun
  <2> QED  BY <1>0, <1>3, <2>4, <2>5, <2>6, <2>7 DEF IInv, ParkBound, ReleaseBound, RevivalBound,
                                                     SpawnClaims, sessionVars
<1>4. CASE SpawnProbes(r)
  <2>1. run' \in [Ref -> Run]
    BY <1>0, <1>4, NilTypes DEF TypeOK, SpawnProbes, Unborn, Run, OptRef, OptSession
  <2>2. TypeOK'
    BY <1>0, <1>4, <2>1 DEF TypeOK, SpawnProbes, sessionVars
  <2>3. RunBound'
    BY <1>0, <1>4 DEF TypeOK, OptRef, RunBound, SpawnProbes, Unborn, Corpse, NoRun, Run
  <2> QED  BY <1>0, <1>4, <2>2, <2>3 DEF IInv, RowBound, ParkBound, ReleaseBound, RevivalBound,
                                         DetachedWhenStopped, SpawnProbes, sessionVars
<1>5. CASE SpawnReclaims(r)
  <2>1. /\ reg' \in OptRef
        /\ adopted' \in Adoption
        /\ reg' \in {reg, NoRef}
    BY <1>0, <1>5, UnregisterType DEF SpawnReclaims, TypeOK
  <2>2. run' \in [Ref -> Run]
    BY <1>0, <1>5, NilTypes DEF TypeOK, SpawnReclaims, Run, OptRef, OptSession
  <2>3. TypeOK'
    BY <1>0, <1>5, <2>1, <2>2 DEF TypeOK, SpawnReclaims, sessionVars
  <2>4. RowBound'
    BY <1>0, <1>5, <2>1, NilAssumption DEF TypeOK, OptRef, OptSession, RowBound, SpawnReclaims,
                                           NoRun, NotAdopted
  <2>5. RunBound'
    BY <1>0, <1>5, <2>1, NilAssumption DEF TypeOK, OptRef, OptSession, RunBound, SpawnReclaims,
                                           NoRun, NotAdopted
  <2> QED  BY <1>0, <1>5, <2>3, <2>4, <2>5 DEF IInv, ParkBound, ReleaseBound, RevivalBound,
                                               DetachedWhenStopped, SpawnReclaims, sessionVars
<1>6. CASE SpawnRefused(r)
  <2>1. run' \in [Ref -> Run]
    BY <1>0, <1>6, NilTypes DEF TypeOK, SpawnRefused, Run, OptRef, OptSession
  <2>2. TypeOK'
    BY <1>0, <1>6, <2>1 DEF TypeOK, SpawnRefused, sessionVars
  <2>3. RunBound'
    BY <1>0, <1>6, NilAssumption DEF TypeOK, OptRef, OptSession, RunBound, SpawnRefused, NoRun
  <2> QED  BY <1>0, <1>6, <2>2, <2>3 DEF IInv, RowBound, ParkBound, ReleaseBound, RevivalBound,
                                         DetachedWhenStopped, SpawnRefused, sessionVars
<1>7. CASE SpawnFails(r)
  <2>1. /\ reg' \in OptRef
        /\ adopted' \in Adoption
        /\ reg' \in {reg, NoRef}
    BY <1>0, <1>7, UnregisterType DEF SpawnFails, TypeOK
  <2>2. run' \in [Ref -> Run]
    BY <1>0, <1>7, NilTypes DEF TypeOK, SpawnFails, Run, OptRef, OptSession
  <2>3. TypeOK'
    BY <1>0, <1>7, <2>1, <2>2 DEF TypeOK, SpawnFails, sessionVars
  <2>4. RowBound'
    BY <1>0, <1>7, <2>1, NilAssumption DEF TypeOK, OptRef, OptSession, RowBound, SpawnFails,
                                           NotAdopted
  <2>5. RunBound'
    BY <1>0, <1>7, <2>1, NilAssumption DEF TypeOK, OptRef, OptSession, RunBound, SpawnFails,
                                           NotAdopted
  <2> QED  BY <1>0, <1>7, <2>3, <2>4, <2>5 DEF IInv, ParkBound, ReleaseBound, RevivalBound,
                                               DetachedWhenStopped, SpawnFails, sessionVars
<1>8. CASE RunStarts(r)
  <2>1. mirrored' \subseteq Session
    BY <1>0, <1>8 DEF TypeOK, RunBound, RunStarts
  <2>2. run' \in [Ref -> Run]
    BY <1>0, <1>8, NilTypes DEF TypeOK, RunStarts, Run, OptRef, OptSession
  <2>3. TypeOK'
    BY <1>0, <1>8, <2>1, <2>2 DEF TypeOK, RunStarts, sessionVars
  <2>4. RunBound'
    BY <1>0, <1>8, NilAssumption DEF TypeOK, OptRef, OptSession, RunBound, RunStarts
  <2> QED  BY <1>0, <1>8, <2>3, <2>4 DEF IInv, RowBound, ParkBound, ReleaseBound, RevivalBound,
                                         DetachedWhenStopped, RunStarts, sessionVars
<1>9. CASE SpawnFailsLate(r)
  <2>1. life' \in [Session -> Life]
    BY <1>0, <1>9, NilTypes DEF TypeOK, SpawnFailsLate, Disposing, Life
  <2>2. run' \in [Ref -> Run]
    BY <1>0, <1>9, NilTypes DEF TypeOK, SpawnFailsLate, Disposing, Run, OptRef, OptSession
  <2>3. TypeOK'
    BY <1>0, <1>9, <2>1, <2>2 DEF TypeOK, SpawnFailsLate, sessionVars
  <2>4. RunBound'
    BY <1>0, <1>9, NilAssumption DEF TypeOK, OptRef, OptSession, RunBound, SpawnFailsLate, Disposing
  <2> QED  BY <1>0, <1>9, <2>3, <2>4 DEF IInv, RowBound, ParkBound, ReleaseBound, RevivalBound,
                                         DetachedWhenStopped, SpawnFailsLate, sessionVars
<1>10. CASE ResultAccepted(r)
  <2>1. /\ status' \in [Ref -> Status]
        /\ adopted' \in Adoption
    BY <1>0, <1>10, SetStatusType DEF ResultAccepted, TypeOK, Status
  <2>2. TypeOK'
    BY <1>0, <1>10, <2>1 DEF TypeOK, ResultAccepted, sessionVars
  <2>3. RowBound'
    BY <1>0, <1>10, NilAssumption DEF TypeOK, OptRef, OptSession, RowBound, ResultAccepted,
                                      SetStatus
  <2>4. RunBound'
    BY <1>0, <1>10, NilAssumption DEF TypeOK, OptRef, OptSession, RunBound, ResultAccepted,
                                      SetStatus
  <2>5. DetachedWhenStopped'
    BY <1>0, <1>10, NilAssumption DEF TypeOK, OptRef, OptSession, DetachedWhenStopped,
                                      ResultAccepted, SetStatus
  <2> QED  BY <1>0, <1>10, <2>2, <2>3, <2>4, <2>5 DEF IInv, ParkBound, ReleaseBound, RevivalBound,
                                                      ResultAccepted, sessionVars
<1>11. ASSUME NEW s \in Session, SpawnAttaches(r, s)
     PROVE  IInv'
  <2>1. /\ status' \in [Ref -> Status]
        /\ adopted' \in Adoption
    BY <1>0, <1>11, SetStatusType DEF SpawnAttaches, TypeOK, Status, Attachable
  <2>2. sess' \in [Ref -> OptSession]
    BY <1>0, <1>11, NilTypes DEF TypeOK, SpawnAttaches, Attachable, OptSession
  <2>3. life' \in [Session -> Life]
    BY <1>0, <1>11, NilTypes DEF TypeOK, SpawnAttaches, Attachable, Life
  <2>4. owner' \in [Session -> OptRef]
    BY <1>0, <1>11, NilTypes DEF TypeOK, SpawnAttaches, Attachable, OptRef
  <2>5. hooked' \subseteq Session
    BY <1>0, <1>11, NilTypes DEF TypeOK, SpawnAttaches, Attachable
  <2>6. run' \in [Ref -> Run]
    BY <1>0, <1>11, NilTypes DEF TypeOK, SpawnAttaches, Attachable, Run, OptRef, OptSession
  <2>7. TypeOK'
    BY <1>0, <1>11, <2>1, <2>2, <2>3, <2>4, <2>5, <2>6 DEF TypeOK, SpawnAttaches, sessionVars
  <2>8. RowBound'
    BY <1>0, <1>11, NilAssumption DEF TypeOK, OptRef, OptSession, RowBound, SpawnAttaches,
                                      Attachable, SetStatus
  <2>9. RunBound'
    <3>1. CASE Attachable(r)
      <4>1. /\ status' = [status EXCEPT ![r] = "running"]
            /\ run' = [run EXCEPT ![r].pc = "attached", ![r].ses = s]
        BY <1>11, <3>1 DEF SpawnAttaches, SetStatus
      <4> QED  BY <1>0, <1>11, <4>1, NilAssumption DEF TypeOK, Run, RunBound, SpawnAttaches
    <3>2. CASE ~Attachable(r)
      BY <1>0, <1>11, <3>2 DEF TypeOK, Run, RunBound, SpawnAttaches
    <3> QED  BY <3>1, <3>2
  <2>10. DetachedWhenStopped'
    BY <1>0, <1>11, NilAssumption DEF TypeOK, OptRef, OptSession, DetachedWhenStopped,
                                      SpawnAttaches, Attachable, SetStatus
  <2> QED  BY <1>0, <1>11, <2>7, <2>8, <2>9, <2>10 DEF IInv, ParkBound, ReleaseBound,
                                                       RevivalBound, SpawnAttaches, sessionVars
<1> QED  BY <1>1, <1>2, <1>3, <1>4, <1>5, <1>6, <1>7, <1>8, <1>9, <1>10, <1>11 DEF SpawnStep

\* So does the finalizer of a run.
LEMMA FinalizeStepKeeps ==
  ASSUME IInv, NEW r \in Ref, FinalizeStep(r)
  PROVE  IInv'
<1>0. /\ IInv /\ TypeOK /\ RowBound /\ ParkBound /\ ReleaseBound
      /\ RevivalBound /\ RunBound /\ DetachedWhenStopped
  BY DEF IInv
<1>1. ASSUME NEW hot \in BOOLEAN, NEW owns \in BOOLEAN, FinalizeKept(r, hot, owns)
     PROVE  IInv'
  <2>1. status' \in [Ref -> Status]
    BY <1>0, <1>1, NilTypes DEF TypeOK, FinalizeKept, CanSet, Status
  <2>2. adopted' \in Adoption
    BY <1>0, <1>1, NilTypes DEF TypeOK, FinalizeKept, CanSet, Adoption, OptRef
  <2>3. run' \in [Ref -> Run]
    BY <1>0, <1>1, NilTypes DEF TypeOK, FinalizeKept, CanSet, Run, OptRef, OptSession
  <2>4. TypeOK'
    BY <1>0, <1>1, <2>1, <2>2, <2>3 DEF TypeOK, FinalizeKept, sessionVars
  <2>5. RowBound'
    BY <1>0, <1>1, NilAssumption DEF TypeOK, OptRef, OptSession, RowBound, FinalizeKept, CanSet,
                                     NoRun
  <2>6. RunBound'
    BY <1>0, <1>1, NilAssumption DEF TypeOK, OptRef, RowBound, RunBound, FinalizeKept, CanSet, NoRun
  <2>7. DetachedWhenStopped'
    BY <1>0, <1>1, NilAssumption DEF TypeOK, OptRef, OptSession, DetachedWhenStopped,
                                     FinalizeKept, CanSet, NoRun
  <2> QED  BY <1>0, <1>1, <2>4, <2>5, <2>6, <2>7 DEF IInv, ParkBound, ReleaseBound, RevivalBound,
                                                     FinalizeKept, sessionVars
<1>2. ASSUME NEW x \in Releaser, NEW tomb \in BOOLEAN, FinalizeAborted(r, x, tomb)
     PROVE  IInv'
  <2>1. /\ adopted' \in Adoption
        /\ park' \in Park
        /\ sess' \in [Ref -> OptSession]
        /\ status' \in [Ref -> Status]
        /\ life' \in [Session -> Life]
        /\ release' \in [Releaser -> Release]
        /\ ParkBound'
        /\ ReleaseBound'
        /\ DetachedWhenStopped'
        /\ CreatesNone
    <3>1. reg \in Ref
      BY <1>0, <1>2, NilAssumption DEF TypeOK, OptRef, RunBound, FinalizeAborted, OwnsRow,
                                       LiveSession
    <3> QED  BY <1>0, <1>2, <3>1, BeginReleaseKeeps DEF FinalizeAborted
  <2>2. run' \in [Ref -> Run]
    BY <1>0, <1>2, NilTypes DEF TypeOK, FinalizeAborted, Run, OptRef, OptSession
  <2>3. TypeOK'
    BY <1>0, <1>2, <2>1, <2>2 DEF TypeOK, FinalizeAborted, sessionVars
  <2>4. RowBound'
    BY <1>0, <1>2, <2>1, NilAssumption DEF TypeOK, OptRef, OptSession, RowBound, FinalizeAborted,
                                           NoRun, NotAdopted, CreatesNone
  <2>5. RunBound'
    BY <1>0, <1>2, <2>1, NilAssumption DEF TypeOK, OptRef, OptSession, RunBound, FinalizeAborted,
                                           NoRun, NotAdopted, CreatesNone
  <2> QED  BY <1>0, <1>2, <2>3, <2>4, <2>1, <2>5 DEF IInv, RevivalBound, FinalizeAborted,
                                                     sessionVars
<1>3. CASE FinalizeDisposes(r)
  <2>1. life' \in [Session -> Life]
    BY <1>0, <1>3, NilTypes DEF TypeOK, FinalizeDisposes, Disposing, Life
  <2>2. run' \in [Ref -> Run]
    BY <1>0, <1>3, NilTypes DEF TypeOK, FinalizeDisposes, Disposing, Run, OptRef, OptSession
  <2>3. TypeOK'
    BY <1>0, <1>3, <2>1, <2>2 DEF TypeOK, FinalizeDisposes, sessionVars
  <2>4. RunBound'
    BY <1>0, <1>3, NilAssumption DEF TypeOK, OptRef, OptSession, RunBound, FinalizeDisposes,
                                     Disposing
  <2> QED  BY <1>0, <1>3, <2>3, <2>4 DEF IInv, RowBound, ParkBound, ReleaseBound, RevivalBound,
                                         DetachedWhenStopped, FinalizeDisposes, sessionVars
<1>4. CASE FinalizeUnregisters(r)
  <2>1. /\ reg' \in OptRef
        /\ adopted' \in Adoption
        /\ reg' \in {reg, NoRef}
    BY <1>0, <1>4, UnregisterType DEF FinalizeUnregisters, TypeOK
  <2>2. run' \in [Ref -> Run]
    BY <1>0, <1>4, NilTypes DEF TypeOK, FinalizeUnregisters, Run, OptRef, OptSession
  <2>3. TypeOK'
    BY <1>0, <1>4, <2>1, <2>2 DEF TypeOK, FinalizeUnregisters, sessionVars
  <2>4. RowBound'
    BY <1>0, <1>4, <2>1, NilAssumption DEF TypeOK, OptRef, OptSession, RowBound,
                                           FinalizeUnregisters, NoRun, NotAdopted
  <2>5. RunBound'
    BY <1>0, <1>4, <2>1, NilAssumption DEF TypeOK, OptRef, OptSession, RunBound,
                                           FinalizeUnregisters, NoRun, NotAdopted
  <2> QED  BY <1>0, <1>4, <2>3, <2>4, <2>5 DEF IInv, ParkBound, ReleaseBound, RevivalBound,
                                               DetachedWhenStopped, FinalizeUnregisters, sessionVars
<1> QED  BY <1>1, <1>2, <1>3, <1>4 DEF FinalizeStep

\* So does a revival.
LEMMA RevivalStepKeeps ==
  ASSUME IInv, NEW r \in Ref, RevivalStep(r)
  PROVE  IInv'
<1>0. /\ IInv /\ TypeOK /\ RowBound /\ ParkBound /\ ReleaseBound
      /\ RevivalBound /\ RunBound /\ DetachedWhenStopped
  BY DEF IInv
<1>1. CASE FactoryDeclines(r)
  <2>1. /\ caller' \in [Caller -> Call]
        /\ revival' \in [Ref -> Revival]
        /\ inflight' \in OptRef
        /\ RevivalBound'
    BY <1>0, <1>1, NilTypes, SettleKeeps DEF FactoryDeclines
  <2>2. TypeOK'
    BY <1>0, <1>1, <2>1 DEF TypeOK, FactoryDeclines, sessionVars
  <2> QED  BY <1>0, <1>1, <2>2, <2>1 DEF IInv, RowBound, ParkBound, ReleaseBound, RunBound,
                                         DetachedWhenStopped, FactoryDeclines, sessionVars
<1>2. CASE FactoryResolves(r)
  <2>1. adopted' \in Adoption
    BY <1>2 DEF FactoryResolves, Adoption, OptRef
  <2>2. /\ caller' \in [Caller -> Call]
        /\ revival' \in [Ref -> Revival] /\ inflight' \in OptRef
        /\ RevivalBound'
    <3>1. CASE reg = r /\ status[r] = "parked"
      <4>1. /\ revival' = [revival EXCEPT ![r].pc = "build", ![r].cold = TRUE]
            /\ UNCHANGED <<inflight, caller>>
        BY <1>2, <3>1 DEF FactoryResolves
      <4>2. revival' \in [Ref -> Revival]
        BY <1>0, <4>1 DEF TypeOK, Revival
      <4> QED  BY <1>0, <4>1, <4>2 DEF TypeOK, Revival, RevivalBound
    <3>2. CASE ~(reg = r /\ status[r] = "parked")
      BY <1>0, <1>2, <3>2, NilTypes, SettleKeeps DEF FactoryResolves
    <3> QED  BY <3>1, <3>2
  <2>3. TypeOK'
    BY <1>0, <1>2, <2>1, <2>2 DEF TypeOK, FactoryResolves, sessionVars
  <2> QED  BY <1>0, <1>2, <2>2, <2>3
           DEF IInv, RowBound, ParkBound, ReleaseBound, RunBound, DetachedWhenStopped,
               FactoryResolves
<1>3. ASSUME NEW s \in Session, ReviverOpens(r, s)
     PROVE  IInv'
  <2>1. life' \in [Session -> Life]
    BY <1>0, <1>3, NilTypes DEF TypeOK, ReviverOpens, Life
  <2>2. owner' \in [Session -> OptRef]
    BY <1>0, <1>3, NilTypes DEF TypeOK, ReviverOpens, OptRef
  <2>3. hooked' \subseteq Session
    BY <1>0, <1>3, NilTypes DEF TypeOK, ReviverOpens
  <2>4. revival' \in [Ref -> Revival]
    BY <1>0, <1>3, NilTypes DEF TypeOK, ReviverOpens, Revival, OptSession
  <2>5. TypeOK'
    BY <1>0, <1>3, <2>1, <2>2, <2>3, <2>4 DEF TypeOK, ReviverOpens, sessionVars
  <2>6. RevivalBound'
    BY <1>0, <1>3, NilAssumption DEF TypeOK, OptRef, OptSession, RevivalBound, ReviverOpens
  <2> QED  BY <1>0, <1>3, <2>5, <2>6 DEF IInv, RowBound, ParkBound, ReleaseBound, RunBound,
                                         DetachedWhenStopped, ReviverOpens, sessionVars
<1>4. CASE ReviverClaims(r)
  <2>1. revival' \in [Ref -> Revival]
    BY <1>0, <1>4, NilTypes DEF TypeOK, ReviverClaims, Revival, OptSession
  <2>2. TypeOK'
    BY <1>0, <1>4, <2>1 DEF TypeOK, ReviverClaims, sessionVars
  <2>3. RevivalBound'
    BY <1>0, <1>4, NilAssumption DEF TypeOK, OptRef, OptSession, RevivalBound, ReviverClaims
  <2> QED  BY <1>0, <1>4, <2>2, <2>3 DEF IInv, RowBound, ParkBound, ReleaseBound, RunBound,
                                         DetachedWhenStopped, ReviverClaims, sessionVars
<1>5. CASE ReviverFails(r)
  <2>1. /\ caller' \in [Caller -> Call]
        /\ revival' \in [Ref -> Revival]
        /\ inflight' \in OptRef
        /\ RevivalBound'
    BY <1>0, <1>5, NilTypes, SettleKeeps DEF ReviverFails
  <2>2. life' \in [Session -> Life]
    BY <1>0, <1>5, NilTypes DEF TypeOK, ReviverFails, Life
  <2>3. adopted' \in Adoption
    BY <1>0, <1>5, DropColdType DEF ReviverFails
  <2>4. TypeOK'
    BY <1>0, <1>5, <2>1, <2>2, <2>3 DEF TypeOK, ReviverFails, sessionVars
  <2> QED  BY <1>0, <1>5, <2>4, <2>1 DEF IInv, RowBound, ParkBound, ReleaseBound, RunBound,
                                         DetachedWhenStopped, ReviverFails, sessionVars
<1>6. CASE ReviverAttaches(r)
  <2> DEFINE s == revival[r].ses
  <2>0. s \in Session
    BY <1>0, <1>6 DEF RevivalBound, ReviverAttaches
  <2>1. CASE Attachable(r)
    <3>1. /\ sess' = [sess EXCEPT ![r] = s] /\ SetStatus(r, "running")
          /\ life' = [life EXCEPT ![s] = "live"] /\ hooked' = hooked \cup {s}
          /\ revival' = [revival EXCEPT ![r].pc = "attached"]
      BY <1>6, <2>1 DEF ReviverAttaches
    <3>2. status' \in [Ref -> Status] /\ adopted' \in Adoption
      BY <1>0, <3>1, SetStatusType DEF Status
    <3>3. status' = [status EXCEPT ![r] = "running"]
      BY <3>1 DEF SetStatus
    <3>4. revival' \in [Ref -> Revival] /\ RevivalBound'
      BY <1>0, <2>0, <3>1 DEF TypeOK, Revival, RevivalBound
    <3>5. TypeOK'
      BY <1>0, <1>6, <2>0, <3>1, <3>2, <3>4 DEF TypeOK, Life, OptSession, ReviverAttaches
    <3>6. RowBound' /\ RunBound' /\ DetachedWhenStopped'
      BY <1>0, <1>6, <2>1, <3>1, <3>3, NilAssumption
         DEF TypeOK, RowBound, RunBound, DetachedWhenStopped, ReviverAttaches, Attachable
    <3> QED  BY <1>0, <1>6, <3>4, <3>5, <3>6 DEF IInv, ParkBound, ReleaseBound, ReviverAttaches
  <2>2. CASE ~Attachable(r)
    <3>1. /\ life' = [life EXCEPT ![s] = "disposing"]
          /\ revival' = [revival EXCEPT ![r].pc = "disposing"]
          /\ UNCHANGED <<sess, status, adopted, hooked>>
      BY <1>6, <2>2 DEF ReviverAttaches, Disposing
    <3>2. revival' \in [Ref -> Revival] /\ RevivalBound'
      BY <1>0, <2>0, <3>1 DEF TypeOK, Revival, RevivalBound
    <3>3. TypeOK'
      BY <1>0, <1>6, <3>1, <3>2 DEF TypeOK, Life, ReviverAttaches
    <3> QED  BY <1>0, <1>6, <3>1, <3>2, <3>3
             DEF IInv, RowBound, ParkBound, ReleaseBound, RunBound, DetachedWhenStopped,
                 ReviverAttaches
  <2> QED  BY <2>1, <2>2
<1>7. CASE ReviverFailsLate(r)
  <2>1. life' \in [Session -> Life]
    BY <1>0, <1>7, NilTypes DEF TypeOK, ReviverFailsLate, Disposing, Life
  <2>2. revival' \in [Ref -> Revival]
    BY <1>0, <1>7, NilTypes DEF TypeOK, ReviverFailsLate, Disposing, Revival, OptSession
  <2>3. TypeOK'
    BY <1>0, <1>7, <2>1, <2>2 DEF TypeOK, ReviverFailsLate, sessionVars
  <2>4. RevivalBound'
    BY <1>0, <1>7, NilAssumption DEF TypeOK, OptRef, OptSession, RevivalBound, ReviverFailsLate,
                                     Disposing
  <2> QED  BY <1>0, <1>7, <2>3, <2>4 DEF IInv, RowBound, ParkBound, ReleaseBound, RunBound,
                                         DetachedWhenStopped, ReviverFailsLate, sessionVars
<1>8. CASE ReviverThrows(r)
  <2>1. /\ caller' \in [Caller -> Call]
        /\ revival' \in [Ref -> Revival]
        /\ inflight' \in OptRef
        /\ RevivalBound'
    BY <1>0, <1>8, NilTypes, SettleKeeps DEF ReviverThrows
  <2>2. adopted' \in Adoption
    BY <1>0, <1>8, DropColdType DEF ReviverThrows
  <2>3. TypeOK'
    BY <1>0, <1>8, <2>1, <2>2 DEF TypeOK, ReviverThrows, sessionVars
  <2> QED  BY <1>0, <1>8, <2>3, <2>1 DEF IInv, RowBound, ParkBound, ReleaseBound, RunBound,
                                         DetachedWhenStopped, ReviverThrows, sessionVars
<1>9. CASE RevivalEnds(r)
  <2> DEFINE s == revival[r].ses
  <2>0. s \in Session /\ mirrored' = mirrored \cup {s}
    BY <1>0, <1>9 DEF RevivalBound, RevivalEnds
  <2>1. CASE reg = r /\ status[r] = "running" /\ sess[r] = s
    <3>1. SetStatus(r, "idle") /\ Settle(r, Got(s)) /\ UNCHANGED life
      BY <1>9, <2>1 DEF RevivalEnds
    <3>2. status' \in [Ref -> Status] /\ adopted' \in Adoption
      BY <1>0, <3>1, SetStatusType DEF Status
    <3>3. Got(s) \in Call
      BY <2>0 DEF Got, NoCall, Call, OptRef, OptSession
    <3>4. /\ caller' \in [Caller -> Call]
          /\ revival' \in [Ref -> Revival] /\ inflight' \in OptRef
          /\ RevivalBound'
      BY <1>0, <3>1, <3>3, SettleKeeps
    <3>5. TypeOK'
      BY <1>0, <1>9, <2>0, <3>1, <3>2, <3>4 DEF TypeOK, RevivalEnds
    <3>6. status' = [status EXCEPT ![r] = "idle"]
      BY <3>1 DEF SetStatus
    <3>7. RowBound' /\ RunBound' /\ DetachedWhenStopped'
      BY <1>0, <1>9, <2>1, <3>6, NilAssumption
         DEF TypeOK, RowBound, RunBound, DetachedWhenStopped, RevivalEnds
    <3> QED  BY <1>0, <1>9, <3>4, <3>5, <3>7 DEF IInv, ParkBound, ReleaseBound, RevivalEnds
  <2>2. CASE ~(reg = r /\ status[r] = "running" /\ sess[r] = s)
    <3>1. /\ life' = [life EXCEPT ![s] = "disposing"]
          /\ revival' = [revival EXCEPT ![r].pc = "disposing"]
          /\ UNCHANGED <<status, adopted, inflight, caller>>
      BY <1>9, <2>2 DEF RevivalEnds, Disposing
    <3>2. revival' \in [Ref -> Revival] /\ RevivalBound'
      BY <1>0, <2>0, <3>1 DEF TypeOK, Revival, RevivalBound
    <3>3. TypeOK'
      BY <1>0, <1>9, <2>0, <3>1, <3>2 DEF TypeOK, Life, RevivalEnds
    <3> QED  BY <1>0, <1>9, <3>1, <3>2, <3>3
             DEF IInv, RowBound, ParkBound, ReleaseBound, RunBound, DetachedWhenStopped, RevivalEnds
  <2> QED  BY <2>1, <2>2
<1>10. CASE RevivalRejects(r)
  <2>1. /\ caller' \in [Caller -> Call]
        /\ revival' \in [Ref -> Revival]
        /\ inflight' \in OptRef
        /\ RevivalBound'
    BY <1>0, <1>10, NilTypes, SettleKeeps DEF RevivalRejects
  <2>2. adopted' \in Adoption
    BY <1>0, <1>10, DropColdType DEF RevivalRejects
  <2>3. TypeOK'
    BY <1>0, <1>10, <2>1, <2>2 DEF TypeOK, RevivalRejects, sessionVars
  <2> QED  BY <1>0, <1>10, <2>3, <2>1 DEF IInv, RowBound, ParkBound, ReleaseBound, RunBound,
                                          DetachedWhenStopped, RevivalRejects, sessionVars
<1> QED  BY <1>1, <1>2, <1>3, <1>4, <1>5, <1>6, <1>7, <1>8, <1>9, <1>10 DEF RevivalStep

\* So do a session's turns and its dispose.
LEMMA SessionStepKeeps ==
  ASSUME IInv, NEW s \in Session, SessionStep(s)
  PROVE  IInv'
<1>0. /\ IInv /\ TypeOK /\ RowBound /\ ParkBound /\ ReleaseBound
      /\ RevivalBound /\ RunBound /\ DetachedWhenStopped
  BY DEF IInv
<1>1. CASE TurnStarts(s)
  <2>1. /\ status' \in [Ref -> Status]
        /\ adopted' \in Adoption
        /\ CreatesNone
        /\ DetachedWhenStopped'
    BY <1>0, <1>1, MirrorKeeps DEF TurnStarts
  <2>2. streaming' \subseteq Session
    BY <1>0, <1>1, NilTypes DEF TypeOK, TurnStarts
  <2>3. TypeOK'
    BY <1>0, <1>1, <2>1, <2>2 DEF TypeOK, TurnStarts, sessionVars
  <2>4. RowBound'
    BY <1>0, <1>1, <2>1, NilAssumption DEF TypeOK, OptRef, OptSession, RowBound, TurnStarts,
                                           CreatesNone
  <2>5. RunBound'
    BY <1>0, <1>1, <2>1, NilAssumption DEF TypeOK, OptRef, OptSession, RunBound, TurnStarts,
                                           CreatesNone
  <2> QED  BY <1>0, <1>1, <2>3, <2>4, <2>5, <2>1 DEF IInv, ParkBound, ReleaseBound, RevivalBound,
                                                     TurnStarts, sessionVars
<1>2. CASE TurnEnds(s)
  <2>1. /\ status' \in [Ref -> Status]
        /\ adopted' \in Adoption
        /\ CreatesNone
        /\ DetachedWhenStopped'
    BY <1>0, <1>2, MirrorKeeps DEF TurnEnds
  <2>2. streaming' \subseteq Session
    BY <1>0, <1>2, NilTypes DEF TypeOK, TurnEnds
  <2>3. TypeOK'
    BY <1>0, <1>2, <2>1, <2>2 DEF TypeOK, TurnEnds, sessionVars
  <2>4. RowBound'
    BY <1>0, <1>2, <2>1, NilAssumption DEF TypeOK, OptRef, OptSession, RowBound, TurnEnds,
                                           CreatesNone
  <2>5. RunBound'
    BY <1>0, <1>2, <2>1, NilAssumption DEF TypeOK, OptRef, OptSession, RunBound, TurnEnds,
                                           CreatesNone
  <2> QED  BY <1>0, <1>2, <2>3, <2>4, <2>5, <2>1 DEF IInv, ParkBound, ReleaseBound, RevivalBound,
                                                     TurnEnds, sessionVars
<1>3. CASE DisposeSettles(s)
  <2>1. /\ reg' \in OptRef
        /\ adopted' \in Adoption
        /\ reg' \in {reg, NoRef}
    BY <1>0, <1>3, UnregisterType DEF DisposeSettles, TypeOK
  <2>2. life' \in [Session -> Life]
    BY <1>0, <1>3, NilTypes DEF TypeOK, DisposeSettles, Life
  <2>3. mirrored' \subseteq Session
    BY <1>0, <1>3, NilTypes DEF TypeOK, DisposeSettles
  <2>4. streaming' \subseteq Session
    BY <1>0, <1>3, NilTypes DEF TypeOK, DisposeSettles
  <2>5. TypeOK'
    BY <1>0, <1>3, <2>1, <2>2, <2>3, <2>4 DEF TypeOK, DisposeSettles, sessionVars
  <2>6. RowBound'
    BY <1>0, <1>3, <2>1, NilAssumption DEF TypeOK, OptRef, OptSession, RowBound, DisposeSettles,
                                           NotAdopted
  <2> QED  BY <1>0, <1>3, <2>5, <2>6 DEF IInv, ParkBound, ReleaseBound, RevivalBound, RunBound,
                                         DetachedWhenStopped, DisposeSettles, sessionVars
<1> QED  BY <1>1, <1>2, <1>3 DEF SessionStep

\* So does a park.
LEMMA ParkStepKeeps ==
  ASSUME IInv, ParkStep
  PROVE  IInv'
<1>0. /\ IInv /\ TypeOK /\ RowBound /\ ParkBound /\ ReleaseBound
      /\ RevivalBound /\ RunBound /\ DetachedWhenStopped
  BY DEF IInv
<1>1. CASE ParkGivesUp
  <2>1. /\ park' \in Park
        /\ caller' \in [Caller -> Call]
        /\ release' \in [Releaser -> Release]
        /\ ParkBound'
        /\ ReleaseBound'
    BY <1>0, <1>1, SettleParkKeeps DEF ParkGivesUp
  <2>2. TypeOK'
    BY <1>0, <1>1, <2>1 DEF TypeOK, ParkGivesUp, sessionVars
  <2> QED  BY <1>0, <1>1, <2>2, <2>1 DEF IInv, RowBound, RevivalBound, RunBound,
                                         DetachedWhenStopped, ParkGivesUp, sessionVars
<1>2. CASE ParkCommits
  <2>1. /\ status' \in [Ref -> Status]
        /\ adopted' \in Adoption
    BY <1>0, <1>2, SetStatusType DEF ParkCommits, TypeOK, Status, Park, OptRef
  <2>2. sess' \in [Ref -> OptSession]
    BY <1>0, <1>2, NilTypes DEF TypeOK, ParkCommits, CanSet, Disposing, OptSession
  <2>3. life' \in [Session -> Life]
    BY <1>0, <1>2, NilTypes DEF TypeOK, ParkCommits, CanSet, Disposing, Life
  <2>4. park' \in Park
    BY <1>0, <1>2, NilTypes DEF TypeOK, ParkCommits, CanSet, Disposing, Park, OptRef, OptSession
  <2>5. TypeOK'
    BY <1>0, <1>2, <2>1, <2>2, <2>3, <2>4 DEF TypeOK, ParkCommits, sessionVars
  <2>6. RowBound'
    BY <1>0, <1>2, NilAssumption DEF TypeOK, OptRef, OptSession, RowBound, ParkCommits, CanSet,
                                     Disposing, SetStatus
  <2>7. ParkBound'
    BY <1>0, <1>2, NilAssumption DEF TypeOK, OptRef, OptSession, ParkBound, ParkCommits, CanSet,
                                     Disposing, SetStatus
  <2>8. RunBound'
    BY <1>0, <1>2, NilAssumption DEF TypeOK, RowBound, RunBound, ParkCommits, CanSet, SetStatus
  <2>9. DetachedWhenStopped'
    BY <1>0, <1>2, NilAssumption DEF TypeOK, OptRef, OptSession, DetachedWhenStopped, ParkCommits,
                                     CanSet, Disposing, SetStatus
  <2> QED  BY <1>0, <1>2, <2>5, <2>6, <2>7, <2>8, <2>9
     DEF IInv, ReleaseBound, RevivalBound, ParkCommits, sessionVars
<1>3. CASE ParkEnds
  <2>1. /\ park' \in Park
        /\ caller' \in [Caller -> Call]
        /\ release' \in [Releaser -> Release]
        /\ ParkBound'
        /\ ReleaseBound'
    BY <1>0, <1>3, SettleParkKeeps DEF ParkEnds
  <2>2. TypeOK'
    BY <1>0, <1>3, <2>1 DEF TypeOK, ParkEnds, sessionVars
  <2> QED  BY <1>0, <1>3, <2>2, <2>1 DEF IInv, RowBound, RevivalBound, RunBound,
                                         DetachedWhenStopped, ParkEnds, sessionVars
<1> QED  BY <1>1, <1>2, <1>3 DEF ParkStep

\* So does a call of ensureLive.
LEMMA CallerStepKeeps ==
  ASSUME IInv, NEW c \in Caller, CallerStep(c)
  PROVE  IInv'
<1>0. /\ IInv /\ TypeOK /\ RowBound /\ ParkBound /\ ReleaseBound
      /\ RevivalBound /\ RunBound /\ DetachedWhenStopped
  BY DEF IInv
<1>1. CASE EnsureLive(c)
  <2>1. /\ caller' \in [Caller -> Call]
        /\ revival' \in [Ref -> Revival]
        /\ inflight' \in OptRef
        /\ RevivalBound'
    BY <1>0, <1>1, ResolveKeeps DEF EnsureLive
  <2>2. TypeOK'
    BY <1>0, <1>1, <2>1 DEF TypeOK, EnsureLive, sessionVars
  <2> QED  BY <1>0, <1>1, <2>2, <2>1 DEF IInv, RowBound, ParkBound, ReleaseBound, RunBound,
                                         DetachedWhenStopped, EnsureLive, sessionVars
<1>2. CASE EnsureLiveCancelsPark(c)
  <2>1. park' \in Park
    BY <1>0, <1>2, NilTypes DEF TypeOK, EnsureLiveCancelsPark, Park, OptRef, OptSession
  <2>2. caller' \in [Caller -> Call]
    BY <1>0, <1>2, NilTypes DEF TypeOK, EnsureLiveCancelsPark, Call, OptRef, OptSession
  <2>3. TypeOK'
    BY <1>0, <1>2, <2>1, <2>2 DEF TypeOK, EnsureLiveCancelsPark, sessionVars
  <2>4. ParkBound'
    BY <1>0, <1>2, NilAssumption DEF TypeOK, OptRef, OptSession, ParkBound, EnsureLiveCancelsPark,
                                     NoCall
  <2> QED  BY <1>0, <1>2, <2>3, <2>4 DEF IInv, RowBound, ReleaseBound, RevivalBound, RunBound,
                                         DetachedWhenStopped, EnsureLiveCancelsPark, sessionVars
<1>3. CASE EnsureLiveWaits(c)
  <2>1. caller' \in [Caller -> Call]
    BY <1>0, <1>3, NilTypes DEF TypeOK, EnsureLiveWaits, Call, OptRef, OptSession
  <2>2. TypeOK'
    BY <1>0, <1>3, <2>1 DEF TypeOK, EnsureLiveWaits, sessionVars
  <2> QED  BY <1>0, <1>3, <2>2 DEF IInv, RowBound, ParkBound, ReleaseBound, RevivalBound,
                                   RunBound, DetachedWhenStopped, EnsureLiveWaits, sessionVars
<1>4. CASE KeepsSession(c)
  <2>1. adopted' \in Adoption
    BY <1>0, <1>4, NilTypes DEF TypeOK, KeepsSession, Got, Adoption, OptRef
  <2>2. caller' \in [Caller -> Call]
    BY <1>0, <1>4 DEF TypeOK, KeepsSession, Got, NoCall, LiveSession, Call, OptRef, OptSession
  <2>3. TypeOK'
    BY <1>0, <1>4, <2>1, <2>2 DEF TypeOK, KeepsSession, sessionVars
  <2> QED  BY <1>0, <1>4, <2>3 DEF IInv, RowBound, ParkBound, ReleaseBound, RevivalBound,
                                   RunBound, DetachedWhenStopped, KeepsSession, sessionVars
<1>5. CASE ResolvesAfterPark(c)
  <2>1. /\ caller' \in [Caller -> Call]
        /\ revival' \in [Ref -> Revival]
        /\ inflight' \in OptRef
        /\ RevivalBound'
    BY <1>0, <1>5, ResolveKeeps DEF ResolvesAfterPark
  <2>2. TypeOK'
    BY <1>0, <1>5, <2>1 DEF TypeOK, ResolvesAfterPark, sessionVars
  <2> QED  BY <1>0, <1>5, <2>2, <2>1 DEF IInv, RowBound, ParkBound, ReleaseBound, RunBound,
                                         DetachedWhenStopped, ResolvesAfterPark, sessionVars
<1>6. CASE CallerReturns(c)
  <2>1. caller' \in [Caller -> Call]
    BY <1>0, <1>6, NilTypes DEF TypeOK, CallerReturns, Call, OptRef, OptSession
  <2>2. TypeOK'
    BY <1>0, <1>6, <2>1 DEF TypeOK, CallerReturns, sessionVars
  <2> QED  BY <1>0, <1>6, <2>2 DEF IInv, RowBound, ParkBound, ReleaseBound, RevivalBound,
                                   RunBound, DetachedWhenStopped, CallerReturns, sessionVars
<1> QED  BY <1>1, <1>2, <1>3, <1>4, <1>5, <1>6 DEF CallerStep

\* So does a call of release.
LEMMA ReleaseStepKeeps ==
  ASSUME IInv, NEW x \in Releaser, ReleaseStep(x)
  PROVE  IInv'
<1>0. /\ IInv /\ TypeOK /\ RowBound /\ ParkBound /\ ReleaseBound
      /\ RevivalBound /\ RunBound /\ DetachedWhenStopped
  BY DEF IInv
<1>1. ASSUME NEW tomb \in BOOLEAN, Releases(x, tomb)
     PROVE  IInv'
  <2>1. /\ adopted' \in Adoption
        /\ park' \in Park
        /\ sess' \in [Ref -> OptSession]
        /\ status' \in [Ref -> Status]
        /\ life' \in [Session -> Life]
        /\ release' \in [Releaser -> Release]
        /\ ParkBound'
        /\ ReleaseBound'
        /\ DetachedWhenStopped'
        /\ CreatesNone
    <3> DEFINE q == IF reg # NoRef THEN reg ELSE adopted.ref
    <3>1. q \in Ref /\ BeginRelease(x, q, tomb)
      BY <1>0, <1>1 DEF TypeOK, OptRef, Adoption, Releases
    <3> HIDE DEF q
    <3> QED  BY <1>0, <1>1, <3>1, BeginReleaseKeeps
  <2>2. TypeOK'
    BY <1>0, <1>1, <2>1 DEF TypeOK, Releases, sessionVars
  <2>3. RowBound'
    BY <1>0, <1>1, <2>1, NilAssumption DEF TypeOK, OptRef, OptSession, RowBound, Releases,
                                           NotAdopted, CreatesNone
  <2>4. RunBound'
    BY <1>0, <1>1, <2>1, NilAssumption DEF TypeOK, OptRef, OptSession, RunBound, Releases,
                                           NotAdopted, CreatesNone
  <2> QED  BY <1>0, <1>1, <2>2, <2>3, <2>1, <2>4 DEF IInv, RevivalBound, Releases, sessionVars
<1>2. CASE ReleaseCaptures(x)
  <2>1. /\ sess' \in [Ref -> OptSession]
        /\ status' \in [Ref -> Status]
        /\ life' \in [Session -> Life]
        /\ release' \in [Releaser -> Release]
        /\ ReleaseBound'
        /\ DetachedWhenStopped'
        /\ CreatesNone
    <3>1. release[x].ref \in Ref /\ release[x].tomb \in BOOLEAN /\ release[x].owns \in BOOLEAN
      BY <1>0, <1>2 DEF TypeOK, Release, ReleaseBound, ReleaseCaptures
    <3> QED  BY <1>0, <1>2, <3>1, CaptureKeeps DEF ReleaseCaptures
  <2>2. TypeOK'
    BY <1>0, <1>2, <2>1 DEF TypeOK, ReleaseCaptures, sessionVars
  <2>3. RowBound'
    BY <1>0, <1>2, <2>1, NilAssumption DEF TypeOK, OptRef, OptSession, RowBound, ReleaseCaptures,
                                           CreatesNone
  <2>4. RunBound'
    BY <1>0, <1>2, <2>1, NilAssumption DEF TypeOK, OptRef, OptSession, RunBound, ReleaseCaptures,
                                           CreatesNone
  <2> QED  BY <1>0, <1>2, <2>2, <2>3, <2>1, <2>4 DEF IInv, ParkBound, RevivalBound,
                                                     ReleaseCaptures, sessionVars
<1>3. CASE ReleasePersisted(x)
  <2>1. life' \in [Session -> Life]
    BY <1>0, <1>3, NilTypes DEF TypeOK, ReleasePersisted, Disposing, Life
  <2>2. release' \in [Releaser -> Release]
    BY <1>0, <1>3, NilTypes DEF TypeOK, ReleasePersisted, Disposing, Release, OptRef, OptSession
  <2>3. TypeOK'
    BY <1>0, <1>3, <2>1, <2>2 DEF TypeOK, ReleasePersisted, sessionVars
  <2>4. ReleaseBound'
    BY <1>0, <1>3 DEF TypeOK, OptSession, Release, ReleaseBound, ReleasePersisted
  <2> QED  BY <1>0, <1>3, <2>3, <2>4 DEF IInv, RowBound, ParkBound, RevivalBound, RunBound,
                                         DetachedWhenStopped, ReleasePersisted, sessionVars
<1>4. CASE ReleaseDisposed(x)
  <2>1. release' \in [Releaser -> Release]
    BY <1>0, <1>4, NilTypes DEF TypeOK, ReleaseDisposed, Release, OptRef, OptSession
  <2>2. TypeOK'
    BY <1>0, <1>4, <2>1 DEF TypeOK, ReleaseDisposed, sessionVars
  <2>3. ReleaseBound'
    BY <1>0, <1>4, NilAssumption DEF TypeOK, OptRef, OptSession, ReleaseBound, ReleaseDisposed
  <2> QED  BY <1>0, <1>4, <2>2, <2>3 DEF IInv, RowBound, ParkBound, RevivalBound, RunBound,
                                         DetachedWhenStopped, ReleaseDisposed, sessionVars
<1>5. CASE ReleaseEnds(x)
  <2>1. /\ reg' \in OptRef
        /\ adopted' \in Adoption
        /\ reg' \in {reg, NoRef}
    BY <1>0, <1>5, UnregisterType DEF ReleaseEnds, TypeOK
  <2>2. release' \in [Releaser -> Release]
    BY <1>0, <1>5, NilTypes DEF TypeOK, ReleaseEnds, Release, OptRef, OptSession
  <2>3. TypeOK'
    BY <1>0, <1>5, <2>1, <2>2 DEF TypeOK, ReleaseEnds, sessionVars
  <2>4. RowBound'
    BY <1>0, <1>5, <2>1, NilAssumption DEF TypeOK, OptRef, OptSession, RowBound, ReleaseEnds,
                                           NoRelease, NotAdopted
  <2>5. ReleaseBound'
    BY <1>0, <1>5, <2>1, NilAssumption DEF TypeOK, OptRef, OptSession, ReleaseBound, ReleaseEnds,
                                           NoRelease, NotAdopted
  <2> QED  BY <1>0, <1>5, <2>3, <2>4, <2>5 DEF IInv, ParkBound, RevivalBound, RunBound,
                                               DetachedWhenStopped, ReleaseEnds, sessionVars
<1> QED  BY <1>1, <1>2, <1>3, <1>4, <1>5 DEF ReleaseStep

-----------------------------------------------------------------------------
(* The theorems.                                                           *)

LEMMA IInvInit ==
  ASSUME Init
  PROVE  IInv
<1>1. TypeOK
  BY NilTypes DEF Init, TypeOK, OptRef, OptSession, Status, Life
<1>2. RowBound /\ ParkBound /\ ReleaseBound /\ RevivalBound /\ RunBound
  BY DEF Init, RowBound, ParkBound, ReleaseBound, RevivalBound, RunBound,
         NotParking, NoRelease, NoRevival, NoRun
<1>3. DetachedWhenStopped
  BY DEF Init, DetachedWhenStopped
<1> QED  BY <1>1, <1>2, <1>3 DEF IInv

\* TimerParks is the one action outside the groups above.
LEMMA TimerParksKeeps ==
  ASSUME IInv, TimerParks
  PROVE  IInv'
<1>0. TypeOK /\ ParkBound  BY DEF IInv
<1>1. adopted' \in Adoption
  BY <1>0 DEF TypeOK, TimerParks, Adoption
<1>2. park' \in Park /\ ParkBound'
  <2>1. CASE park.ref = NoRef /\ reg # NoRef /\ reg = adopted.ref /\ LiveSession # NoSession
    <3>1. park' = [NotParking EXCEPT !.ref = reg, !.ses = sess[reg]]
      BY <2>1 DEF TimerParks
    <3>2. reg \in Ref /\ sess[reg] \in Session
      BY <1>0, <2>1 DEF TypeOK, OptRef, OptSession, LiveSession
    <3> QED  BY <3>1, <3>2 DEF NotParking, Park, OptRef, OptSession, ParkBound
  <2>2. CASE ~(park.ref = NoRef /\ reg # NoRef /\ reg = adopted.ref /\ LiveSession # NoSession)
    BY <1>0, <2>2 DEF TypeOK, TimerParks, ParkBound
  <2> QED  BY <2>1, <2>2
<1>3. TypeOK'
  BY <1>0, <1>1, <1>2 DEF TypeOK, TimerParks, sessionVars
<1> QED  BY <1>2, <1>3 DEF IInv, RowBound, ReleaseBound, RevivalBound, RunBound,
                           DetachedWhenStopped, TimerParks

LEMMA IInvStep ==
  ASSUME IInv, [Next]_vars
  PROVE  IInv'
<1>1. CASE Next
  BY <1>1, SpawnStepKeeps, FinalizeStepKeeps, RevivalStepKeeps, SessionStepKeeps, TimerParksKeeps,
     ParkStepKeeps, CallerStepKeeps, ReleaseStepKeeps DEF Next
<1>2. CASE UNCHANGED vars
  BY <1>2 DEF vars, sessionVars, IInv, TypeOK, RowBound, ParkBound, ReleaseBound, RevivalBound,
              RunBound, DetachedWhenStopped
<1> QED  BY <1>1, <1>2

\* Every state the lifecycle reaches satisfies the inductive invariant.
THEOREM InductiveInvariant == Spec => []IInv
<1> QED  BY IInvInit, IInvStep, PTL DEF Spec

\* The variables keep their types: every promise in flight names refs and sessions.
THEOREM TypeCorrect == Spec => []TypeOK
<1>1. IInv => TypeOK  BY DEF IInv
<1> QED  BY <1>1, InductiveInvariant, PTL

\* A parked or killed ref never has a session, so ensureLive cannot hand one out.
THEOREM StoppedIsDetached == Spec => []DetachedWhenStopped
<1>1. IInv => DetachedWhenStopped  BY DEF IInv
<1> QED  BY <1>1, InductiveInvariant, PTL

\* No step of the lifecycle takes a ref out of `aborted`.
LEMMA AbortedStays ==
  ASSUME IInv, Next, NEW q \in Ref, status[q] = "aborted"
  PROVE  status'[q] = "aborted"
<1>0. TypeOK /\ RunBound /\ RowBound  BY DEF IInv
<1>S. \A r \in Ref : \A st : SetStatus(r, st) /\ status[r] # "aborted" => status'[q] = "aborted"
  BY <1>0 DEF TypeOK, SetStatus
<1>1. ASSUME NEW r \in Ref, SpawnStep(r) PROVE status'[q] = "aborted"
  <2>1. CASE \/ SpawnClaims(r)
             \/ \E st \in {"parked", "aborted"} : RestoreRegisters(r, st) \/ RestoreReplaces(r, st)
    BY <1>0, <2>1
       DEF TypeOK, RunBound, RestoreRegisters, RestoreReplaces, SpawnClaims, Register, Unborn
  <2>2. CASE ResultAccepted(r)
    BY <1>S, <2>2 DEF ResultAccepted
  <2>3. CASE \E s \in Session : SpawnAttaches(r, s)
    BY <1>S, <2>3 DEF SpawnAttaches, Attachable
  <2>4. CASE UNCHANGED status
    BY <2>4
  <2> QED  BY <1>1, <2>1, <2>2, <2>3, <2>4
           DEF SpawnStep, SpawnProbes, SpawnReclaims, SpawnRefused, SpawnFails, RunStarts,
               SpawnFailsLate,
               sessionVars
<1>2. ASSUME NEW r \in Ref, FinalizeStep(r) PROVE status'[q] = "aborted"
  <2>1. CASE \E hot, owns \in BOOLEAN : FinalizeKept(r, hot, owns)
    BY <1>0, <2>1 DEF TypeOK, FinalizeKept, CanSet
  <2>2. CASE \E x \in Releaser, tomb \in BOOLEAN : FinalizeAborted(r, x, tomb)
    BY <1>0, <2>2 DEF TypeOK, FinalizeAborted, BeginRelease, Capture
  <2> QED  BY <1>2, <2>1, <2>2 DEF FinalizeStep, FinalizeDisposes, FinalizeUnregisters
<1>3. ASSUME NEW r \in Ref, RevivalStep(r) PROVE status'[q] = "aborted"
  <2>1. CASE ReviverAttaches(r)
    BY <1>S, <2>1 DEF ReviverAttaches, Attachable
  <2>2. CASE RevivalEnds(r)
    BY <1>S, <2>2 DEF RevivalEnds
  <2> QED  BY <1>3, <2>1, <2>2
           DEF RevivalStep, FactoryDeclines, FactoryResolves, ReviverOpens, ReviverClaims,
               ReviverFails,
               ReviverFailsLate, ReviverThrows, RevivalRejects
<1>4. ASSUME NEW s \in Session, SessionStep(s) PROVE status'[q] = "aborted"
  <2>1. \A st : Mirror(s, st) => status'[q] = "aborted"
    BY <1>0, NilAssumption DEF TypeOK, OptRef, Mirror, SetStatus, CanSet
  <2> QED  BY <1>4, <2>1 DEF SessionStep, TurnStarts, TurnEnds, DisposeSettles
<1>5. CASE TimerParks \/ ParkStep
  <2>1. CASE ParkCommits
    BY <1>0, <2>1 DEF TypeOK, ParkCommits, SetStatus, CanSet
  <2> QED  BY <1>5, <2>1 DEF TimerParks, ParkStep, ParkGivesUp, ParkEnds
<1>6. ASSUME NEW c \in Caller, CallerStep(c) PROVE status'[q] = "aborted"
  BY <1>6 DEF CallerStep, EnsureLive, EnsureLiveCancelsPark, EnsureLiveWaits, KeepsSession,
              ResolvesAfterPark, CallerReturns
<1>7. ASSUME NEW x \in Releaser, ReleaseStep(x) PROVE status'[q] = "aborted"
  BY <1>0, <1>7 DEF TypeOK, ReleaseStep, Releases, BeginRelease, ReleaseCaptures, Capture,
                    ReleasePersisted, ReleaseDisposed, ReleaseEnds
<1> QED  BY <1>1, <1>2, <1>3, <1>4, <1>5, <1>6, <1>7 DEF Next

\* A killed agent stays killed, whatever revivals, parks, releases and finalizers of
\* whichever generation are still in flight.
THEOREM KilledStaysKilled == Spec => TombstoneIsFinal
<1> DEFINE Final == \A r \in Ref : status[r] = "aborted" => status'[r] = "aborted" /\ sess'[r] = NoSession
<1>1. ASSUME IInv, IInv', [Next]_vars PROVE [Final]_vars
  <2>1. CASE Next
    <3> SUFFICES ASSUME NEW r \in Ref, status[r] = "aborted"
                 PROVE  status'[r] = "aborted" /\ sess'[r] = NoSession
      OBVIOUS
    <3>1. status'[r] = "aborted"  BY <1>1, <2>1, AbortedStays
    <3> QED  BY <1>1, <3>1 DEF IInv, DetachedWhenStopped
  <2> QED  BY <1>1, <2>1
<1>2. Spec => [][Final]_vars
  BY <1>1, InductiveInvariant, PTL DEF Spec
<1> QED  BY <1>2 DEF TombstoneIsFinal
=============================================================================
