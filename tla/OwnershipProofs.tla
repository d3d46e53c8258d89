--------------------------- MODULE OwnershipProofs ---------------------------
(***************************************************************************)
(* Who has a session object.  Several promises at a time hold one: the run *)
(* of a spawn, a revival, a park, a kill that writes its tombstone, the    *)
(* row itself.  For any number of generations, sessions, callers and       *)
(* releasers of an id, all who hold a session hold it for the same ref,    *)
(* and a ref has one session at most.  The properties of AgentLifecycle    *)
(* about sessions follow: one writer per transcript, no closed session     *)
(* attached, none handed out that a park disposes, no stale work on a      *)
(* newer row, and, with one generation, a timer for every idle agent.      *)
(***************************************************************************)
EXTENDS AgentLifecycleProofs

\* Ref r has session s through its row, its run, its revival, its park, a kill, or as the
\* one whose transcript s has open.
Holds(r, s) ==
  \/ s = sess[r]
  \/ run[r].pc \in {"attached", "running"} /\ s = run[r].ses
  \/ revival[r].pc # "none" /\ s = revival[r].ses
  \/ park.ref = r /\ s = park.ses
  \/ \E x \in Releaser : release[x].pc = "persist" /\ release[x].ref = r /\ s = release[x].ses
  \/ life[s] \in Open /\ owner[s] = r

\* Nothing holds a session for r; no session has the transcript of r open.
Empty(r)  == \A s \in Session : ~Holds(r, s)
Closed(r) == \A s \in Session : ~(life[s] \in Open /\ owner[s] = r)

\* A ref has one session however many hold it, and that session was built for it.
OneHolder ==
  \A r \in Ref, s \in Session : Holds(r, s) =>
    owner[s] = r /\ \A t \in Session : Holds(r, t) => s = t

\* Nothing is under way for a ref that was not registered yet.
NewIsUntouched ==
  \A r \in Ref : status[r] = "none" =>
    adopted.ref # r /\ park.ref # r /\ revival[r].pc = "none" /\ Empty(r)

\* From the claim of an id to the end of its run the row is not parked or adopted, and
\* nothing else makes a session for it.
RunHolds ==
  \A r \in Ref :
    /\ run[r].pc \in {"claimed", "attached", "running"} =>
         adopted.ref # r /\ park.ref # r /\ revival[r].pc = "none" /\ status[r] \notin {"none", "parked"}
    /\ run[r].pc = "claimed" => Empty(r)

\* A revival has the id to itself until it attaches the session it opened.
RevivalHolds ==
  \A r \in Ref :
    /\ revival[r].pc \in {"factory", "build"} => Empty(r)
    /\ revival[r].pc \in {"factory", "build", "opened", "claimed"} =>
         sess[r] = NoSession /\ park.ref # r

\* A parked row has no open transcript once its park is over, until a revival opens it.
ParkedIsClosed ==
  \A r \in Ref :
    status[r] = "parked" /\ revival[r].pc \in {"none", "attached"} /\ park.ref # r => Closed(r)

\* A park has the session of its row until it detaches it, and every session a row has
\* takes the row along when it is disposed of from outside.
ParkHolds ==
  /\ park.ref # NoRef =>
       IF park.detached THEN sess[park.ref] = NoSession ELSE sess[park.ref] = park.ses
  /\ park.ref = NoRef => ~park.detached
  /\ \A r \in Ref : sess[r] # NoSession => sess[r] \in hooked

\* A kill has marked the row before it writes the tombstone of the session it captured.
KillHolds ==
  \A x \in Releaser :
    /\ release[x].pc = "idle" => release[x] = NoRelease
    /\ release[x].pc = "persist" /\ release[x].ses # NoSession => status[release[x].ref] = "aborted"

\* Who was told that a park is over goes on before another park starts.
NoParkPending ==
  /\ \A c \in Caller : caller[c].pc \in {"parkDone", "cancelDone"} => park.ref = NoRef
  /\ \A x \in Releaser : release[x].pc = "parkDone" => park.ref = NoRef

\* The inductive invariant: who may hold a session in every stage of the processes.
OInv ==
  /\ OneRevivalRegistered
  /\ OneHolder /\ NewIsUntouched /\ RunHolds /\ RevivalHolds
  /\ ParkedIsClosed /\ ParkHolds /\ KillHolds /\ NoParkPending

\* No session gets a holder in this step that it did not have.
HandsOn == \A r \in Ref, s \in Session : Holds(r, s)' => Holds(r, s)

\* A session object that is built anew was held by nobody.
LEMMA FreshIsFree ==
  ASSUME TypeOK, NEW s \in Session, Fresh(s)
  PROVE  \A q \in Ref : ~Holds(q, s)
BY DEF TypeOK, Fresh, Holds, Open, Run, Revival

\* A step that hands every session to at most its present holder.
LEMMA HandsOnKeeps ==
  ASSUME OInv, HandsOn, UNCHANGED owner
  PROVE  OneHolder' /\ \A r \in Ref : Empty(r) => Empty(r)'
BY DEF OInv, OneHolder, HandsOn, Empty

\* The ref whose transcript a session has open is the one that holds it.
LEMMA EmptyIsClosed ==
  ASSUME NEW r \in Ref, Empty(r)
  PROVE  Closed(r)
BY DEF Empty, Closed, Holds

\* #resolveAndRevive starts a revival only where nothing holds a session.
LEMMA ResolveHolds ==
  ASSUME IInv, OInv, NEW c \in Caller, Resolve(c), park.ref = NoRef,
         UNCHANGED <<reg, status, sess, sessionVars, adopted, park, release, run>>
  PROVE  OInv'
<1>0. /\ reg \in OptRef /\ revival \in [Ref -> Revival] /\ caller \in [Caller -> Call]
      /\ sess \in [Ref -> OptSession] /\ status \in [Ref -> Status] /\ run \in [Ref -> Run]
      /\ RunBound /\ DetachedWhenStopped
      /\ OneRevivalRegistered /\ OneHolder /\ NewIsUntouched /\ RunHolds /\ RevivalHolds
      /\ ParkedIsClosed /\ ParkHolds /\ KillHolds /\ NoParkPending
  BY DEF IInv, OInv, TypeOK
<1>1. CASE UNCHANGED revival
  <2>1. HandsOn
    BY <1>1 DEF HandsOn, Holds, sessionVars
  <2>2. OneHolder' /\ \A r \in Ref : Empty(r) => Empty(r)'
    BY <2>1, HandsOnKeeps DEF sessionVars
  <2>3. OneRevivalRegistered'
    BY <1>0, <1>1 DEF Resolve, StartRevival, OneRevivalRegistered
  <2>4. NewIsUntouched' /\ RunHolds' /\ RevivalHolds'
    BY <1>0, <1>1, <2>2 DEF NewIsUntouched, RunHolds, RevivalHolds
  <2>5. ParkedIsClosed' /\ ParkHolds' /\ KillHolds' /\ NoParkPending'
    BY <1>0, <1>1 DEF ParkedIsClosed, Closed, ParkHolds, KillHolds, NoParkPending, sessionVars
  <2> QED  BY <2>2, <2>3, <2>4, <2>5 DEF OInv
<1>2. CASE /\ reg # NoRef /\ LiveSession = NoSession /\ inflight # reg
           /\ status[reg] = "parked" /\ StartRevival(reg, c)
  <2>1. reg \in Ref /\ sess[reg] = NoSession /\ revival[reg].pc = "none"
    BY <1>0, <1>2 DEF OptRef, LiveSession, OneRevivalRegistered, Revival
  <2>2. PICK pc \in {"factory", "build"} : revival' = [revival EXCEPT ![reg] = [NoRevival EXCEPT !.pc = pc]]
    BY <1>2 DEF StartRevival
  <2>3. /\ revival'[reg].pc = pc /\ revival'[reg].ses = NoSession
        /\ \A q \in Ref : q # reg => revival'[q] = revival[q]
        /\ inflight' = reg
    BY <1>0, <1>2, <2>1, <2>2 DEF NoRevival, StartRevival
  <2>4. Empty(reg)
    <3>1. Closed(reg)
      BY <1>0, <1>2, <2>1, NilAssumption DEF ParkedIsClosed
    <3>2. \A x \in Releaser : release[x].pc = "persist" /\ release[x].ref = reg => release[x].ses = NoSession
      BY <1>0, <1>2 DEF KillHolds
    <3> QED  BY <1>0, <1>2, <2>1, <3>1, <3>2, NilAssumption DEF Empty, Holds, Closed, RunHolds
  <2>5. HandsOn
    BY <2>3, NilAssumption DEF HandsOn, Holds, sessionVars
  <2>6. OneHolder' /\ \A r \in Ref : Empty(r) => Empty(r)'
    BY <2>5, HandsOnKeeps DEF sessionVars
  <2>7. OneRevivalRegistered'
    BY <2>3 DEF OneRevivalRegistered
  <2>8. NewIsUntouched' /\ RunHolds' /\ RevivalHolds'
    BY <1>0, <1>2, <2>1, <2>3, <2>4, <2>6, NilAssumption
       DEF NewIsUntouched, RunHolds, RevivalHolds
  <2>9. ParkedIsClosed' /\ ParkHolds' /\ KillHolds' /\ NoParkPending'
    <3>1. ParkedIsClosed'
      BY <1>0, <2>1, <2>3 DEF ParkedIsClosed, Closed, sessionVars
    <3>2. ParkHolds' /\ KillHolds' /\ NoParkPending'
      BY <1>0 DEF ParkHolds, KillHolds, NoParkPending, sessionVars
    <3> QED  BY <3>1, <3>2
  <2> QED  BY <2>6, <2>7, <2>8, <2>9 DEF OInv
<1> QED  BY <1>1, <1>2 DEF Resolve, StartRevival

\* release captures the session of its ref: a kill holds it from here on.
LEMMA CaptureHolds ==
  ASSUME IInv, OInv, NEW x \in Releaser, NEW r \in Ref, NEW tomb \in BOOLEAN, NEW owns,
         Capture(x, r, tomb, owns), park.ref # r, adopted' \in {adopted, NotAdopted},
         \A q \in Ref : run'[q] = run[q] \/ run'[q].pc = "done",
         UNCHANGED <<reg, owner, hooked, park, revival, inflight, caller>>
  PROVE  OInv'
<1> DEFINE live == IF reg = r THEN sess[r] ELSE NoSession
<1>0. /\ adopted \in Adoption /\ release \in [Releaser -> Release]
      /\ sess \in [Ref -> OptSession] /\ status \in [Ref -> Status]
      /\ life \in [Session -> Life] /\ owner \in [Session -> OptRef]
      /\ park.ref \in OptRef /\ ReleaseBound /\ RowBound /\ DetachedWhenStopped
      /\ OneRevivalRegistered /\ OneHolder /\ NewIsUntouched /\ RunHolds /\ RevivalHolds
      /\ ParkedIsClosed /\ ParkHolds /\ KillHolds /\ NoParkPending
  BY DEF IInv, OInv, TypeOK, Park
<1>1. /\ release'[x].pc \in {"persist", "dispose", "cleanup"}
      /\ release'[x].ref = r /\ release'[x].ses = live
      /\ release'[x].pc = "persist" => tomb
      /\ \A y \in Releaser : y # x => release'[y] = release[y]
  BY <1>0 DEF Capture
<1>2. live # NoSession => live \in Session /\ Holds(r, live) /\ owner[live] = r
  BY <1>0 DEF OptSession, Holds, OneHolder
<1>3. /\ \A s \in Session : life'[s] = life[s] \/ (s = live /\ life'[s] = "disposing" /\ ~tomb)
      /\ \A q \in Ref : q # r => sess'[q] = sess[q] /\ status'[q] = status[q]
      /\ sess'[r] = IF tomb /\ reg = r THEN NoSession ELSE sess[r]
      /\ status'[r] = IF tomb /\ reg = r THEN "aborted" ELSE status[r]
  BY <1>0, <1>2 DEF Capture, Disposing
<1> HIDE DEF live
<1>4. HandsOn
  BY <1>1, <1>2, <1>3, NilAssumption DEF HandsOn, Holds
<1>5. OneHolder' /\ \A q \in Ref : Empty(q) => Empty(q)'
  BY <1>4, HandsOnKeeps
<1>6. NotAdopted.ref = NoRef
  BY DEF NotAdopted
<1>7. OneRevivalRegistered'
  BY <1>0 DEF OneRevivalRegistered
<1>8. NewIsUntouched' /\ RunHolds' /\ RevivalHolds'
  BY <1>0, <1>3, <1>5, <1>6, NilAssumption DEF NewIsUntouched, RunHolds, RevivalHolds
<1>9. ParkedIsClosed'
  BY <1>0, <1>2, <1>3, NilAssumption DEF ParkedIsClosed, Closed, live, DetachedWhenStopped
<1>10. ParkHolds'
  BY <1>0, <1>3 DEF ParkHolds, OptRef
<1>11. KillHolds'
  <2>1. release'[x].pc = "persist" /\ release'[x].ses # NoSession => status'[r] = "aborted"
    BY <1>1, <1>3 DEF live
  <2>2. \A y \in Releaser : y # x /\ release[y].pc = "persist" => release[y].ref \in Ref
    BY <1>0 DEF ReleaseBound
  <2> QED  BY <1>0, <1>1, <1>3, <2>1, <2>2 DEF KillHolds
<1>12. NoParkPending'
  BY <1>0, <1>1 DEF NoParkPending
<1> QED  BY <1>5, <1>7, <1>8, <1>9, <1>10, <1>11, <1>12 DEF OInv

-----------------------------------------------------------------------------
(* One lemma per action: it hands no session on that had no holder before  *)
(* (HandsOn), so OneHolder stays; then the conjuncts it can disturb, and   *)
(* the rest in one step.                                                   *)

LEMMA RestoreRegistersHolds ==
  ASSUME IInv, OInv, NEW r \in Ref, NEW st \in {"parked", "aborted"}, RestoreRegisters(r, st)
  PROVE  OInv'
<1>1. HandsOn
  BY DEF HandsOn, Holds, RestoreRegisters, sessionVars
<1>2. OneRevivalRegistered'
  BY DEF OInv, IInv, TypeOK, OneRevivalRegistered, NewIsUntouched, HandsOn,
     RestoreRegisters, Register, Unborn
<1>3. OneHolder'
  BY <1>1 DEF OInv, OneHolder, HandsOn, RestoreRegisters, sessionVars
<1>4. NewIsUntouched'
  BY <1>1 DEF OInv, IInv, TypeOK, NewIsUntouched, Empty, HandsOn, RestoreRegisters, Register
<1>5. RunHolds'
  BY <1>1 DEF OInv, IInv, TypeOK, RunHolds, Empty, HandsOn, RestoreRegisters, Register,
     Unborn
<1>6. ParkedIsClosed'
  BY DEF OInv, IInv, TypeOK, NewIsUntouched, ParkedIsClosed, Empty, HandsOn, Closed,
     RestoreRegisters, Register, Unborn, sessionVars, Holds
<1>7. KillHolds'
  BY DEF OInv, IInv, TypeOK, KillHolds, HandsOn, RestoreRegisters, Register, Unborn
<1>8. RevivalHolds' /\ ParkHolds' /\ NoParkPending'
  BY <1>1 DEF OInv, RevivalHolds, ParkHolds, NoParkPending, Empty, HandsOn,
     RestoreRegisters, sessionVars
<1> QED  BY <1>1, <1>2, <1>3, <1>4, <1>5, <1>6, <1>7, <1>8 DEF OInv

LEMMA RestoreReplacesHolds ==
  ASSUME IInv, OInv, NEW r \in Ref, NEW st \in {"parked", "aborted"}, RestoreReplaces(r, st)
  PROVE  OInv'
<1>1. HandsOn
  BY DEF HandsOn, Holds, RestoreReplaces, sessionVars
<1>2. OneRevivalRegistered'
  BY DEF OInv, IInv, TypeOK, OneRevivalRegistered, NewIsUntouched, HandsOn,
     RestoreReplaces, Unborn
<1>3. OneHolder'
  BY <1>1 DEF OInv, OneHolder, HandsOn, RestoreReplaces, sessionVars
<1>4. NewIsUntouched'
  BY NilAssumption, <1>1 DEF OInv, IInv, TypeOK, NewIsUntouched, Empty, HandsOn,
     RestoreReplaces, OnRemoved, NotAdopted
<1>5. RunHolds'
  BY NilAssumption, <1>1 DEF OInv, IInv, TypeOK, RunHolds, Empty, HandsOn, RestoreReplaces,
     Unborn, OnRemoved, NotAdopted
<1>6. ParkedIsClosed'
  BY DEF OInv, IInv, TypeOK, NewIsUntouched, ParkedIsClosed, Empty, HandsOn, Closed,
     RestoreReplaces, Unborn, sessionVars, Holds
<1>7. KillHolds'
  BY DEF OInv, IInv, TypeOK, KillHolds, HandsOn, RestoreReplaces, Unborn, OnRemoved
<1>8. RevivalHolds' /\ ParkHolds' /\ NoParkPending'
  BY <1>1 DEF OInv, RevivalHolds, ParkHolds, NoParkPending, Empty, HandsOn, RestoreReplaces,
     sessionVars
<1> QED  BY <1>1, <1>2, <1>3, <1>4, <1>5, <1>6, <1>7, <1>8 DEF OInv

LEMMA SpawnClaimsHolds ==
  ASSUME IInv, OInv, NEW r \in Ref, SpawnClaims(r)
  PROVE  OInv'
<1>1. HandsOn
  BY DEF OInv, IInv, TypeOK, HandsOn, Holds, SpawnClaims, sessionVars
<1>2. OneRevivalRegistered'
  BY DEF OInv, IInv, TypeOK, OneRevivalRegistered, NewIsUntouched, RunBound, HandsOn,
     SpawnClaims, Register, Unborn
<1>3. OneHolder'
  BY <1>1 DEF OInv, OneHolder, HandsOn, SpawnClaims, sessionVars
<1>4. NewIsUntouched'
  BY <1>1 DEF OInv, IInv, TypeOK, NewIsUntouched, Empty, HandsOn, SpawnClaims, Register
<1>5. RunHolds'
  BY <1>1 DEF OInv, IInv, TypeOK, NewIsUntouched, RunHolds, RunBound, Empty, HandsOn,
     SpawnClaims, Register, Unborn
<1>6. ParkedIsClosed'
  BY DEF OInv, IInv, TypeOK, ParkedIsClosed, HandsOn, Closed, SpawnClaims, Register,
     sessionVars
<1>7. KillHolds'
  BY DEF OInv, IInv, TypeOK, KillHolds, RunBound, HandsOn, SpawnClaims, Register, Unborn
<1>8. RevivalHolds' /\ ParkHolds' /\ NoParkPending'
  BY <1>1 DEF OInv, RevivalHolds, ParkHolds, NoParkPending, Empty, HandsOn, SpawnClaims,
     sessionVars
<1> QED  BY <1>1, <1>2, <1>3, <1>4, <1>5, <1>6, <1>7, <1>8 DEF OInv

LEMMA SpawnProbesHolds ==
  ASSUME IInv, OInv, NEW r \in Ref, SpawnProbes(r)
  PROVE  OInv'
<1>1. HandsOn
  BY DEF OInv, IInv, TypeOK, HandsOn, Holds, SpawnProbes, sessionVars
<1>2. OneHolder'
  BY <1>1 DEF OInv, OneHolder, HandsOn, SpawnProbes, sessionVars
<1>3. RunHolds'
  BY <1>1 DEF OInv, IInv, TypeOK, RunHolds, Empty, HandsOn, SpawnProbes
<1>4. OneRevivalRegistered' /\ NewIsUntouched' /\ RevivalHolds' /\ ParkedIsClosed'
      /\ ParkHolds' /\ KillHolds' /\ NoParkPending'
  BY <1>1 DEF OInv, OneRevivalRegistered, NewIsUntouched, RevivalHolds, ParkedIsClosed,
     ParkHolds, KillHolds, NoParkPending, Empty, HandsOn, Closed, SpawnProbes, sessionVars
<1> QED  BY <1>1, <1>2, <1>3, <1>4 DEF OInv

LEMMA SpawnReclaimsHolds ==
  ASSUME IInv, OInv, NEW r \in Ref, SpawnReclaims(r)
  PROVE  OInv'
<1>1. HandsOn
  BY DEF OInv, IInv, TypeOK, HandsOn, Holds, SpawnReclaims, sessionVars
<1>2. OneRevivalRegistered'
  BY DEF OInv, IInv, TypeOK, OneRevivalRegistered, HandsOn, OptSession, SpawnReclaims,
     Unregister
<1>3. OneHolder'
  BY <1>1 DEF OInv, OneHolder, HandsOn, SpawnReclaims, sessionVars
<1>4. NewIsUntouched'
  BY NilAssumption, <1>1 DEF OInv, IInv, TypeOK, NewIsUntouched, Empty, HandsOn,
     SpawnReclaims, Unregister, OnRemoved, NotAdopted
<1>5. RunHolds'
  BY NilAssumption, <1>1 DEF OInv, IInv, TypeOK, RunHolds, Empty, HandsOn, SpawnReclaims,
     Unregister, OnRemoved, NotAdopted
<1>6. RevivalHolds' /\ ParkedIsClosed' /\ ParkHolds' /\ KillHolds' /\ NoParkPending'
  BY <1>1 DEF OInv, RevivalHolds, ParkedIsClosed, ParkHolds, KillHolds, NoParkPending,
     Empty, HandsOn, Closed, SpawnReclaims, sessionVars
<1> QED  BY <1>1, <1>2, <1>3, <1>4, <1>5, <1>6 DEF OInv

LEMMA SpawnRefusedHolds ==
  ASSUME IInv, OInv, NEW r \in Ref, SpawnRefused(r)
  PROVE  OInv'
<1>1. HandsOn
  BY DEF OInv, IInv, TypeOK, HandsOn, Holds, SpawnRefused, NoRun, sessionVars
<1>2. OneHolder'
  BY <1>1 DEF OInv, OneHolder, HandsOn, SpawnRefused, sessionVars
<1>3. RunHolds'
  BY <1>1 DEF OInv, IInv, TypeOK, RunHolds, Empty, HandsOn, SpawnRefused, NoRun
<1>4. OneRevivalRegistered' /\ NewIsUntouched' /\ RevivalHolds' /\ ParkedIsClosed'
      /\ ParkHolds' /\ KillHolds' /\ NoParkPending'
  BY <1>1 DEF OInv, OneRevivalRegistered, NewIsUntouched, RevivalHolds, ParkedIsClosed,
     ParkHolds, KillHolds, NoParkPending, Empty, HandsOn, Closed, SpawnRefused, sessionVars
<1> QED  BY <1>1, <1>2, <1>3, <1>4 DEF OInv

LEMMA SpawnFailsHolds ==
  ASSUME IInv, OInv, NEW r \in Ref, SpawnFails(r)
  PROVE  OInv'
<1>1. HandsOn
  BY DEF OInv, IInv, TypeOK, HandsOn, Holds, SpawnFails, sessionVars
<1>2. OneRevivalRegistered'
  BY DEF OInv, IInv, TypeOK, OneRevivalRegistered, HandsOn, SpawnFails, Unregister,
     OnRemoved
<1>3. OneHolder'
  BY <1>1 DEF OInv, OneHolder, HandsOn, SpawnFails, sessionVars
<1>4. NewIsUntouched'
  BY NilAssumption, <1>1 DEF OInv, IInv, TypeOK, NewIsUntouched, Empty, HandsOn, SpawnFails,
     Unregister, OnRemoved, NotAdopted
<1>5. RunHolds'
  BY <1>1 DEF OInv, IInv, TypeOK, RunHolds, Empty, HandsOn, SpawnFails, Unregister,
     OnRemoved
<1>6. RevivalHolds' /\ ParkedIsClosed' /\ ParkHolds' /\ KillHolds' /\ NoParkPending'
  BY <1>1 DEF OInv, RevivalHolds, ParkedIsClosed, ParkHolds, KillHolds, NoParkPending,
     Empty, HandsOn, Closed, SpawnFails, sessionVars
<1> QED  BY <1>1, <1>2, <1>3, <1>4, <1>5, <1>6 DEF OInv

LEMMA SpawnAttachesHolds ==
  ASSUME IInv, OInv, NEW r \in Ref, NEW s \in Session, SpawnAttaches(r, s)
  PROVE  OInv'
<1>0. /\ \A q \in Ref : ~Holds(q, s)
      /\ Empty(r) /\ revival[r].pc = "none" /\ status[r] \notin {"none", "parked"}
      /\ park.ref # r /\ adopted.ref # r
      /\ sess \in [Ref -> OptSession] /\ run \in [Ref -> Run] /\ adopted \in Adoption
      /\ status \in [Ref -> Status] /\ life \in [Session -> Life] /\ owner \in [Session -> OptRef]
      /\ revival \in [Ref -> Revival] /\ reg \in OptRef /\ park.ref \in OptRef /\ ReleaseBound
      /\ OneRevivalRegistered /\ OneHolder /\ NewIsUntouched /\ RunHolds /\ RevivalHolds
      /\ ParkedIsClosed /\ ParkHolds /\ KillHolds /\ NoParkPending
  <2>1. run[r].pc = "claimed" /\ Fresh(s)  BY DEF SpawnAttaches
  <2> QED  BY <2>1, FreshIsFree DEF IInv, OInv, TypeOK, RunHolds, Park
<1>1. /\ \A q \in Ref, t \in Session : Holds(q, t)' => Holds(q, t) \/ (q = r /\ t = s)
      /\ owner'[s] = r /\ \A t \in Session \ {s} : owner'[t] = owner[t]
  BY <1>0, NilAssumption DEF SpawnAttaches, SetStatus, Holds, Open, Run
<1>2. OneHolder' /\ \A q \in Ref \ {r} : Empty(q) => Empty(q)'
  BY <1>0, <1>1 DEF OneHolder, Empty
<1>3. /\ adopted'.ref = adopted.ref
      /\ \A q \in Ref : q # r => status'[q] = status[q] /\ sess'[q] = sess[q] /\ run'[q] = run[q]
      /\ status'[r] \in {status[r], "running"} /\ run'[r].pc \in {"attached", "done"}
      /\ hooked' = hooked \cup {s} /\ sess'[r] \in {sess[r], s}
      /\ \A t \in Session : t # s => life'[t] = life[t]
      /\ status'[r] = "aborted" => status[r] = "aborted"
      /\ UNCHANGED <<park, revival, release, caller, inflight, reg>>
  BY <1>0 DEF SpawnAttaches, SetStatus, OnStatus, Adoption, Run, Attachable
<1>4. OneRevivalRegistered'
  BY <1>0, <1>3 DEF OneRevivalRegistered
<1>5. NewIsUntouched' /\ RunHolds' /\ RevivalHolds'
  BY <1>0, <1>2, <1>3 DEF NewIsUntouched, RunHolds, RevivalHolds
<1>6. ParkedIsClosed'
  BY <1>0, <1>1, <1>3 DEF ParkedIsClosed, Closed
<1>7. ParkHolds'
  BY <1>0, <1>3 DEF ParkHolds, OptRef
<1>8. KillHolds' /\ NoParkPending'
  <2>1. \A q \in Ref : status[q] = "aborted" => status'[q] = "aborted"
    BY <1>0, <1>3 DEF SpawnAttaches, SetStatus, Attachable
  <2> QED  BY <1>0, <1>3, <2>1 DEF KillHolds, NoParkPending, ReleaseBound
<1> QED  BY <1>2, <1>4, <1>5, <1>6, <1>7, <1>8 DEF OInv

LEMMA RunStartsHolds ==
  ASSUME IInv, OInv, NEW r \in Ref, RunStarts(r)
  PROVE  OInv'
<1>1. HandsOn
  BY DEF OInv, IInv, TypeOK, HandsOn, Holds, OneHolder, RunStarts
<1>2. OneHolder'
  BY <1>1 DEF OInv, OneHolder, HandsOn, RunStarts
<1>3. RunHolds'
  BY <1>1 DEF OInv, IInv, TypeOK, RunHolds, Empty, HandsOn, RunStarts
<1>4. OneRevivalRegistered' /\ NewIsUntouched' /\ RevivalHolds' /\ ParkedIsClosed'
      /\ ParkHolds' /\ KillHolds' /\ NoParkPending'
  BY <1>1 DEF OInv, OneRevivalRegistered, NewIsUntouched, RevivalHolds, ParkedIsClosed,
     ParkHolds, KillHolds, NoParkPending, Empty, HandsOn, Closed, RunStarts
<1> QED  BY <1>1, <1>2, <1>3, <1>4 DEF OInv

LEMMA SpawnFailsLateHolds ==
  ASSUME IInv, OInv, NEW r \in Ref, SpawnFailsLate(r)
  PROVE  OInv'
<1>1. HandsOn
  BY DEF OInv, IInv, TypeOK, HandsOn, Holds, OneHolder, SpawnFailsLate, Disposing
<1>2. OneHolder'
  BY <1>1 DEF OInv, OneHolder, HandsOn, SpawnFailsLate
<1>3. RunHolds'
  BY <1>1 DEF OInv, IInv, TypeOK, RunHolds, Empty, HandsOn, SpawnFailsLate
<1>4. ParkedIsClosed'
  BY DEF OInv, IInv, TypeOK, OneHolder, RunHolds, ParkedIsClosed, HandsOn, Closed,
     SpawnFailsLate, Disposing, Holds
<1>5. OneRevivalRegistered' /\ NewIsUntouched' /\ RevivalHolds' /\ ParkHolds' /\ KillHolds'
      /\ NoParkPending'
  BY <1>1 DEF OInv, OneRevivalRegistered, NewIsUntouched, RevivalHolds, ParkHolds,
     KillHolds, NoParkPending, Empty, HandsOn, SpawnFailsLate
<1> QED  BY <1>1, <1>2, <1>3, <1>4, <1>5 DEF OInv

LEMMA ResultAcceptedHolds ==
  ASSUME IInv, OInv, NEW r \in Ref, ResultAccepted(r)
  PROVE  OInv'
<1>1. HandsOn
  BY DEF HandsOn, Holds, ResultAccepted, sessionVars
<1>2. OneHolder'
  BY <1>1 DEF OInv, OneHolder, HandsOn, ResultAccepted, sessionVars
<1>3. NewIsUntouched'
  BY <1>1 DEF OInv, IInv, TypeOK, NewIsUntouched, Empty, HandsOn, ResultAccepted, SetStatus,
     OnStatus
<1>4. RunHolds'
  BY <1>1 DEF OInv, IInv, TypeOK, RunHolds, Empty, HandsOn, ResultAccepted, SetStatus,
     OnStatus
<1>5. ParkedIsClosed'
  BY DEF OInv, IInv, TypeOK, ParkedIsClosed, HandsOn, Closed, ResultAccepted, SetStatus,
     sessionVars
<1>6. KillHolds'
  BY DEF OInv, IInv, TypeOK, KillHolds, HandsOn, ResultAccepted, SetStatus, OnStatus
<1>7. OneRevivalRegistered' /\ RevivalHolds' /\ ParkHolds' /\ NoParkPending'
  BY <1>1 DEF OInv, OneRevivalRegistered, RevivalHolds, ParkHolds, NoParkPending, Empty,
     HandsOn, ResultAccepted, sessionVars
<1> QED  BY <1>1, <1>2, <1>3, <1>4, <1>5, <1>6, <1>7 DEF OInv

LEMMA TurnStartsHolds ==
  ASSUME IInv, OInv, NEW s \in Session, TurnStarts(s)
  PROVE  OInv'
<1>1. HandsOn
  BY DEF HandsOn, Holds, TurnStarts, Mirror
<1>2. OneHolder'
  BY <1>1 DEF OInv, OneHolder, HandsOn, TurnStarts
<1>3. NewIsUntouched'
  BY <1>1 DEF OInv, IInv, TypeOK, NewIsUntouched, Empty, HandsOn, TurnStarts, Mirror,
     SetStatus, OnStatus, Adoption
<1>4. RunHolds'
  BY <1>1 DEF OInv, IInv, TypeOK, RunHolds, Empty, HandsOn, TurnStarts, Mirror, SetStatus,
     OnStatus, Adoption
<1>5. ParkedIsClosed'
  BY DEF OInv, IInv, TypeOK, ParkedIsClosed, HandsOn, Closed, TurnStarts, Mirror, SetStatus
<1>6. KillHolds'
  BY DEF OInv, IInv, TypeOK, KillHolds, ReleaseBound, HandsOn, TurnStarts, Mirror, CanSet,
     SetStatus
<1>7. OneRevivalRegistered' /\ RevivalHolds' /\ ParkHolds' /\ NoParkPending'
  BY <1>1 DEF OInv, OneRevivalRegistered, RevivalHolds, ParkHolds, NoParkPending, Empty,
     HandsOn, TurnStarts
<1> QED  BY <1>1, <1>2, <1>3, <1>4, <1>5, <1>6, <1>7 DEF OInv

LEMMA TurnEndsHolds ==
  ASSUME IInv, OInv, NEW s \in Session, TurnEnds(s)
  PROVE  OInv'
<1>1. HandsOn
  BY DEF HandsOn, Holds, TurnEnds, Mirror
<1>2. OneHolder'
  BY <1>1 DEF OInv, OneHolder, HandsOn, TurnEnds
<1>3. NewIsUntouched'
  BY <1>1 DEF OInv, IInv, TypeOK, NewIsUntouched, Empty, HandsOn, TurnEnds, Mirror,
     SetStatus, OnStatus, Adoption
<1>4. RunHolds'
  BY <1>1 DEF OInv, IInv, TypeOK, RunHolds, Empty, HandsOn, TurnEnds, Mirror, SetStatus,
     OnStatus, Adoption
<1>5. ParkedIsClosed'
  BY DEF OInv, IInv, TypeOK, ParkedIsClosed, HandsOn, Closed, TurnEnds, Mirror, SetStatus
<1>6. KillHolds'
  BY DEF OInv, IInv, TypeOK, KillHolds, ReleaseBound, HandsOn, TurnEnds, Mirror, CanSet,
     SetStatus
<1>7. OneRevivalRegistered' /\ RevivalHolds' /\ ParkHolds' /\ NoParkPending'
  BY <1>1 DEF OInv, OneRevivalRegistered, RevivalHolds, ParkHolds, NoParkPending, Empty,
     HandsOn, TurnEnds
<1> QED  BY <1>1, <1>2, <1>3, <1>4, <1>5, <1>6, <1>7 DEF OInv

LEMMA DisposeSettlesHolds ==
  ASSUME IInv, OInv, NEW s \in Session, DisposeSettles(s)
  PROVE  OInv'
<1>1. HandsOn
  BY DEF OInv, IInv, TypeOK, HandsOn, Holds, Open, DisposeSettles
<1>2. OneRevivalRegistered'
  BY DEF OInv, IInv, TypeOK, OneRevivalRegistered, HandsOn, DisposeSettles, Unregister,
     OnRemoved
<1>3. OneHolder'
  BY <1>1 DEF OInv, OneHolder, HandsOn, DisposeSettles
<1>4. NewIsUntouched'
  BY NilAssumption, <1>1 DEF OInv, IInv, TypeOK, NewIsUntouched, Empty, HandsOn,
     DisposeSettles, Unregister, OnRemoved, NotAdopted
<1>5. RunHolds'
  BY NilAssumption, <1>1 DEF OInv, IInv, TypeOK, RunHolds, Empty, HandsOn, DisposeSettles,
     Unregister, OnRemoved, NotAdopted
<1>6. ParkedIsClosed'
  BY DEF OInv, IInv, TypeOK, ParkedIsClosed, HandsOn, Closed, Open, DisposeSettles
<1>7. RevivalHolds' /\ ParkHolds' /\ KillHolds' /\ NoParkPending'
  BY <1>1 DEF OInv, RevivalHolds, ParkHolds, KillHolds, NoParkPending, Empty, HandsOn,
     DisposeSettles
<1> QED  BY <1>1, <1>2, <1>3, <1>4, <1>5, <1>6, <1>7 DEF OInv

LEMMA TimerParksHolds ==
  ASSUME IInv, OInv, TimerParks
  PROVE  OInv'
<1>0. /\ adopted \in Adoption /\ reg \in OptRef /\ sess \in [Ref -> OptSession]
      /\ status \in [Ref -> Status] /\ RowBound /\ DetachedWhenStopped
      /\ OneRevivalRegistered /\ OneHolder /\ NewIsUntouched /\ RunHolds /\ RevivalHolds
      /\ ParkedIsClosed /\ ParkHolds /\ KillHolds /\ NoParkPending
  BY DEF IInv, OInv, TypeOK
<1>1. adopted'.ref = adopted.ref
  BY <1>0 DEF TimerParks, Adoption
<1>2. CASE park.ref = NoRef /\ reg # NoRef /\ reg = adopted.ref /\ LiveSession # NoSession
  <2>1. reg \in Ref /\ sess[reg] \in Session /\ status[reg] \notin {"none", "parked"}
    BY <1>0, <1>2 DEF OptRef, OptSession, LiveSession, RowBound, DetachedWhenStopped
  <2>2. park'.ref = reg /\ park'.ses = sess[reg] /\ ~park'.cancelled /\ ~park'.detached
    BY <1>2 DEF TimerParks, NotParking
  <2>3. HandsOn
    BY <1>2, <2>1, <2>2, NilAssumption DEF HandsOn, Holds, TimerParks, sessionVars
  <2>4. OneHolder' /\ \A q \in Ref : Empty(q) => Empty(q)'
    BY <2>3, HandsOnKeeps DEF TimerParks, sessionVars
  <2>5. NewIsUntouched' /\ RunHolds'
    BY <1>0, <1>1, <1>2, <2>1, <2>2, <2>4 DEF NewIsUntouched, RunHolds, TimerParks
  <2>6. RevivalHolds'
    BY <1>0, <2>1, <2>2, <2>4, NilAssumption DEF RevivalHolds, TimerParks, OptSession
  <2>7. NoParkPending'
    BY DEF NoParkPending, TimerParks, NewTask
  <2>8. OneRevivalRegistered' /\ ParkedIsClosed' /\ ParkHolds' /\ KillHolds'
    BY <1>0, <1>2, <2>1, <2>2, NilAssumption
       DEF OneRevivalRegistered, ParkedIsClosed, Closed, ParkHolds, KillHolds, TimerParks,
           sessionVars
  <2> QED  BY <2>4, <2>5, <2>6, <2>7, <2>8 DEF OInv
<1>3. CASE UNCHANGED park
  <2>1. HandsOn
    BY <1>3 DEF HandsOn, Holds, TimerParks, sessionVars
  <2>2. OneHolder' /\ \A q \in Ref : Empty(q) => Empty(q)'
    BY <2>1, HandsOnKeeps DEF TimerParks, sessionVars
  <2>3. NewIsUntouched' /\ RunHolds' /\ RevivalHolds'
    BY <1>0, <1>1, <1>3, <2>2 DEF NewIsUntouched, RunHolds, RevivalHolds, TimerParks
  <2>4. /\ OneRevivalRegistered' /\ ParkedIsClosed' /\ ParkHolds' /\ KillHolds' /\ NoParkPending'
    BY <1>0, <1>3 DEF OneRevivalRegistered, ParkedIsClosed, Closed, ParkHolds, KillHolds,
                      NoParkPending, TimerParks, sessionVars
  <2> QED  BY <2>2, <2>3, <2>4 DEF OInv
<1> QED  BY <1>2, <1>3 DEF TimerParks

LEMMA ParkGivesUpHolds ==
  ASSUME IInv, OInv, ParkGivesUp
  PROVE  OInv'
<1>1. HandsOn
  BY NilAssumption DEF OInv, IInv, TypeOK, HandsOn, Holds, ParkGivesUp, SettlePark,
     NotParking, sessionVars
<1>2. OneHolder'
  BY <1>1 DEF OInv, OneHolder, HandsOn, ParkGivesUp, sessionVars
<1>3. NewIsUntouched'
  BY NilAssumption, <1>1 DEF OInv, IInv, TypeOK, NewIsUntouched, Empty, HandsOn,
     ParkGivesUp, SettlePark, NotParking
<1>4. RunHolds'
  BY NilAssumption, <1>1 DEF OInv, IInv, TypeOK, RunHolds, Empty, HandsOn, ParkGivesUp,
     SettlePark, NotParking
<1>5. RevivalHolds'
  BY NilAssumption, <1>1 DEF OInv, IInv, TypeOK, RevivalHolds, Empty, HandsOn, ParkGivesUp,
     SettlePark, NotParking
<1>6. ParkedIsClosed'
  BY NilAssumption DEF OInv, IInv, TypeOK, ParkedIsClosed, ParkHolds, DetachedWhenStopped,
     ParkBound, HandsOn, Closed, ParkGivesUp, sessionVars
<1>7. ParkHolds'
  BY DEF OInv, IInv, TypeOK, ParkHolds, HandsOn, ParkGivesUp, SettlePark, NotParking,
     sessionVars
<1>8. KillHolds'
  BY DEF OInv, IInv, TypeOK, KillHolds, HandsOn, ParkGivesUp, SettlePark, NotParking
<1>9. NoParkPending'
  BY DEF OInv, IInv, TypeOK, NoParkPending, HandsOn, ParkGivesUp, SettlePark, NotParking
<1>10. OneRevivalRegistered'
  BY <1>1 DEF OInv, OneRevivalRegistered, HandsOn, ParkGivesUp
<1> QED  BY <1>1, <1>2, <1>3, <1>4, <1>5, <1>6, <1>7, <1>8, <1>9, <1>10 DEF OInv

LEMMA ParkCommitsHolds ==
  ASSUME IInv, OInv, ParkCommits
  PROVE  OInv'
<1>1. HandsOn
  BY NilAssumption DEF OInv, IInv, TypeOK, HandsOn, Holds, OneHolder, OptRef, ParkCommits,
     ParkStillValid, Disposing
<1>2. OneHolder'
  BY <1>1 DEF OInv, OneHolder, HandsOn, ParkCommits
<1>3. NewIsUntouched'
  BY <1>1 DEF OInv, IInv, TypeOK, NewIsUntouched, Empty, HandsOn, ParkCommits, SetStatus,
     OnStatus
<1>4. RunHolds'
  BY <1>1 DEF OInv, IInv, TypeOK, RunHolds, Empty, HandsOn, ParkCommits, SetStatus, OnStatus
<1>5. RevivalHolds'
  BY <1>1 DEF OInv, IInv, TypeOK, RevivalHolds, Empty, HandsOn, ParkCommits
<1>6. ParkedIsClosed'
  BY DEF OInv, IInv, TypeOK, OneHolder, ParkedIsClosed, HandsOn, Closed, OptRef,
     ParkCommits, SetStatus, Disposing, Park, Holds
<1>7. ParkHolds'
  BY DEF OInv, IInv, TypeOK, ParkHolds, HandsOn, OptRef, ParkCommits, Park
<1>8. KillHolds'
  BY DEF OInv, IInv, TypeOK, KillHolds, DetachedWhenStopped, ReleaseBound, HandsOn,
     ParkCommits, SetStatus, ParkStillValid
<1>9. NoParkPending'
  BY DEF OInv, IInv, TypeOK, NoParkPending, HandsOn, ParkCommits
<1>10. OneRevivalRegistered'
  BY DEF OInv, OneRevivalRegistered, HandsOn, ParkCommits
<1> QED  BY <1>1, <1>2, <1>3, <1>4, <1>5, <1>6, <1>7, <1>8, <1>9, <1>10 DEF OInv

LEMMA ParkEndsHolds ==
  ASSUME IInv, OInv, ParkEnds
  PROVE  OInv'
<1>1. HandsOn
  BY NilAssumption DEF OInv, IInv, TypeOK, HandsOn, Holds, ParkEnds, SettlePark, NotParking,
     sessionVars
<1>2. OneHolder'
  BY <1>1 DEF OInv, OneHolder, HandsOn, ParkEnds, sessionVars
<1>3. NewIsUntouched'
  BY NilAssumption, <1>1 DEF OInv, IInv, TypeOK, NewIsUntouched, Empty, HandsOn, ParkEnds,
     SettlePark, NotParking
<1>4. RunHolds'
  BY NilAssumption, <1>1 DEF OInv, IInv, TypeOK, RunHolds, Empty, HandsOn, ParkEnds,
     SettlePark, NotParking
<1>5. RevivalHolds'
  BY NilAssumption, <1>1 DEF OInv, IInv, TypeOK, RevivalHolds, Empty, HandsOn, ParkEnds,
     SettlePark, NotParking
<1>6. ParkedIsClosed'
  BY DEF OInv, IInv, TypeOK, OneHolder, ParkedIsClosed, ParkBound, HandsOn, Closed,
     Settled, Open, ParkEnds, SettlePark, NotParking, sessionVars, Holds
<1>7. ParkHolds'
  BY DEF OInv, IInv, TypeOK, ParkHolds, HandsOn, ParkEnds, SettlePark, NotParking,
     sessionVars
<1>8. KillHolds'
  BY DEF OInv, IInv, TypeOK, KillHolds, HandsOn, ParkEnds, SettlePark, NotParking
<1>9. NoParkPending'
  BY DEF OInv, IInv, TypeOK, NoParkPending, HandsOn, ParkEnds, SettlePark, NotParking
<1>10. OneRevivalRegistered'
  BY <1>1 DEF OInv, OneRevivalRegistered, HandsOn, ParkEnds
<1> QED  BY <1>1, <1>2, <1>3, <1>4, <1>5, <1>6, <1>7, <1>8, <1>9, <1>10 DEF OInv

LEMMA EnsureLiveHolds ==
  ASSUME IInv, OInv, NEW c \in Caller, EnsureLive(c)
  PROVE  OInv'
<1>1. park.ref = NoRef
  BY DEF EnsureLive, OInv, NoParkPending
<1> QED  BY <1>1, ResolveHolds DEF EnsureLive

LEMMA EnsureLiveCancelsParkHolds ==
  ASSUME IInv, OInv, NEW c \in Caller, EnsureLiveCancelsPark(c)
  PROVE  OInv'
<1>1. HandsOn
  BY DEF OInv, IInv, TypeOK, HandsOn, Holds, EnsureLiveCancelsPark, sessionVars
<1>2. OneHolder'
  BY <1>1 DEF OInv, OneHolder, HandsOn, EnsureLiveCancelsPark, sessionVars
<1>3. NewIsUntouched'
  BY <1>1 DEF OInv, IInv, TypeOK, NewIsUntouched, Empty, HandsOn, EnsureLiveCancelsPark
<1>4. RunHolds'
  BY <1>1 DEF OInv, IInv, TypeOK, RunHolds, Empty, HandsOn, EnsureLiveCancelsPark
<1>5. RevivalHolds'
  BY <1>1 DEF OInv, IInv, TypeOK, RevivalHolds, Empty, HandsOn, EnsureLiveCancelsPark
<1>6. ParkedIsClosed'
  BY DEF OInv, IInv, TypeOK, ParkedIsClosed, HandsOn, Closed, EnsureLiveCancelsPark,
     sessionVars
<1>7. ParkHolds'
  BY DEF OInv, IInv, TypeOK, ParkHolds, HandsOn, EnsureLiveCancelsPark, NoCall, sessionVars
<1>8. NoParkPending'
  BY DEF OInv, IInv, TypeOK, NoParkPending, HandsOn, EnsureLiveCancelsPark
<1>9. OneRevivalRegistered' /\ KillHolds'
  BY DEF OInv, OneRevivalRegistered, KillHolds, HandsOn, EnsureLiveCancelsPark
<1> QED  BY <1>1, <1>2, <1>3, <1>4, <1>5, <1>6, <1>7, <1>8, <1>9 DEF OInv

LEMMA EnsureLiveWaitsHolds ==
  ASSUME IInv, OInv, NEW c \in Caller, EnsureLiveWaits(c)
  PROVE  OInv'
<1>1. HandsOn
  BY DEF HandsOn, Holds, EnsureLiveWaits, NoCall, sessionVars
<1>2. OneHolder'
  BY <1>1 DEF OInv, OneHolder, HandsOn, EnsureLiveWaits, sessionVars
<1>3. NoParkPending'
  BY DEF OInv, IInv, TypeOK, NoParkPending, HandsOn, EnsureLiveWaits
<1>4. OneRevivalRegistered' /\ NewIsUntouched' /\ RunHolds' /\ RevivalHolds'
      /\ ParkedIsClosed' /\ ParkHolds' /\ KillHolds'
  BY <1>1 DEF OInv, OneRevivalRegistered, NewIsUntouched, RunHolds, RevivalHolds,
     ParkedIsClosed, ParkHolds, KillHolds, Empty, HandsOn, Closed, EnsureLiveWaits,
     sessionVars
<1> QED  BY <1>1, <1>2, <1>3, <1>4 DEF OInv

LEMMA KeepsSessionHolds ==
  ASSUME IInv, OInv, NEW c \in Caller, KeepsSession(c)
  PROVE  OInv'
<1>1. HandsOn
  BY DEF HandsOn, Holds, KeepsSession, sessionVars
<1>2. OneHolder'
  BY <1>1 DEF OInv, OneHolder, HandsOn, KeepsSession, sessionVars
<1>3. NewIsUntouched'
  BY <1>1 DEF OInv, IInv, TypeOK, NewIsUntouched, Empty, HandsOn, KeepsSession
<1>4. RunHolds'
  BY <1>1 DEF OInv, IInv, TypeOK, RunHolds, Empty, HandsOn, KeepsSession
<1>5. NoParkPending'
  BY DEF OInv, IInv, TypeOK, NoParkPending, HandsOn, KeepsSession
<1>6. OneRevivalRegistered' /\ RevivalHolds' /\ ParkedIsClosed' /\ ParkHolds' /\ KillHolds'
  BY <1>1 DEF OInv, OneRevivalRegistered, RevivalHolds, ParkedIsClosed, ParkHolds,
     KillHolds, Empty, HandsOn, Closed, KeepsSession, sessionVars
<1> QED  BY <1>1, <1>2, <1>3, <1>4, <1>5, <1>6 DEF OInv

LEMMA ResolvesAfterParkHolds ==
  ASSUME IInv, OInv, NEW c \in Caller, ResolvesAfterPark(c)
  PROVE  OInv'
<1>1. park.ref = NoRef
  BY DEF ResolvesAfterPark, OInv, NoParkPending
<1> QED  BY <1>1, ResolveHolds DEF ResolvesAfterPark

LEMMA CallerReturnsHolds ==
  ASSUME IInv, OInv, NEW c \in Caller, CallerReturns(c)
  PROVE  OInv'
<1>1. HandsOn
  BY DEF HandsOn, Holds, CallerReturns, NoCall, sessionVars
<1>2. OneHolder'
  BY <1>1 DEF OInv, OneHolder, HandsOn, CallerReturns, sessionVars
<1>3. NoParkPending'
  BY DEF OInv, IInv, TypeOK, NoParkPending, HandsOn, CallerReturns, NoCall
<1>4. OneRevivalRegistered' /\ NewIsUntouched' /\ RunHolds' /\ RevivalHolds'
      /\ ParkedIsClosed' /\ ParkHolds' /\ KillHolds'
  BY <1>1 DEF OInv, OneRevivalRegistered, NewIsUntouched, RunHolds, RevivalHolds,
     ParkedIsClosed, ParkHolds, KillHolds, Empty, HandsOn, Closed, CallerReturns,
     sessionVars
<1> QED  BY <1>1, <1>2, <1>3, <1>4 DEF OInv

LEMMA FactoryDeclinesHolds ==
  ASSUME IInv, OInv, NEW r \in Ref, FactoryDeclines(r)
  PROVE  OInv'
<1>1. HandsOn
  BY DEF OInv, IInv, TypeOK, HandsOn, Holds, FactoryDeclines, Settle, NoRevival,
     sessionVars
<1>2. OneRevivalRegistered'
  BY DEF OInv, IInv, TypeOK, OneRevivalRegistered, HandsOn, FactoryDeclines, Settle,
     Dequeued, NoRevival
<1>3. OneHolder'
  BY <1>1 DEF OInv, OneHolder, HandsOn, FactoryDeclines, sessionVars
<1>4. NewIsUntouched'
  BY <1>1 DEF OInv, IInv, TypeOK, NewIsUntouched, Empty, HandsOn, FactoryDeclines, Settle
<1>5. RunHolds'
  BY <1>1 DEF OInv, IInv, TypeOK, RunHolds, Empty, HandsOn, FactoryDeclines, Settle
<1>6. RevivalHolds'
  BY <1>1 DEF OInv, IInv, TypeOK, RevivalHolds, Empty, HandsOn, FactoryDeclines, Settle
<1>7. ParkedIsClosed'
  BY DEF OInv, IInv, TypeOK, RevivalHolds, ParkedIsClosed, Empty, HandsOn, Closed,
     FactoryDeclines, Settle, sessionVars, Holds
<1>8. NoParkPending'
  BY DEF OInv, IInv, TypeOK, NoParkPending, HandsOn, FactoryDeclines, Settle, Tell, NoCall
<1>9. ParkHolds' /\ KillHolds'
  BY DEF OInv, ParkHolds, KillHolds, HandsOn, FactoryDeclines, sessionVars
<1> QED  BY <1>1, <1>2, <1>3, <1>4, <1>5, <1>6, <1>7, <1>8, <1>9 DEF OInv

LEMMA FactoryResolvesHolds ==
  ASSUME IInv, OInv, NEW r \in Ref, FactoryResolves(r)
  PROVE  OInv'
<1>0. /\ revival \in [Ref -> Revival] /\ reg \in OptRef
      /\ OneRevivalRegistered /\ OneHolder /\ NewIsUntouched /\ RunHolds /\ RevivalHolds
      /\ ParkedIsClosed /\ ParkHolds /\ KillHolds /\ NoParkPending
  BY DEF IInv, OInv, TypeOK
<1>1. /\ revival'[r].pc = "none" \/ (revival'[r].pc = "build" /\ revival'[r].ses = revival[r].ses
                                     /\ UNCHANGED <<inflight, caller>>)
      /\ \A q \in Ref : q # r => revival'[q] = revival[q]
      /\ revival[r].pc = "factory" /\ adopted'.ref = r
      /\ UNCHANGED <<reg, status, sess, sessionVars, park, release, run>>
  BY <1>0 DEF FactoryResolves, Settle, NoRevival, Revival
<1>2. HandsOn
  BY <1>0, <1>1 DEF HandsOn, Holds, sessionVars
<1>3. OneHolder' /\ \A q \in Ref : Empty(q) => Empty(q)'
  BY <1>1, <1>2, HandsOnKeeps DEF sessionVars
<1>4. OneRevivalRegistered'
  BY <1>0, <1>1 DEF OneRevivalRegistered, FactoryResolves, Settle, Dequeued, OptRef
<1>5. NewIsUntouched' /\ RunHolds' /\ RevivalHolds'
  <2>1. NewIsUntouched'
    BY <1>0, <1>1, <1>3 DEF NewIsUntouched
  <2>2. RunHolds'
    BY <1>0, <1>1, <1>3 DEF RunHolds
  <2>3. RevivalHolds'
    BY <1>0, <1>1, <1>3 DEF RevivalHolds
  <2> QED  BY <2>1, <2>2, <2>3
<1>6. ParkedIsClosed'
  <2>1. Closed(r)  BY <1>0, <1>1, EmptyIsClosed DEF RevivalHolds
  <2> QED  BY <1>0, <1>1, <2>1 DEF ParkedIsClosed, Closed, sessionVars
<1>7. ParkHolds' /\ KillHolds'
  BY <1>0, <1>1 DEF ParkHolds, KillHolds, sessionVars
<1>8. NoParkPending'
  BY <1>0, <1>1, NilTypes DEF NoParkPending, FactoryResolves, Settle, Tell, NoCall
<1> QED  BY <1>3, <1>4, <1>5, <1>6, <1>7, <1>8 DEF OInv

LEMMA ReviverOpensHolds ==
  ASSUME IInv, OInv, NEW r \in Ref, NEW s \in Session, ReviverOpens(r, s)
  PROVE  OInv'
<1>0. /\ \A q \in Ref : ~Holds(q, s)
      /\ Empty(r) /\ revival[r].pc = "build" /\ status[r] # "none" /\ park.ref # r /\ sess[r] # s
      /\ sess \in [Ref -> OptSession] /\ run \in [Ref -> Run] /\ adopted \in Adoption
      /\ status \in [Ref -> Status] /\ life \in [Session -> Life] /\ owner \in [Session -> OptRef]
      /\ revival \in [Ref -> Revival] /\ reg \in OptRef /\ park.ref \in OptRef /\ ReleaseBound
      /\ OneRevivalRegistered /\ OneHolder /\ NewIsUntouched /\ RunHolds /\ RevivalHolds
      /\ ParkedIsClosed /\ ParkHolds /\ KillHolds /\ NoParkPending
  <2>1. revival[r].pc = "build" /\ Fresh(s)  BY DEF ReviverOpens
  <2> QED  BY <2>1, FreshIsFree DEF IInv, OInv, TypeOK, RevivalHolds, NewIsUntouched, Fresh, Park
<1>1. /\ revival'[r].pc = "opened" /\ revival'[r].ses = s
      /\ \A q \in Ref : q # r => revival'[q] = revival[q]
      /\ owner'[s] = r /\ \A t \in Session \ {s} : owner'[t] = owner[t] /\ life'[t] = life[t]
      /\ hooked' = hooked \ {s}
      /\ UNCHANGED <<reg, status, sess, adopted, park, inflight, caller, release, run>>
  BY <1>0 DEF ReviverOpens, Revival
<1>2. \A q \in Ref, t \in Session : Holds(q, t)' => Holds(q, t) \/ (q = r /\ t = s)
  BY <1>0, <1>1, NilAssumption DEF Holds
<1>3. OneHolder' /\ \A q \in Ref \ {r} : Empty(q) => Empty(q)'
  BY <1>0, <1>1, <1>2 DEF OneHolder, Empty
<1>4. OneRevivalRegistered'
  BY <1>0, <1>1 DEF OneRevivalRegistered, OptRef
<1>5. NewIsUntouched' /\ RunHolds' /\ RevivalHolds'
  BY <1>0, <1>1, <1>3 DEF NewIsUntouched, RunHolds, RevivalHolds
<1>6. ParkedIsClosed'
  BY <1>0, <1>1 DEF ParkedIsClosed, Closed
<1>7. ParkHolds'
  <2>1. \A q \in Ref : sess[q] # s  BY <1>0 DEF Holds
  <2> QED  BY <1>0, <1>1, <2>1 DEF ParkHolds
<1>8. KillHolds' /\ NoParkPending'
  BY <1>0, <1>1 DEF KillHolds, NoParkPending
<1> QED  BY <1>3, <1>4, <1>5, <1>6, <1>7, <1>8 DEF OInv

LEMMA ReviverClaimsHolds ==
  ASSUME IInv, OInv, NEW r \in Ref, ReviverClaims(r)
  PROVE  OInv'
<1>1. HandsOn
  BY DEF OInv, IInv, TypeOK, HandsOn, Holds, ReviverClaims, sessionVars
<1>2. OneRevivalRegistered'
  BY DEF OInv, IInv, TypeOK, OneRevivalRegistered, HandsOn, ReviverClaims
<1>3. OneHolder'
  BY <1>1 DEF OInv, OneHolder, HandsOn, ReviverClaims, sessionVars
<1>4. NewIsUntouched'
  BY <1>1 DEF OInv, IInv, TypeOK, NewIsUntouched, Empty, HandsOn, ReviverClaims
<1>5. RunHolds'
  BY <1>1 DEF OInv, IInv, TypeOK, RunHolds, Empty, HandsOn, ReviverClaims
<1>6. RevivalHolds'
  BY <1>1 DEF OInv, IInv, TypeOK, RevivalHolds, Empty, HandsOn, ReviverClaims
<1>7. ParkedIsClosed'
  BY DEF OInv, IInv, TypeOK, ParkedIsClosed, HandsOn, Closed, ReviverClaims, sessionVars
<1>8. ParkHolds' /\ KillHolds' /\ NoParkPending'
  BY DEF OInv, ParkHolds, KillHolds, NoParkPending, HandsOn, ReviverClaims, sessionVars
<1> QED  BY <1>1, <1>2, <1>3, <1>4, <1>5, <1>6, <1>7, <1>8 DEF OInv

LEMMA ReviverFailsHolds ==
  ASSUME IInv, OInv, NEW r \in Ref, ReviverFails(r)
  PROVE  OInv'
<1>1. HandsOn
  BY DEF OInv, IInv, TypeOK, HandsOn, Holds, OneHolder, ReviverFails, Settle, NoRevival
<1>2. OneRevivalRegistered'
  BY DEF OInv, IInv, TypeOK, OneRevivalRegistered, HandsOn, ReviverFails, Settle, Dequeued,
     NoRevival
<1>3. OneHolder'
  BY <1>1 DEF OInv, OneHolder, HandsOn, ReviverFails
<1>4. NewIsUntouched'
  BY NilAssumption, <1>1 DEF OInv, IInv, TypeOK, NewIsUntouched, Empty, HandsOn,
     ReviverFails, DropCold, NotAdopted, Settle
<1>5. RunHolds'
  BY NilAssumption, <1>1 DEF OInv, IInv, TypeOK, RunHolds, Empty, HandsOn, ReviverFails,
     DropCold, NotAdopted, Settle
<1>6. RevivalHolds'
  BY <1>1 DEF OInv, IInv, TypeOK, RevivalHolds, Empty, HandsOn, ReviverFails, Settle,
     NoRevival
<1>7. ParkedIsClosed'
  BY DEF OInv, IInv, TypeOK, OneHolder, RevivalHolds, ParkedIsClosed, RevivalBound, Empty,
     HandsOn, Closed, Open, ReviverFails, Settle, Holds
<1>8. NoParkPending'
  BY DEF OInv, IInv, TypeOK, NoParkPending, HandsOn, ReviverFails, Settle, Tell, NoCall
<1>9. ParkHolds' /\ KillHolds'
  BY DEF OInv, ParkHolds, KillHolds, HandsOn, ReviverFails
<1> QED  BY <1>1, <1>2, <1>3, <1>4, <1>5, <1>6, <1>7, <1>8, <1>9 DEF OInv

LEMMA ReviverAttachesHolds ==
  ASSUME IInv, OInv, NEW r \in Ref, ReviverAttaches(r)
  PROVE  OInv'
<1> DEFINE s == revival[r].ses
<1>0. /\ revival \in [Ref -> Revival] /\ reg \in OptRef /\ adopted \in Adoption
      /\ sess \in [Ref -> OptSession] /\ status \in [Ref -> Status] /\ life \in [Session -> Life]
      /\ park.ref \in OptRef /\ RevivalBound /\ ReleaseBound
      /\ OneRevivalRegistered /\ OneHolder /\ NewIsUntouched /\ RunHolds /\ RevivalHolds
      /\ ParkedIsClosed /\ ParkHolds /\ KillHolds /\ NoParkPending
  BY DEF IInv, OInv, TypeOK, Park
<1>1. /\ revival[r].pc = "claimed" /\ s \in Session /\ sess[r] = NoSession /\ park.ref # r
      /\ Holds(r, s) /\ owner[s] = r
  BY <1>0 DEF ReviverAttaches, RevivalBound, RevivalHolds, OneHolder, Holds
<1>2. /\ revival'[r].pc \in {"attached", "disposing"} /\ revival'[r].ses = s
      /\ revival'[r].pc = "attached" => status'[r] = "running"
      /\ \A q \in Ref : q # r => revival'[q] = revival[q] /\ status'[q] = status[q] /\ sess'[q] = sess[q]
      /\ sess'[r] \in {sess[r], s} /\ (sess'[r] = s => s \in hooked') /\ hooked \subseteq hooked'
      /\ status'[r] \in {status[r], "running"} /\ (status[r] = "aborted" => status'[r] = "aborted")
      /\ \A t \in Session : t # s => life'[t] = life[t]
      /\ adopted'.ref = adopted.ref
      /\ UNCHANGED <<reg, owner, park, inflight, caller, release, run>>
  BY <1>0, <1>1, NilAssumption
     DEF ReviverAttaches, Attachable, SetStatus, OnStatus, Disposing, Adoption, Revival
<1> HIDE DEF s
<1>3. HandsOn
  BY <1>0, <1>1, <1>2, NilAssumption DEF HandsOn, Holds
<1>4. OneHolder' /\ \A q \in Ref : Empty(q) => Empty(q)'
  BY <1>2, <1>3, HandsOnKeeps
<1>5. OneRevivalRegistered'
  BY <1>0, <1>1, <1>2 DEF OneRevivalRegistered, OptRef
<1>6. NewIsUntouched' /\ RunHolds' /\ RevivalHolds'
  BY <1>0, <1>1, <1>2, <1>4 DEF NewIsUntouched, RunHolds, RevivalHolds
<1>7. ParkedIsClosed'
  BY <1>0, <1>1, <1>2 DEF ParkedIsClosed, Closed
<1>8. ParkHolds'
  BY <1>0, <1>1, <1>2 DEF ParkHolds, OptRef
<1>9. KillHolds' /\ NoParkPending'
  BY <1>0, <1>2 DEF KillHolds, NoParkPending, ReleaseBound
<1> QED  BY <1>4, <1>5, <1>6, <1>7, <1>8, <1>9 DEF OInv

LEMMA ReviverFailsLateHolds ==
  ASSUME IInv, OInv, NEW r \in Ref, ReviverFailsLate(r)
  PROVE  OInv'
<1>1. HandsOn
  BY DEF OInv, IInv, TypeOK, HandsOn, Holds, OneHolder, ReviverFailsLate, Disposing
<1>2. OneRevivalRegistered'
  BY DEF OInv, IInv, TypeOK, OneRevivalRegistered, HandsOn, ReviverFailsLate
<1>3. OneHolder'
  BY <1>1 DEF OInv, OneHolder, HandsOn, ReviverFailsLate
<1>4. NewIsUntouched'
  BY <1>1 DEF OInv, IInv, TypeOK, NewIsUntouched, Empty, HandsOn, ReviverFailsLate
<1>5. RunHolds'
  BY <1>1 DEF OInv, IInv, TypeOK, RunHolds, Empty, HandsOn, ReviverFailsLate
<1>6. RevivalHolds'
  BY <1>1 DEF OInv, IInv, TypeOK, RevivalHolds, Empty, HandsOn, ReviverFailsLate
<1>7. ParkedIsClosed'
  BY DEF OInv, IInv, TypeOK, OneHolder, ParkedIsClosed, HandsOn, Closed, ReviverFailsLate,
     Disposing, Holds
<1>8. ParkHolds' /\ KillHolds' /\ NoParkPending'
  BY DEF OInv, ParkHolds, KillHolds, NoParkPending, HandsOn, ReviverFailsLate
<1> QED  BY <1>1, <1>2, <1>3, <1>4, <1>5, <1>6, <1>7, <1>8 DEF OInv

LEMMA ReviverThrowsHolds ==
  ASSUME IInv, OInv, NEW r \in Ref, ReviverThrows(r)
  PROVE  OInv'
<1>1. HandsOn
  BY DEF OInv, IInv, TypeOK, HandsOn, Holds, ReviverThrows, Settle, NoRevival, sessionVars
<1>2. OneRevivalRegistered'
  BY DEF OInv, IInv, TypeOK, OneRevivalRegistered, HandsOn, ReviverThrows, Settle,
     Dequeued, NoRevival
<1>3. OneHolder'
  BY <1>1 DEF OInv, OneHolder, HandsOn, ReviverThrows, sessionVars
<1>4. NewIsUntouched'
  BY NilAssumption, <1>1 DEF OInv, IInv, TypeOK, NewIsUntouched, Empty, HandsOn,
     ReviverThrows, DropCold, NotAdopted, Settle
<1>5. RunHolds'
  BY NilAssumption, <1>1 DEF OInv, IInv, TypeOK, RunHolds, Empty, HandsOn, ReviverThrows,
     DropCold, NotAdopted, Settle
<1>6. RevivalHolds'
  BY <1>1 DEF OInv, IInv, TypeOK, RevivalHolds, Empty, HandsOn, ReviverThrows, Settle,
     NoRevival
<1>7. ParkedIsClosed'
  BY DEF OInv, IInv, TypeOK, ParkedIsClosed, HandsOn, Closed, ReviverThrows, Settle,
     sessionVars
<1>8. NoParkPending'
  BY DEF OInv, IInv, TypeOK, NoParkPending, HandsOn, ReviverThrows, Settle, Tell, NoCall
<1>9. ParkHolds' /\ KillHolds'
  BY DEF OInv, ParkHolds, KillHolds, HandsOn, ReviverThrows, sessionVars
<1> QED  BY <1>1, <1>2, <1>3, <1>4, <1>5, <1>6, <1>7, <1>8, <1>9 DEF OInv

LEMMA RevivalEndsHolds ==
  ASSUME IInv, OInv, NEW r \in Ref, RevivalEnds(r)
  PROVE  OInv'
<1> DEFINE s == revival[r].ses
<1>0. /\ revival \in [Ref -> Revival] /\ reg \in OptRef /\ adopted \in Adoption
      /\ status \in [Ref -> Status] /\ life \in [Session -> Life]
      /\ park.ref \in OptRef /\ RevivalBound /\ ReleaseBound
      /\ OneRevivalRegistered /\ OneHolder /\ NewIsUntouched /\ RunHolds /\ RevivalHolds
      /\ ParkedIsClosed /\ ParkHolds /\ KillHolds /\ NoParkPending
  BY DEF IInv, OInv, TypeOK, Park
<1>1. /\ revival[r].pc = "attached" /\ s \in Session
      /\ Holds(r, s) /\ owner[s] = r
  BY <1>0 DEF RevivalEnds, RevivalBound, OneHolder, Holds
<1>2. /\ \/ /\ revival'[r].pc = "none" /\ status'[r] = "idle" /\ status[r] = "running"
            /\ life' = life
         \/ /\ revival'[r].pc = "disposing" /\ revival'[r].ses = s /\ status' = status
            /\ UNCHANGED <<inflight, caller>>
            /\ \A t \in Session : t # s => life'[t] = life[t]
      /\ \A q \in Ref : q # r => revival'[q] = revival[q] /\ status'[q] = status[q]
      /\ adopted'.ref = adopted.ref
      /\ UNCHANGED <<reg, sess, owner, hooked, park, release, run>>
  BY <1>0, <1>1, NilAssumption
     DEF RevivalEnds, SetStatus, OnStatus, Settle, NoRevival, Disposing, Adoption, Revival
<1>3. OneRevivalRegistered'
  BY <1>0, <1>1, <1>2 DEF OneRevivalRegistered, OptRef, RevivalEnds, Settle, Dequeued
<1>4. NoParkPending'
  <2>1. \A c \in Caller : caller'[c] = caller[c] \/ caller'[c].pc = "got"
    <3>1. Got(s).pc = "got"  BY DEF Got, NoCall
    <3>2. CASE Settle(r, Got(s))
      BY <3>1, <3>2 DEF Settle, Tell
    <3>3. CASE UNCHANGED caller
      BY <3>3
    <3> QED  BY <3>2, <3>3 DEF RevivalEnds
  <2> QED  BY <1>0, <1>2, <2>1 DEF NoParkPending
<1> HIDE DEF s
<1>5. HandsOn
  BY <1>0, <1>1, <1>2, NilAssumption DEF HandsOn, Holds
<1>6. OneHolder' /\ \A q \in Ref : Empty(q) => Empty(q)'
  BY <1>2, <1>5, HandsOnKeeps
<1>7. NewIsUntouched' /\ RunHolds' /\ RevivalHolds'
  BY <1>0, <1>1, <1>2, <1>6 DEF NewIsUntouched, RunHolds, RevivalHolds
<1>8. ParkedIsClosed'
  BY <1>0, <1>1, <1>2 DEF ParkedIsClosed, Closed
<1>9. ParkHolds' /\ KillHolds'
  BY <1>0, <1>2 DEF ParkHolds, KillHolds, ReleaseBound
<1> QED  BY <1>3, <1>4, <1>6, <1>7, <1>8, <1>9 DEF OInv

LEMMA RevivalRejectsHolds ==
  ASSUME IInv, OInv, NEW r \in Ref, RevivalRejects(r)
  PROVE  OInv'
<1>1. HandsOn
  BY DEF OInv, IInv, TypeOK, HandsOn, Holds, RevivalRejects, Settle, NoRevival, sessionVars
<1>2. OneRevivalRegistered'
  BY DEF OInv, IInv, TypeOK, OneRevivalRegistered, HandsOn, RevivalRejects, Settle,
     Dequeued, NoRevival
<1>3. OneHolder'
  BY <1>1 DEF OInv, OneHolder, HandsOn, RevivalRejects, sessionVars
<1>4. NewIsUntouched'
  BY NilAssumption, <1>1 DEF OInv, IInv, TypeOK, NewIsUntouched, Empty, HandsOn,
     RevivalRejects, DropCold, NotAdopted, Settle
<1>5. RunHolds'
  BY NilAssumption, <1>1 DEF OInv, IInv, TypeOK, RunHolds, Empty, HandsOn, RevivalRejects,
     DropCold, NotAdopted, Settle
<1>6. RevivalHolds'
  BY <1>1 DEF OInv, IInv, TypeOK, RevivalHolds, Empty, HandsOn, RevivalRejects, Settle,
     NoRevival
<1>7. ParkedIsClosed'
  BY DEF OInv, IInv, TypeOK, OneHolder, ParkedIsClosed, HandsOn, Closed, Settled, Open,
     OptSession, RevivalRejects, Settle, sessionVars, Revival, Holds
<1>8. NoParkPending'
  BY DEF OInv, IInv, TypeOK, NoParkPending, HandsOn, RevivalRejects, Settle, Tell, NoCall
<1>9. ParkHolds' /\ KillHolds'
  BY DEF OInv, ParkHolds, KillHolds, HandsOn, RevivalRejects, sessionVars
<1> QED  BY <1>1, <1>2, <1>3, <1>4, <1>5, <1>6, <1>7, <1>8, <1>9 DEF OInv

LEMMA BeginReleaseHolds ==
  ASSUME IInv, OInv, NEW x \in Releaser, NEW r \in Ref, NEW tomb \in BOOLEAN,
         BeginRelease(x, r, tomb),
         \A q \in Ref : run'[q] = run[q] \/ run'[q].pc = "done",
         UNCHANGED <<reg, owner, hooked, revival, inflight, caller>>
  PROVE  OInv'
<1>1. adopted' \in {adopted, NotAdopted}
  BY DEF BeginRelease, OnRemoved
<1>2. CASE park.ref # r
  <2> DEFINE owns == adopted.ref = r /\ adopted.owns
  <2>1. UNCHANGED park /\ Capture(x, r, tomb, owns)
    BY <1>2 DEF BeginRelease
  <2> HIDE DEF owns
  <2> QED  BY <1>1, <1>2, <2>1, CaptureHolds
<1>3. CASE park.ref = r
  <2>0. /\ park \in Park /\ release \in [Releaser -> Release]
        /\ OneRevivalRegistered /\ OneHolder /\ NewIsUntouched /\ RunHolds /\ RevivalHolds
        /\ ParkedIsClosed /\ ParkHolds /\ KillHolds /\ NoParkPending
    BY DEF IInv, OInv, TypeOK
  <2>1. /\ park'.ref = park.ref /\ park'.ses = park.ses /\ park'.detached = park.detached
        /\ release'[x].pc = "parkWait"
        /\ \A y \in Releaser : y # x => release'[y] = release[y]
        /\ UNCHANGED <<sess, status, life>>
    BY <1>3, <2>0 DEF BeginRelease, Park
  <2>2. HandsOn
    BY <2>1 DEF HandsOn, Holds
  <2>3. OneHolder' /\ \A q \in Ref : Empty(q) => Empty(q)'
    BY <2>2, HandsOnKeeps
  <2>4. NotAdopted.ref = NoRef
    BY DEF NotAdopted
  <2>5. NewIsUntouched' /\ RunHolds' /\ RevivalHolds'
    BY <1>1, <2>0, <2>1, <2>3, <2>4, NilAssumption DEF NewIsUntouched, RunHolds, RevivalHolds
  <2>6. OneRevivalRegistered' /\ ParkedIsClosed' /\ ParkHolds' /\ KillHolds' /\ NoParkPending'
    BY <2>0, <2>1
       DEF OneRevivalRegistered, ParkedIsClosed, Closed, ParkHolds, KillHolds, NoParkPending
  <2> QED  BY <2>3, <2>5, <2>6 DEF OInv
<1> QED  BY <1>2, <1>3

LEMMA ReleaseCapturesHolds ==
  ASSUME IInv, OInv, NEW x \in Releaser, ReleaseCaptures(x)
  PROVE  OInv'
<1>1. /\ release[x].ref \in Ref /\ release[x].tomb \in BOOLEAN
      /\ park.ref = NoRef /\ NoRef \notin Ref
  BY NilAssumption DEF ReleaseCaptures, IInv, OInv, TypeOK, Release, ReleaseBound, NoParkPending
<1>2. Capture(x, release[x].ref, release[x].tomb, release[x].owns)
  BY DEF ReleaseCaptures
<1>3. park.ref # release[x].ref
  BY <1>1
<1> QED  BY <1>1, <1>2, <1>3, CaptureHolds DEF ReleaseCaptures

LEMMA ReleasePersistedHolds ==
  ASSUME IInv, OInv, NEW x \in Releaser, ReleasePersisted(x)
  PROVE  OInv'
<1>1. HandsOn
  BY DEF OInv, IInv, TypeOK, HandsOn, Holds, OneHolder, ReleaseBound, ReleasePersisted,
     Disposing
<1>2. OneHolder'
  BY <1>1 DEF OInv, OneHolder, HandsOn, ReleasePersisted
<1>3. ParkedIsClosed'
  <2>1. /\ release \in [Releaser -> Release] /\ life \in [Session -> Life]
        /\ OneHolder /\ KillHolds /\ ParkedIsClosed
    BY DEF IInv, OInv, TypeOK
  <2>2. \A s \in Session : life'[s] # life[s] =>
          s = release[x].ses /\ release[x].pc = "persist"
    BY <2>1 DEF ReleasePersisted, Disposing
  <2>3. \A s \in Session : life'[s] # life[s] => status[owner[s]] = "aborted"
    BY <2>1, <2>2, NilAssumption DEF OneHolder, KillHolds, Holds, IInv, ReleaseBound
  <2> QED  BY <2>1, <2>3 DEF ParkedIsClosed, Closed, ReleasePersisted
<1>4. KillHolds'
  BY DEF OInv, IInv, TypeOK, KillHolds, HandsOn, ReleasePersisted
<1>5. NoParkPending'
  BY DEF OInv, IInv, TypeOK, NoParkPending, HandsOn, ReleasePersisted
<1>6. OneRevivalRegistered' /\ NewIsUntouched' /\ RunHolds' /\ RevivalHolds' /\ ParkHolds'
  BY <1>1 DEF OInv, OneRevivalRegistered, NewIsUntouched, RunHolds, RevivalHolds, ParkHolds,
     Empty, HandsOn, ReleasePersisted
<1> QED  BY <1>1, <1>2, <1>3, <1>4, <1>5, <1>6 DEF OInv

LEMMA ReleaseDisposedHolds ==
  ASSUME IInv, OInv, NEW x \in Releaser, ReleaseDisposed(x)
  PROVE  OInv'
<1>1. HandsOn
  BY DEF OInv, IInv, TypeOK, HandsOn, Holds, ReleaseDisposed, sessionVars
<1>2. OneHolder'
  BY <1>1 DEF OInv, OneHolder, HandsOn, ReleaseDisposed, sessionVars
<1>3. KillHolds'
  BY DEF OInv, IInv, TypeOK, KillHolds, HandsOn, ReleaseDisposed
<1>4. NoParkPending'
  BY DEF OInv, IInv, TypeOK, NoParkPending, HandsOn, ReleaseDisposed
<1>5. OneRevivalRegistered' /\ NewIsUntouched' /\ RunHolds' /\ RevivalHolds'
      /\ ParkedIsClosed' /\ ParkHolds'
  BY <1>1 DEF OInv, OneRevivalRegistered, NewIsUntouched, RunHolds, RevivalHolds,
     ParkedIsClosed, ParkHolds, Empty, HandsOn, Closed, ReleaseDisposed, sessionVars
<1> QED  BY <1>1, <1>2, <1>3, <1>4, <1>5 DEF OInv

LEMMA ReleaseEndsHolds ==
  ASSUME IInv, OInv, NEW x \in Releaser, ReleaseEnds(x)
  PROVE  OInv'
<1>1. HandsOn
  BY DEF OInv, IInv, TypeOK, HandsOn, Holds, ReleaseEnds, NoRelease, sessionVars
<1>2. OneRevivalRegistered'
  BY DEF OInv, IInv, TypeOK, OneRevivalRegistered, HandsOn, OptSession, ReleaseEnds,
     Unregister
<1>3. OneHolder'
  BY <1>1 DEF OInv, OneHolder, HandsOn, ReleaseEnds, sessionVars
<1>4. NewIsUntouched'
  BY NilAssumption, <1>1 DEF OInv, IInv, TypeOK, NewIsUntouched, Empty, HandsOn,
     ReleaseEnds, Unregister, OnRemoved, NotAdopted
<1>5. RunHolds'
  BY NilAssumption, <1>1 DEF OInv, IInv, TypeOK, RunHolds, Empty, HandsOn, ReleaseEnds,
     Unregister, OnRemoved, NotAdopted
<1>6. KillHolds'
  BY DEF OInv, IInv, TypeOK, KillHolds, HandsOn, ReleaseEnds, NoRelease
<1>7. NoParkPending'
  BY DEF OInv, IInv, TypeOK, NoParkPending, HandsOn, ReleaseEnds, NoRelease
<1>8. RevivalHolds' /\ ParkedIsClosed' /\ ParkHolds'
  BY <1>1 DEF OInv, RevivalHolds, ParkedIsClosed, ParkHolds, Empty, HandsOn, Closed,
     ReleaseEnds, sessionVars
<1> QED  BY <1>1, <1>2, <1>3, <1>4, <1>5, <1>6, <1>7, <1>8 DEF OInv

LEMMA FinalizeKeptHolds ==
  ASSUME IInv, OInv, NEW r \in Ref, NEW hot \in BOOLEAN, NEW owns \in BOOLEAN, FinalizeKept(r, hot, owns)
  PROVE  OInv'
<1>1. HandsOn
  BY DEF OInv, IInv, TypeOK, HandsOn, Holds, FinalizeKept, sessionVars
<1>2. OneHolder'
  BY <1>1 DEF OInv, OneHolder, HandsOn, FinalizeKept, sessionVars
<1>3. NewIsUntouched'
  BY <1>1 DEF OInv, IInv, TypeOK, NewIsUntouched, Empty, HandsOn, FinalizeKept
<1>4. RunHolds'
  BY NilAssumption DEF OInv, IInv, TypeOK, OneHolder, RunHolds, RunBound, Empty, HandsOn,
     FinalizeKept, OwnsRow, LiveSession, sessionVars, Holds
<1>5. ParkedIsClosed'
  BY DEF OInv, IInv, TypeOK, ParkedIsClosed, HandsOn, Closed, FinalizeKept, sessionVars
<1>6. KillHolds'
  BY NilAssumption DEF OInv, IInv, TypeOK, KillHolds, DetachedWhenStopped, RunBound,
     HandsOn, FinalizeKept, OwnsRow, LiveSession
<1>7. OneRevivalRegistered' /\ RevivalHolds' /\ ParkHolds' /\ NoParkPending'
  BY <1>1 DEF OInv, OneRevivalRegistered, RevivalHolds, ParkHolds, NoParkPending, Empty,
     HandsOn, FinalizeKept, sessionVars
<1> QED  BY <1>1, <1>2, <1>3, <1>4, <1>5, <1>6, <1>7 DEF OInv

LEMMA FinalizeDisposesHolds ==
  ASSUME IInv, OInv, NEW r \in Ref, FinalizeDisposes(r)
  PROVE  OInv'
<1>1. HandsOn
  BY DEF OInv, IInv, TypeOK, HandsOn, Holds, OneHolder, FinalizeDisposes, Disposing
<1>2. OneHolder'
  BY <1>1 DEF OInv, OneHolder, HandsOn, FinalizeDisposes
<1>3. RunHolds'
  BY <1>1 DEF OInv, IInv, TypeOK, RunHolds, Empty, HandsOn, FinalizeDisposes
<1>4. ParkedIsClosed'
  BY DEF OInv, IInv, TypeOK, OneHolder, RunHolds, ParkedIsClosed, HandsOn, Closed,
     FinalizeDisposes, Disposing, Holds
<1>5. OneRevivalRegistered' /\ NewIsUntouched' /\ RevivalHolds' /\ ParkHolds' /\ KillHolds'
      /\ NoParkPending'
  BY <1>1 DEF OInv, OneRevivalRegistered, NewIsUntouched, RevivalHolds, ParkHolds,
     KillHolds, NoParkPending, Empty, HandsOn, FinalizeDisposes
<1> QED  BY <1>1, <1>2, <1>3, <1>4, <1>5 DEF OInv

LEMMA FinalizeUnregistersHolds ==
  ASSUME IInv, OInv, NEW r \in Ref, FinalizeUnregisters(r)
  PROVE  OInv'
<1>1. HandsOn
  BY DEF OInv, IInv, TypeOK, HandsOn, Holds, FinalizeUnregisters, sessionVars
<1>2. OneRevivalRegistered'
  BY DEF OInv, IInv, TypeOK, OneRevivalRegistered, HandsOn, OptSession,
     FinalizeUnregisters, Unregister
<1>3. OneHolder'
  BY <1>1 DEF OInv, OneHolder, HandsOn, FinalizeUnregisters, sessionVars
<1>4. NewIsUntouched'
  BY NilAssumption, <1>1 DEF OInv, IInv, TypeOK, NewIsUntouched, Empty, HandsOn,
     FinalizeUnregisters, Unregister, OnRemoved, NotAdopted
<1>5. RunHolds'
  BY NilAssumption, <1>1 DEF OInv, IInv, TypeOK, RunHolds, Empty, HandsOn,
     FinalizeUnregisters, Unregister, OnRemoved, NotAdopted
<1>6. RevivalHolds' /\ ParkedIsClosed' /\ ParkHolds' /\ KillHolds' /\ NoParkPending'
  BY <1>1 DEF OInv, RevivalHolds, ParkedIsClosed, ParkHolds, KillHolds, NoParkPending,
     Empty, HandsOn, Closed, FinalizeUnregisters, sessionVars
<1> QED  BY <1>1, <1>2, <1>3, <1>4, <1>5, <1>6 DEF OInv

\* A spawn, its run, and what finalizes it keep the ownership.
LEMMA SpawnOwns == ASSUME IInv, OInv, NEW r \in Ref, SpawnStep(r)  PROVE OInv'
BY RestoreRegistersHolds, RestoreReplacesHolds, SpawnClaimsHolds, SpawnProbesHolds,
   SpawnReclaimsHolds, SpawnRefusedHolds, SpawnFailsHolds, SpawnAttachesHolds, RunStartsHolds,
   SpawnFailsLateHolds, ResultAcceptedHolds DEF SpawnStep

LEMMA FinalizeOwns == ASSUME IInv, OInv, NEW r \in Ref, FinalizeStep(r)  PROVE OInv'
<1>1. ASSUME NEW x \in Releaser, NEW tomb \in BOOLEAN, FinalizeAborted(r, x, tomb)  PROVE OInv'
  <2>1. reg \in Ref
    BY <1>1, NilAssumption
       DEF FinalizeAborted, OwnsRow, LiveSession, IInv, TypeOK, OptRef, RunBound
  <2>2. \A q \in Ref : run'[q] = run[q] \/ run'[q].pc = "done"
    BY <1>1 DEF FinalizeAborted, NoRun, IInv, TypeOK
  <2>3. BeginRelease(x, reg, tomb) /\ UNCHANGED <<reg, owner, hooked, revival, inflight, caller>>
    BY <1>1 DEF FinalizeAborted
  <2> QED  BY <2>1, <2>2, <2>3, BeginReleaseHolds
<1> QED  BY <1>1, FinalizeKeptHolds, FinalizeDisposesHolds, FinalizeUnregistersHolds
         DEF FinalizeStep

LEMMA ReleaseOwns == ASSUME IInv, OInv, NEW x \in Releaser, ReleaseStep(x)  PROVE OInv'
<1>1. ASSUME NEW tomb \in BOOLEAN, Releases(x, tomb)  PROVE OInv'
  <2> DEFINE r == IF reg # NoRef THEN reg ELSE adopted.ref
  <2>1. r \in Ref
    BY <1>1 DEF Releases, IInv, TypeOK, Adoption, OptRef
  <2>2. /\ BeginRelease(x, r, tomb) /\ run' = run
        /\ UNCHANGED <<reg, owner, hooked, revival, inflight, caller>>
    BY <1>1 DEF Releases
  <2> HIDE DEF r
  <2> QED  BY <2>1, <2>2, BeginReleaseHolds
<1> QED  BY <1>1, ReleaseCapturesHolds, ReleasePersistedHolds, ReleaseDisposedHolds, ReleaseEndsHolds
         DEF ReleaseStep

\* Every step of the agents of an id keeps who holds what.
LEMMA OwnershipStep ==
  ASSUME IInv, OInv, [Next]_vars
  PROVE  OInv'
<1>1. ASSUME NEW r \in Ref, RevivalStep(r)  PROVE OInv'
  BY <1>1, FactoryDeclinesHolds, FactoryResolvesHolds, ReviverOpensHolds, ReviverClaimsHolds,
     ReviverFailsHolds, ReviverAttachesHolds, ReviverFailsLateHolds, ReviverThrowsHolds,
     RevivalEndsHolds, RevivalRejectsHolds DEF RevivalStep
<1>2. ASSUME NEW s \in Session, SessionStep(s)  PROVE OInv'
  BY <1>2, TurnStartsHolds, TurnEndsHolds, DisposeSettlesHolds DEF SessionStep
<1>3. CASE TimerParks \/ ParkStep
  BY <1>3, TimerParksHolds, ParkGivesUpHolds, ParkCommitsHolds, ParkEndsHolds DEF ParkStep
<1>4. ASSUME NEW c \in Caller, CallerStep(c)  PROVE OInv'
  BY <1>4, EnsureLiveHolds, EnsureLiveCancelsParkHolds, EnsureLiveWaitsHolds, KeepsSessionHolds,
     ResolvesAfterParkHolds, CallerReturnsHolds DEF CallerStep
<1>5. CASE UNCHANGED vars
  <2>1. HandsOn /\ owner' = owner  BY <1>5 DEF HandsOn, Holds, vars
  <2>2. OneHolder' /\ \A q \in Ref : Empty(q) => Empty(q)'  BY <2>1, HandsOnKeeps
  <2> QED  BY <1>5, <2>2
           DEF vars, OInv, OneRevivalRegistered, NewIsUntouched, RunHolds, RevivalHolds,
               ParkedIsClosed, Closed, ParkHolds, KillHolds, NoParkPending
<1> QED  BY <1>1, <1>2, <1>3, <1>4, <1>5, SpawnOwns, FinalizeOwns, ReleaseOwns DEF Next

LEMMA OwnershipInit == Init => OInv
<1> SUFFICES ASSUME Init  PROVE OInv
  OBVIOUS
<1>1. \A r \in Ref, s \in Session : ~Holds(r, s)
  BY NilAssumption DEF Init, Holds, Open, NoRevival, NoRun, NotParking, NoRelease
<1> QED  BY <1>1, NilAssumption
         DEF Init, OInv, OneRevivalRegistered, OneHolder, NewIsUntouched, RunHolds,
             RevivalHolds,
             ParkedIsClosed, Closed, ParkHolds, KillHolds, NoParkPending, Empty, NoRevival, NoRun,
             NotParking, NoRelease, NotAdopted, NoCall, Open

\* Whatever parks, revivals, kills and runs of an id overlap, all that have a session have
\* it for the same ref, and a ref has one at most.
THEOREM OwnershipInvariant == Spec => []OInv
<1>1. IInv /\ OInv /\ [Next]_vars => OInv'
  BY OwnershipStep
<1> QED  BY <1>1, OwnershipInit, InductiveInvariant, PTL DEF Spec

\* Concurrent ensureLive calls share one revival: a registered ref has at most the one that
\* #revivals remembers.
THEOREM RevivalsCoalesce == Spec => []OneRevivalRegistered
<1>1. OInv => OneRevivalRegistered
  BY DEF OInv
<1> QED  BY <1>1, OwnershipInvariant, PTL

-----------------------------------------------------------------------------
(* One writer per transcript.                                              *)

\* A run that finalizes looks at the row of its id: it holds the run's session only if it
\* is the row of the run's own ref.
LEMMA OwnedRowIsItsOwn ==
  ASSUME IInv, OInv, NEW r \in Ref, run[r].pc = "running", OwnsRow(r)
  PROVE  reg = r /\ sess[r] = run[r].ses /\ run[r].ses \in Session
<1>1. run[r].ses \in Session /\ reg \in OptRef
  BY DEF IInv, TypeOK, RunBound
<1>2. reg \in Ref /\ sess[reg] = run[r].ses
  BY <1>1, NilAssumption DEF OwnsRow, LiveSession, OptRef
<1>3. Holds(r, run[r].ses) /\ Holds(reg, run[r].ses)
  BY <1>2 DEF Holds
<1> QED  BY <1>1, <1>2, <1>3 DEF OInv, OneHolder

\* A session that has its transcript open belongs to an agent.
OpenIsOwned == \A s \in Session : life[s] \in Open => owner[s] \in Ref

\* What a session's life may turn to in a step: it stays open only where it was open
\* before with the same owner, and is opened or captured only for an agent.
LEMMA OpenIsOwnedStep ==
  ASSUME IInv, OInv, OpenIsOwned, [Next]_vars
  PROVE  OpenIsOwned'
<1>0. /\ life \in [Session -> Life] /\ owner \in [Session -> OptRef]
      /\ sess \in [Ref -> OptSession] /\ reg \in OptRef /\ release \in [Releaser -> Release]
      /\ OneHolder /\ RunBound /\ RevivalBound /\ ParkBound /\ ReleaseBound
  BY DEF IInv, OInv, TypeOK
<1>1. SUFFICES ASSUME NEW s \in Session
               PROVE  life'[s] \in Open => owner'[s] \in Ref
  BY DEF OpenIsOwned
<1>2. (life'[s] \in Open => life[s] \in Open) /\ owner'[s] = owner[s] => (life'[s] \in Open => owner'[s] \in Ref)
  BY DEF OpenIsOwned
<1>3. \A q \in Ref : Holds(q, s) => owner[s] \in Ref
  BY <1>0 DEF OneHolder
<1>4. ASSUME NEW r \in Ref, SpawnStep(r) \/ FinalizeStep(r)
      PROVE  life'[s] \in Open => owner'[s] \in Ref
  <2>1. ASSUME NEW t \in Session, SpawnAttaches(r, t)  PROVE life'[s] \in Open => owner'[s] \in Ref
    BY <1>0, <1>2, <2>1 DEF SpawnAttaches
  <2>2. CASE SpawnFailsLate(r) \/ FinalizeDisposes(r)
    <3>1. Holds(r, run[r].ses)
      BY <2>2 DEF SpawnFailsLate, FinalizeDisposes, Holds
    <3> QED  BY <1>0, <1>2, <1>3, <2>2, <3>1 DEF SpawnFailsLate, FinalizeDisposes, Disposing
  <2>3. ASSUME NEW x \in Releaser, NEW tomb \in BOOLEAN, FinalizeAborted(r, x, tomb)
        PROVE  life'[s] \in Open => owner'[s] \in Ref
    <3>1. owner' = owner /\ \A t \in Session : life'[t] = life[t] \/ (reg \in Ref /\ t = sess[reg])
      BY <1>0, <2>3, OwnedRowIsItsOwn DEF FinalizeAborted, BeginRelease, Capture, Disposing
    <3> QED  BY <1>0, <1>2, <1>3, <3>1 DEF Holds
  <2>4. CASE UNCHANGED <<life, owner>>
    BY <1>2, <2>4
  <2> QED
    BY <1>4, <2>1, <2>2, <2>3, <2>4
       DEF SpawnStep, FinalizeStep, RestoreRegisters, RestoreReplaces, SpawnClaims, SpawnProbes,
           SpawnReclaims, SpawnRefused, SpawnFails, RunStarts, ResultAccepted, FinalizeKept,
           FinalizeUnregisters, sessionVars
<1>5. ASSUME NEW r \in Ref, RevivalStep(r)
      PROVE  life'[s] \in Open => owner'[s] \in Ref
  <2>1. ASSUME NEW t \in Session, ReviverOpens(r, t)  PROVE life'[s] \in Open => owner'[s] \in Ref
    BY <1>0, <1>2, <2>1 DEF ReviverOpens
  <2>2. CASE ReviverFails(r)
    BY <1>0, <1>2, <2>2 DEF ReviverFails, Open
  <2>3. CASE ReviverAttaches(r) \/ ReviverFailsLate(r) \/ RevivalEnds(r)
    <3>1. Holds(r, revival[r].ses)
      BY <2>3 DEF ReviverAttaches, ReviverFailsLate, RevivalEnds, Holds
    <3> QED
      BY <1>0, <1>2, <1>3, <2>3, <3>1
         DEF ReviverAttaches, ReviverFailsLate, RevivalEnds, Disposing
  <2>4. CASE UNCHANGED <<life, owner>>
    BY <1>2, <2>4
  <2> QED
    BY <1>5, <2>1, <2>2, <2>3, <2>4
       DEF RevivalStep, FactoryDeclines, FactoryResolves, ReviverClaims, ReviverThrows,
           RevivalRejects, sessionVars
<1>6. CASE TimerParks \/ ParkStep
  <2>1. CASE ParkCommits
    <3>1. park.ref \in Ref /\ Holds(park.ref, park.ses)
      BY <2>1 DEF ParkCommits, Holds, IInv, TypeOK, Park, OptRef
    <3> QED  BY <1>0, <1>2, <1>3, <2>1, <3>1 DEF ParkCommits, Disposing
  <2>2. CASE UNCHANGED <<life, owner>>
    BY <1>2, <2>2
  <2> QED  BY <1>6, <2>1, <2>2 DEF TimerParks, ParkStep, ParkGivesUp, ParkEnds, sessionVars
<1>7. ASSUME NEW t \in Session, SessionStep(t)  PROVE life'[s] \in Open => owner'[s] \in Ref
  BY <1>0, <1>2, <1>7 DEF SessionStep, TurnStarts, TurnEnds, DisposeSettles, Open
<1>8. ASSUME NEW c \in Caller, CallerStep(c)  PROVE life'[s] \in Open => owner'[s] \in Ref
  BY <1>2, <1>8
     DEF CallerStep, EnsureLive, EnsureLiveCancelsPark, EnsureLiveWaits, KeepsSession,
         ResolvesAfterPark, CallerReturns, sessionVars
<1>9. ASSUME NEW x \in Releaser, ReleaseStep(x)  PROVE life'[s] \in Open => owner'[s] \in Ref
  <2>1. owner' = owner /\ \A t \in Session : life'[t] = life[t] \/ \E q \in Ref : Holds(q, t)
    <3>1. ASSUME NEW tomb \in BOOLEAN, Releases(x, tomb)
          PROVE  \A t \in Session : life'[t] = life[t] \/ (reg \in Ref /\ t = sess[reg])
      BY <1>0, <3>1 DEF Releases, BeginRelease, Capture, Disposing, OptRef
    <3>2. CASE ReleaseCaptures(x)
      <4>1. \A t \in Session : life'[t] = life[t] \/ (reg \in Ref /\ t = sess[reg])
        BY <1>0, <3>2 DEF ReleaseCaptures, Capture, Disposing, ReleaseBound
      <4> QED  BY <3>2, <4>1 DEF Holds, ReleaseCaptures
    <3>3. CASE ReleasePersisted(x)
      <4>1. release[x].ref \in Ref
        BY <1>0, <3>3 DEF ReleasePersisted, ReleaseBound
      <4>2. Holds(release[x].ref, release[x].ses)
        BY <3>3 DEF ReleasePersisted, Holds
      <4> QED  BY <1>0, <3>3, <4>1, <4>2 DEF ReleasePersisted, Disposing
    <3>4. CASE ReleaseDisposed(x) \/ ReleaseEnds(x)
      BY <3>4 DEF ReleaseDisposed, ReleaseEnds, sessionVars
    <3> QED  BY <1>9, <3>1, <3>2, <3>3, <3>4 DEF ReleaseStep, Releases, Holds
  <2> QED  BY <1>0, <1>2, <1>3, <2>1
<1>10. CASE UNCHANGED vars
  BY <1>2, <1>10 DEF vars
<1> QED  BY <1>4, <1>5, <1>6, <1>7, <1>8, <1>9, <1>10 DEF Next

\* Two live sessions never have the same agent's transcript open.
THEOREM TranscriptHasOneWriter == Spec => []SingleWriter
<1>1. Init => OpenIsOwned
  BY DEF Init, OpenIsOwned, Open
<1>2. IInv /\ OInv /\ OpenIsOwned /\ [Next]_vars => OpenIsOwned'
  BY OpenIsOwnedStep
<1>3. IInv /\ OInv /\ OpenIsOwned => SingleWriter
  <2> SUFFICES ASSUME IInv, OInv, OpenIsOwned, NEW s \in Session, NEW t \in Session, s # t,
                      life[s] \in Open, life[t] \in Open, owner[s] = owner[t]
               PROVE  FALSE
    BY DEF SingleWriter
  <2>1. owner[s] \in Ref
    BY DEF OpenIsOwned
  <2> QED  BY <2>1 DEF OInv, OneHolder, Holds
<1> QED  BY <1>1, <1>2, <1>3, InductiveInvariant, OwnershipInvariant, PTL DEF Spec

-----------------------------------------------------------------------------
(* The attached session is open, and what ensureLive hands out.            *)

\* A session whose dispose settles is not the attached one of the registered row, or
\* its hook takes the row along.
LEMMA HookSparesNoAttached ==
  ASSUME IInv, OInv, AttachedIsOpen, NEW s \in Session, DisposeSettles(s)
  PROVE  AttachedIsOpen'
<1>0. /\ life \in [Session -> Life] /\ reg \in OptRef /\ park \in Park /\ sess \in [Ref -> OptSession]
      /\ DetachedWhenStopped /\ OneHolder /\ ParkHolds
  BY DEF IInv, OInv, TypeOK
<1>1. CASE LiveSession # s
  <2>1. reg' \in {reg, NoRef} /\ sess' = sess
    BY <1>0 DEF DisposeSettles, Unregister
  <2>2. \A t \in Session : t # s => life'[t] = life[t]
    BY <1>0 DEF DisposeSettles
  <2> QED  BY <1>0, <1>1, <2>1, <2>2, NilAssumption DEF AttachedIsOpen, LiveSession, OptRef, OptSession
<1>2. CASE LiveSession = s
  <2>1. reg \in Ref /\ sess[reg] = s /\ s # NoSession
    BY <1>0, <1>2, NilAssumption DEF LiveSession, OptRef
  <2>2. s \in hooked /\ owner[s] = reg
    BY <1>0, <2>1 DEF ParkHolds, OneHolder, Holds
  <2>3. HookRemoves(reg)
    BY <1>0, <2>1, NilAssumption
       DEF HookRemoves, Parking, DisposeSettles, NewTask, ParkHolds, DetachedWhenStopped
  <2>4. reg' = NoRef
    BY <2>1, <2>2, <2>3, NilAssumption DEF DisposeSettles, Unregister
  <2> QED  BY <2>4 DEF AttachedIsOpen, LiveSession
<1> QED  BY <1>1, <1>2

\* A step that keeps the attached session of the row, or leaves the row without one.
KeepsAttached ==
  \/ reg' = NoRef
  \/ reg' \in Ref /\ sess'[reg'] = NoSession
  \/ reg' = reg /\ reg \in Ref /\ sess'[reg] = sess[reg] /\ life'[sess[reg]] = life[sess[reg]]
  \/ reg' \in Ref /\ life'[sess'[reg']] \in {"live", "disposing"}

LEMMA KeepsAttachedOpen ==
  ASSUME AttachedIsOpen, KeepsAttached
  PROVE  AttachedIsOpen'
BY NilAssumption DEF AttachedIsOpen, KeepsAttached, LiveSession

\* Every step leaves the registered row a session that is not closed, or none.
LEMMA AttachedIsOpenStep ==
  ASSUME IInv, OInv, AttachedIsOpen, [Next]_vars
  PROVE  AttachedIsOpen'
<1>0. /\ life \in [Session -> Life] /\ reg \in OptRef /\ sess \in [Ref -> OptSession]
      /\ status \in [Ref -> Status] /\ release \in [Releaser -> Release]
      /\ DetachedWhenStopped /\ OneHolder /\ RunBound /\ RevivalBound /\ ParkBound /\ ReleaseBound
      /\ RowBound /\ ParkHolds /\ RunHolds /\ RevivalHolds
  BY DEF IInv, OInv, TypeOK
<1>1. CASE UNCHANGED <<sess, life>> /\ reg' \in {reg, NoRef}
  BY <1>0, <1>1, KeepsAttachedOpen DEF KeepsAttached, OptRef
<1>2. ASSUME NEW s \in Session, reg' = reg, sess' = sess \/ \E q \in Ref : sess' = [sess EXCEPT ![q] = NoSession],
             life' = Disposing(s)
      PROVE  AttachedIsOpen'
  BY <1>0, <1>2, KeepsAttachedOpen DEF KeepsAttached, OptRef, Disposing, OptSession
<1>3. ASSUME NEW r \in Ref, SpawnStep(r) \/ FinalizeStep(r)
      PROVE  AttachedIsOpen'
  <2>1. ASSUME NEW st \in {"parked", "aborted"}, RestoreRegisters(r, st) \/ RestoreReplaces(r, st)
        PROVE  AttachedIsOpen'
    BY <1>0, <2>1, KeepsAttachedOpen
       DEF KeepsAttached, RestoreRegisters, RestoreReplaces, Register, Unborn,
           DetachedWhenStopped
  <2>2. CASE SpawnClaims(r)
    BY <1>0, <2>2, KeepsAttachedOpen
       DEF KeepsAttached, SpawnClaims, Register, Unborn, DetachedWhenStopped, RunBound
  <2>3. ASSUME NEW s \in Session, SpawnAttaches(r, s)  PROVE AttachedIsOpen'
    <3>1. CASE Attachable(r)
      BY <1>0, <2>3, <3>1, KeepsAttachedOpen DEF KeepsAttached, SpawnAttaches, Attachable
    <3>2. CASE ~Attachable(r)
      BY <1>2, <2>3, <3>2 DEF SpawnAttaches, Disposing
    <3> QED  BY <3>1, <3>2
  <2>4. CASE SpawnFailsLate(r) \/ FinalizeDisposes(r)
    BY <1>0, <1>2, <2>4 DEF SpawnFailsLate, FinalizeDisposes, RunBound
  <2>5. ASSUME NEW x \in Releaser, NEW tomb \in BOOLEAN, FinalizeAborted(r, x, tomb)
        PROVE  AttachedIsOpen'
    <3>1. reg = r /\ sess[r] \in Session
      BY <2>5, OwnedRowIsItsOwn DEF FinalizeAborted
    <3> QED
      BY <1>0, <2>5, <3>1, KeepsAttachedOpen
         DEF KeepsAttached, FinalizeAborted, BeginRelease, Capture, Disposing
  <2>6. CASE UNCHANGED <<sess, life>> /\ reg' \in {reg, NoRef}
    BY <1>1, <2>6
  <2> QED
    BY <1>3, <2>1, <2>2, <2>3, <2>4, <2>5, <2>6
       DEF SpawnStep, FinalizeStep, SpawnProbes, SpawnReclaims, SpawnRefused, SpawnFails,
           RunStarts,
           ResultAccepted, FinalizeKept, FinalizeUnregisters, Unregister, sessionVars
<1>4. ASSUME NEW r \in Ref, RevivalStep(r)  PROVE AttachedIsOpen'
  <2>1. ASSUME NEW s \in Session, ReviverOpens(r, s)  PROVE AttachedIsOpen'
    BY <1>0, <2>1, KeepsAttachedOpen DEF KeepsAttached, ReviverOpens, Fresh, OptRef, OptSession
  <2>2. CASE ReviverFails(r)
    <3>1. ASSUME reg \in Ref, sess[reg] \in Session  PROVE sess[reg] # revival[r].ses
      BY <1>0, <2>2, <3>1, NilAssumption DEF ReviverFails, OneHolder, Holds, RevivalHolds
    <3> QED  BY <1>0, <2>2, <3>1, KeepsAttachedOpen DEF KeepsAttached, ReviverFails, OptRef, OptSession
  <2>3. CASE ReviverAttaches(r) /\ Attachable(r)
    BY <1>0, <2>3, KeepsAttachedOpen
       DEF KeepsAttached, ReviverAttaches, Attachable, RevivalBound
  <2>4. CASE \/ ReviverAttaches(r) /\ ~Attachable(r)
             \/ ReviverFailsLate(r)
             \/ RevivalEnds(r) /\ life' # life
    BY <1>0, <1>2, <2>4 DEF ReviverAttaches, ReviverFailsLate, RevivalEnds, RevivalBound
  <2>5. CASE UNCHANGED <<reg, sess, life>>
    BY <1>1, <2>5
  <2> QED
    BY <1>4, <2>1, <2>2, <2>3, <2>4, <2>5
       DEF RevivalStep, FactoryDeclines, FactoryResolves, ReviverClaims, ReviverThrows,
           RevivalEnds, RevivalRejects, sessionVars
<1>5. CASE TimerParks \/ ParkStep
  BY <1>0, <1>1, <1>2, <1>5
     DEF TimerParks, ParkStep, ParkGivesUp, ParkCommits, ParkEnds, ParkStillValid, ParkBound,
         sessionVars, IInv, TypeOK, Park, OptRef
<1>6. ASSUME NEW s \in Session, SessionStep(s)  PROVE AttachedIsOpen'
  BY <1>1, <1>6, HookSparesNoAttached DEF SessionStep, TurnStarts, TurnEnds
<1>7. ASSUME NEW c \in Caller, CallerStep(c)  PROVE AttachedIsOpen'
  BY <1>1, <1>7
     DEF CallerStep, EnsureLive, EnsureLiveCancelsPark, EnsureLiveWaits, KeepsSession,
         ResolvesAfterPark, CallerReturns, sessionVars
<1>8. ASSUME NEW x \in Releaser, ReleaseStep(x)  PROVE AttachedIsOpen'
  <2>1. ASSUME NEW q \in Ref, NEW tomb \in BOOLEAN, NEW owns, Capture(x, q, tomb, owns), reg' = reg
        PROVE  AttachedIsOpen'
    <3>1. CASE UNCHANGED <<sess, life>>
      BY <1>1, <2>1, <3>1
    <3>2. CASE tomb /\ reg = q /\ sess' = [sess EXCEPT ![q] = NoSession]
      BY <1>0, <3>2, <2>1, KeepsAttachedOpen DEF KeepsAttached
    <3>3. CASE reg = q /\ sess[q] # NoSession /\ sess' = sess /\ life' = Disposing(sess[q])
      BY <1>0, <1>2, <2>1, <3>3 DEF OptSession
    <3> QED  BY <2>1, <3>1, <3>2, <3>3 DEF Capture
  <2>2. ASSUME NEW tomb \in BOOLEAN, Releases(x, tomb)  PROVE AttachedIsOpen'
    <3> DEFINE q == IF reg # NoRef THEN reg ELSE adopted.ref
    <3>1. q \in Ref
      BY <2>2 DEF Releases, IInv, TypeOK, Adoption, OptRef
    <3>2. BeginRelease(x, q, tomb) /\ reg' = reg
      BY <2>2 DEF Releases
    <3> HIDE DEF q
    <3>3. CASE UNCHANGED <<sess, life>>
      BY <1>1, <3>2, <3>3
    <3> QED  BY <2>1, <3>1, <3>2, <3>3 DEF BeginRelease
  <2>3. CASE ReleaseCaptures(x)
    BY <1>0, <2>1, <2>3 DEF ReleaseCaptures, ReleaseBound, Release
  <2>4. CASE ReleasePersisted(x)
    BY <1>0, <1>1, <1>2, <2>4 DEF ReleasePersisted, Release, OptSession
  <2>5. CASE ReleaseDisposed(x) \/ ReleaseEnds(x)
    BY <1>1, <2>5 DEF ReleaseDisposed, ReleaseEnds, Unregister, sessionVars
  <2> QED  BY <1>8, <2>2, <2>3, <2>4, <2>5 DEF ReleaseStep
<1>9. CASE UNCHANGED vars
  BY <1>1, <1>9 DEF vars
<1> QED  BY <1>3, <1>4, <1>5, <1>6, <1>7, <1>8, <1>9 DEF Next

\* The registered row never keeps a session whose dispose has settled, whether a park, a
\* kill, a finalizer or the session itself disposed of it.
THEOREM AttachedStaysOpen == Spec => []AttachedIsOpen
<1>1. Init => AttachedIsOpen
  BY DEF Init, AttachedIsOpen, LiveSession
<1>2. IInv /\ OInv /\ AttachedIsOpen /\ [Next]_vars => AttachedIsOpen'
  BY AttachedIsOpenStep
<1> QED  BY <1>1, <1>2, InductiveInvariant, OwnershipInvariant, PTL DEF Spec

\* A step that answers no ensureLive call with a session.
AnswersNone == \A c \in Caller : caller'[c] = caller[c] \/ caller'[c].pc # "got"

\* What a call is answered with: the registered row's session, open, and in no park.
HandsOut(s) ==
  /\ s = LiveSession'
  /\ life'[s] \in {"live", "disposing"}
  /\ ~(park.detached /\ park.ses = s)

\* Whatever answers a call (the row, a kept park, a revival) answers with such a session.
LEMMA HandsOutStep ==
  ASSUME IInv, OInv, AttachedIsOpen, [Next]_vars, NEW c \in Caller,
         caller[c].pc # "got", caller'[c].pc = "got"
  PROVE  HandsOut(caller'[c].ses)
<1>0. /\ caller \in [Caller -> Call] /\ life \in [Session -> Life] /\ reg \in OptRef
      /\ sess \in [Ref -> OptSession] /\ park \in Park
      /\ OneHolder /\ RevivalBound /\ ParkHolds /\ NoParkPending
  BY DEF IInv, OInv, TypeOK
<1>1. NoCall.pc # "got"
  BY DEF NoCall
<1>2. \A s : Got(s).ses = s
  BY DEF Got, NoCall
<1>3. ASSUME AnswersNone  PROVE FALSE
  BY <1>3 DEF AnswersNone
<1>4. ASSUME LiveSession # NoSession, park.ref = NoRef, caller'[c] = Got(LiveSession),
             UNCHANGED <<reg, sess, life>>
      PROVE  HandsOut(caller'[c].ses)
  BY <1>0, <1>2, <1>4 DEF HandsOut, AttachedIsOpen, LiveSession, ParkHolds
<1>5. ASSUME NEW d \in Caller, Resolve(d), park.ref = NoRef, UNCHANGED <<reg, sess, life>>
      PROVE  HandsOut(caller'[c].ses)
  <2>1. \A r : Waits(r).pc # "got"
    BY DEF Waits, NoCall
  <2>2. LiveSession # NoSession /\ caller' = [caller EXCEPT ![d] = Got(LiveSession)] /\ c = d
    BY <1>0, <1>1, <1>5, <2>1 DEF Resolve, StartRevival
  <2> QED  BY <1>0, <1>4, <1>5, <2>2
<1>6. ASSUME NEW d \in Caller, CallerStep(d)
      PROVE  HandsOut(caller'[c].ses)
  <2>1. CASE EnsureLive(d)
    BY <1>5, <2>1 DEF EnsureLive, sessionVars
  <2>2. CASE ResolvesAfterPark(d)
    BY <1>0, <1>5, <2>2 DEF ResolvesAfterPark, sessionVars, NoParkPending
  <2>3. CASE KeepsSession(d)
    BY <1>0, <1>4, <2>3 DEF KeepsSession, sessionVars, NoParkPending
  <2>4. CASE EnsureLiveCancelsPark(d) \/ EnsureLiveWaits(d) \/ CallerReturns(d)
    BY <1>0, <1>1, <1>3, <2>4
       DEF AnswersNone, EnsureLiveCancelsPark, EnsureLiveWaits, CallerReturns, NoCall
  <2> QED  BY <1>6, <2>1, <2>2, <2>3, <2>4 DEF CallerStep
<1>7. ASSUME NEW r \in Ref, RevivalStep(r)
      PROVE  HandsOut(caller'[c].ses)
  <2>1. CASE RevivalEnds(r) /\ reg = r /\ status[r] = "running" /\ sess[r] = revival[r].ses
    <3> DEFINE s == revival[r].ses
    <3>1. s \in Session /\ life' = life /\ LiveSession = s /\ LiveSession' = s
      BY <1>0, <2>1, NilAssumption DEF RevivalEnds, RevivalBound, LiveSession
    <3>2. caller'[c].ses = s
      BY <1>0, <1>2, <2>1 DEF RevivalEnds, Settle, Tell
    <3>3. Holds(r, s)
      BY <2>1 DEF Holds
    <3>4. ~(park.detached /\ park.ses = s)
      BY <1>0, <2>1, <3>1, <3>3, NilAssumption DEF ParkHolds, OneHolder, Holds, Park, OptRef
    <3> QED  BY <3>1, <3>2, <3>4, NilAssumption DEF HandsOut, AttachedIsOpen
  <2>2. CASE Settle(r, NoCall)
    BY <1>1, <1>3, <2>2 DEF AnswersNone, Settle, Tell
  <2>3. CASE UNCHANGED caller
    BY <1>3, <2>3 DEF AnswersNone
  <2> QED
    BY <1>7, <2>1, <2>2, <2>3
       DEF RevivalStep, FactoryDeclines, FactoryResolves, ReviverOpens, ReviverClaims,
           ReviverFails,
           ReviverAttaches, ReviverFailsLate, ReviverThrows, RevivalEnds, RevivalRejects
<1>8. CASE ParkStep
  <2>1. CASE SettlePark
    <3>1. caller'[c].pc \in {caller[c].pc, "cancelDone", "parkDone"}
      BY <1>0, <2>1 DEF SettlePark, Call
    <3> QED  BY <3>1
  <2>2. CASE UNCHANGED caller
    BY <1>3, <2>2 DEF AnswersNone
  <2> QED  BY <1>8, <2>1, <2>2 DEF ParkStep, ParkGivesUp, ParkCommits, ParkEnds
<1>9. CASE UNCHANGED caller
  BY <1>3, <1>9 DEF AnswersNone
<1>10. ASSUME NEW r \in Ref, SpawnStep(r) \/ FinalizeStep(r)
       PROVE  UNCHANGED caller
  BY <1>10
     DEF SpawnStep, FinalizeStep, RestoreRegisters, RestoreReplaces, SpawnClaims, SpawnProbes,
               SpawnReclaims, SpawnRefused, SpawnFails, RunStarts, SpawnFailsLate, ResultAccepted,
               SpawnAttaches, FinalizeKept, FinalizeAborted, FinalizeDisposes, FinalizeUnregisters
<1>11. ASSUME NEW s \in Session, SessionStep(s)  PROVE UNCHANGED caller
  BY <1>11 DEF SessionStep, TurnStarts, TurnEnds, DisposeSettles
<1>12. ASSUME NEW x \in Releaser, ReleaseStep(x)  PROVE UNCHANGED caller
  BY <1>12
     DEF ReleaseStep, Releases, ReleaseCaptures, ReleasePersisted, ReleaseDisposed, ReleaseEnds
<1> QED  BY <1>6, <1>7, <1>8, <1>9, <1>10, <1>11, <1>12 DEF Next, TimerParks, vars

\* ensureLive answers with the session the row has now, open, and in no park that will
\* dispose it.
THEOREM EnsureLiveHandsOutOpenSession == Spec => HandsOutOpenSession
<1>1. IInv /\ OInv /\ AttachedIsOpen /\ [Next]_vars =>
        [\A c \in Caller : caller[c].pc # "got" /\ caller'[c].pc = "got" =>
           LET s == caller'[c].ses IN
           /\ s = LiveSession'
           /\ life'[s] \in {"live", "disposing"}
           /\ ~(park.detached /\ park.ses = s)]_vars
  BY HandsOutStep DEF HandsOut
<1> QED  BY <1>1, InductiveInvariant, OwnershipInvariant, AttachedStaysOpen, PTL
         DEF Spec, HandsOutOpenSession

\* The tear-down of a run unregisters its own ref, or none.
RunNamesItself == \A r \in Ref : run[r].pc # "probing" => run[r].ref \in {r, NoRef}

LEMMA RunNamesItselfStep ==
  ASSUME IInv, OInv, RunNamesItself, [Next]_vars
  PROVE  RunNamesItself'
<1>0. run \in [Ref -> Run] /\ NoRun.ref = NoRef /\ NoRun.pc = "none"
  BY DEF IInv, TypeOK, NoRun
<1>1. ASSUME NEW r \in Ref, SpawnStep(r) \/ FinalizeStep(r)  PROVE RunNamesItself'
  <2>1. CASE FinalizeDisposes(r)
    BY <1>0, <2>1, OwnedRowIsItsOwn DEF RunNamesItself, FinalizeDisposes, Run
  <2>2. CASE SpawnProbes(r)
    BY <1>0, <2>2 DEF RunNamesItself, SpawnProbes, NoRun
  <2>3. CASE run' = [run EXCEPT ![r] = NoRun] \/ \E p : run' = [run EXCEPT ![r] = [NoRun EXCEPT !.pc = p]]
    BY <1>0, <2>3 DEF RunNamesItself, NoRun
  <2>4. ASSUME NEW s \in Session, SpawnAttaches(r, s)  PROVE RunNamesItself'
    BY <1>0, <2>4 DEF RunNamesItself, SpawnAttaches, Run
  <2>5. CASE SpawnFails(r) \/ RunStarts(r) \/ SpawnFailsLate(r)
    BY <1>0, <2>5 DEF RunNamesItself, SpawnFails, RunStarts, SpawnFailsLate, Run
  <2>6. CASE UNCHANGED run
    BY <2>6 DEF RunNamesItself
  <2> QED
    BY <1>1, <2>1, <2>2, <2>3, <2>4, <2>5, <2>6
       DEF SpawnStep, FinalizeStep, RestoreRegisters, RestoreReplaces, SpawnClaims,
           SpawnReclaims,
           SpawnRefused, ResultAccepted, FinalizeKept, FinalizeAborted, FinalizeUnregisters
<1>2. CASE UNCHANGED run
  BY <1>2 DEF RunNamesItself
<1>3. ASSUME NEW r \in Ref, RevivalStep(r)  PROVE UNCHANGED run
  BY <1>3
     DEF RevivalStep, FactoryDeclines, FactoryResolves, ReviverOpens, ReviverClaims,
         ReviverFails,
              ReviverAttaches, ReviverFailsLate, ReviverThrows, RevivalEnds, RevivalRejects
<1>4. ASSUME NEW s \in Session, SessionStep(s)  PROVE UNCHANGED run
  BY <1>4 DEF SessionStep, TurnStarts, TurnEnds, DisposeSettles
<1>5. ASSUME NEW x \in Releaser, ReleaseStep(x)  PROVE UNCHANGED run
  BY <1>5
     DEF ReleaseStep, Releases, ReleaseCaptures, ReleasePersisted, ReleaseDisposed, ReleaseEnds
<1>6. ASSUME NEW c \in Caller, CallerStep(c)  PROVE UNCHANGED run
  BY <1>6 DEF CallerStep, EnsureLive, EnsureLiveCancelsPark, EnsureLiveWaits, KeepsSession,
              ResolvesAfterPark, CallerReturns
<1> QED
  BY <1>1, <1>2, <1>3, <1>4, <1>5, <1>6
     DEF Next, TimerParks, ParkStep, ParkGivesUp, ParkCommits, ParkEnds, vars

\* A step that leaves the registered row alone, and one that does no work of another ref.
LeavesRow == reg' = reg /\ status'[reg] = status[reg] /\ sess'[reg] = sess[reg]
OwnWork   == \A q \in Ref \ {reg} : ~WorkOf(q)

\* Work of another ref compares the row with its own ref before it writes.
LEMMA StaleWorkStep ==
  ASSUME IInv, OInv, RunNamesItself, [Next]_vars, reg # NoRef
  PROVE  LeavesRow \/ OwnWork
<1>0. /\ run \in [Ref -> Run] /\ reg \in Ref /\ status \in [Ref -> Status] /\ sess \in [Ref -> OptSession]
      /\ revival \in [Ref -> Revival] /\ release \in [Releaser -> Release] /\ NoRef \notin Ref
      /\ OneHolder /\ ReleaseBound /\ KillHolds
  BY NilAssumption DEF IInv, OInv, TypeOK, OptRef
<1>1. ASSUME UNCHANGED <<park, revival, release>>,
             \A q \in Ref \ {reg} : run'[q] = run[q] \/ run[q].pc \in {"probing", "retry"}
      PROVE  OwnWork
  BY <1>1 DEF OwnWork, WorkOf
<1>2. ASSUME NEW x \in Releaser, NEW tomb \in BOOLEAN, BeginRelease(x, reg, tomb),
             UNCHANGED revival, \A q \in Ref \ {reg} : run'[q] = run[q]
      PROVE  OwnWork
  <2>1. release[x].ref \notin Ref
    BY <1>0, <1>2 DEF BeginRelease, KillHolds, NoRelease
  <2>2. \A y \in Releaser : y # x => release'[y] = release[y]
    BY <1>0, <1>2 DEF BeginRelease, Capture
  <2>3. park' = park \/ park.ref = reg
    BY <1>2 DEF BeginRelease
  <2> QED  BY <1>0, <1>2, <2>1, <2>2, <2>3 DEF OwnWork, WorkOf
<1>3. ASSUME NEW r \in Ref, SpawnStep(r)  PROVE LeavesRow \/ OwnWork
  <2>1. ASSUME NEW st \in {"parked", "aborted"}, RestoreRegisters(r, st) \/ RestoreReplaces(r, st)
        PROVE  OwnWork
    BY <1>1, <2>1 DEF RestoreRegisters, RestoreReplaces
  <2>2. CASE SpawnClaims(r) \/ SpawnProbes(r) \/ SpawnRefused(r) \/ RunStarts(r) \/ SpawnFailsLate(r)
    BY <1>0, <2>2
       DEF LeavesRow, SpawnClaims, Register, SpawnProbes, SpawnRefused, RunStarts,
           SpawnFailsLate
  <2>3. CASE SpawnReclaims(r)
    BY <1>0, <1>1, <2>3 DEF SpawnReclaims
  <2>4. CASE SpawnFails(r)
    BY <1>0, <1>1, <2>4 DEF LeavesRow, SpawnFails, HookRemoves
  <2>5. ASSUME NEW s \in Session, SpawnAttaches(r, s)  PROVE LeavesRow \/ OwnWork
    BY <1>0, <1>1, <2>5 DEF LeavesRow, SpawnAttaches, Attachable
  <2>6. CASE ResultAccepted(r)
    BY <1>1, <2>6 DEF ResultAccepted
  <2> QED  BY <1>3, <2>1, <2>2, <2>3, <2>4, <2>5, <2>6 DEF SpawnStep
<1>4. ASSUME NEW r \in Ref, FinalizeStep(r)  PROVE LeavesRow \/ OwnWork
  <2>1. ASSUME NEW hot \in BOOLEAN, NEW owns \in BOOLEAN, FinalizeKept(r, hot, owns)
        PROVE  OwnWork
    <3>1. reg = r
      BY <2>1, OwnedRowIsItsOwn DEF FinalizeKept
    <3> QED  BY <1>0, <1>1, <2>1, <3>1 DEF FinalizeKept
  <2>2. ASSUME NEW x \in Releaser, NEW tomb \in BOOLEAN, FinalizeAborted(r, x, tomb)
        PROVE  OwnWork
    <3>1. reg = r
      BY <2>2, OwnedRowIsItsOwn DEF FinalizeAborted
    <3> QED  BY <1>0, <1>2, <2>2, <3>1 DEF FinalizeAborted
  <2>3. CASE FinalizeDisposes(r)
    BY <2>3 DEF LeavesRow, FinalizeDisposes
  <2>4. CASE FinalizeUnregisters(r)
    <3>1. CASE run[r].ref = reg
      BY <1>0, <1>1, <2>4, <3>1 DEF FinalizeUnregisters, RunNamesItself
    <3>2. CASE run[r].ref # reg
      BY <2>4, <3>2 DEF LeavesRow, FinalizeUnregisters, Unregister
    <3> QED  BY <3>1, <3>2
  <2> QED  BY <1>4, <2>1, <2>2, <2>3, <2>4 DEF FinalizeStep
<1>5. ASSUME NEW r \in Ref, RevivalStep(r)  PROVE LeavesRow \/ OwnWork
  <2>1. CASE (ReviverAttaches(r) /\ Attachable(r)) \/ (RevivalEnds(r) /\ reg = r)
    <3>1. r = reg /\ UNCHANGED <<park, release, run>> /\ \A q \in Ref \ {r} : revival'[q] = revival[q]
      BY <1>0, <2>1 DEF ReviverAttaches, Attachable, RevivalEnds, Settle
    <3> QED  BY <3>1 DEF OwnWork, WorkOf
  <2>2. CASE UNCHANGED <<reg, status, sess>>
    BY <2>2 DEF LeavesRow
  <2> QED
    BY <1>5, <2>1, <2>2
       DEF RevivalStep, FactoryDeclines, FactoryResolves, ReviverOpens, ReviverClaims,
           ReviverFails,
           ReviverAttaches, ReviverFailsLate, ReviverThrows, RevivalEnds, RevivalRejects
<1>6. CASE TimerParks \/ ParkStep
  <2>1. CASE ParkCommits
    BY <2>1 DEF OwnWork, WorkOf, ParkCommits, ParkStillValid
  <2>2. CASE UNCHANGED <<reg, status, sess>>
    BY <2>2 DEF LeavesRow
  <2> QED  BY <1>6, <2>1, <2>2 DEF TimerParks, ParkStep, ParkGivesUp, ParkEnds
<1>7. ASSUME NEW s \in Session, SessionStep(s)  PROVE OwnWork
  BY <1>1, <1>7 DEF SessionStep, TurnStarts, TurnEnds, DisposeSettles
<1>8. ASSUME NEW c \in Caller, CallerStep(c)  PROVE LeavesRow
  BY <1>8 DEF LeavesRow, CallerStep, EnsureLive, EnsureLiveCancelsPark, EnsureLiveWaits,
              KeepsSession, ResolvesAfterPark, CallerReturns
<1>9. ASSUME NEW x \in Releaser, ReleaseStep(x)  PROVE LeavesRow \/ OwnWork
  <2>1. ASSUME NEW tomb \in BOOLEAN, Releases(x, tomb)  PROVE OwnWork
    BY <1>2, <2>1 DEF Releases
  <2>2. CASE (ReleaseCaptures(x) \/ ReleaseEnds(x)) /\ release[x].ref = reg
    <3>1. \A y \in Releaser : y # x => release'[y] = release[y]
      BY <1>0, <2>2 DEF ReleaseCaptures, Capture, ReleaseEnds
    <3> QED  BY <1>0, <2>2, <3>1 DEF OwnWork, WorkOf, ReleaseCaptures, ReleaseEnds
  <2>3. CASE (ReleaseCaptures(x) \/ ReleaseEnds(x)) /\ release[x].ref # reg
    BY <2>3 DEF LeavesRow, ReleaseCaptures, Capture, ReleaseEnds, Unregister
  <2>4. CASE ReleasePersisted(x) \/ ReleaseDisposed(x)
    BY <2>4 DEF LeavesRow, ReleasePersisted, ReleaseDisposed
  <2> QED  BY <1>9, <2>1, <2>2, <2>3, <2>4 DEF ReleaseStep
<1>10. CASE UNCHANGED vars
  BY <1>10 DEF vars, LeavesRow
<1> QED  BY <1>3, <1>4, <1>5, <1>6, <1>7, <1>8, <1>9, <1>10 DEF Next

\* A park, revival, kill or run of an earlier generation never changes the row a later
\* one has registered (every writer compares the ref, not the id).
THEOREM StaleWorkLeavesTheRow == Spec => StaleWorkIsHarmless
<1>1. Init => RunNamesItself
  BY DEF Init, RunNamesItself, NoRun
<1>2. IInv /\ OInv /\ RunNamesItself /\ [Next]_vars => RunNamesItself'
  BY RunNamesItselfStep
<1>3. IInv /\ OInv /\ RunNamesItself /\ [Next]_vars =>
        [\A r \in Ref : WorkOf(r) /\ reg \notin {r, NoRef} =>
           reg' = reg /\ status'[reg] = status[reg] /\ sess'[reg] = sess[reg]]_vars
  BY StaleWorkStep DEF LeavesRow, OwnWork
<1> QED  BY <1>1, <1>2, <1>3, InductiveInvariant, OwnershipInvariant, PTL
         DEF Spec, StaleWorkIsHarmless

-----------------------------------------------------------------------------
(* The idle timer.                                                         *)

\* The id was registered by one generation only.
OneGeneration == \A q, r \in Ref : status[q] # "none" /\ status[r] # "none" => q = r

\* A cancelled park of the adopted ref was cancelled by an ensureLive call, and that call
\* is still there to arm the timer the park's own timer cleared.
CancelIsAwaited ==
  park.ref # NoRef /\ ~park.detached /\ park.cancelled /\ adopted.ref = park.ref
    => \E c \in Caller : caller[c].pc = "cancelWait"

\* A call that cancelled a park knows whose.
CancelNames ==
  \A c \in Caller : caller[c].pc \in {"cancelWait", "cancelDone"} =>
    caller[c].ref \in Ref /\ status[caller[c].ref] # "none"

\* A ref, once created, stays created.
LEMMA CreatedStays ==
  ASSUME IInv, OInv, [Next]_vars, NEW q \in Ref, status[q] # "none"
  PROVE  status'[q] # "none"
<1>0. status \in [Ref -> Status] /\ reg \in OptRef
  BY DEF IInv, TypeOK
<1>1. CASE UNCHANGED status
  BY <1>1
<1>2. ASSUME NEW r, NEW st \in {"running", "idle", "parked", "aborted"}, status' = [status EXCEPT ![r] = st]
      PROVE  status'[q] # "none"
  BY <1>0, <1>2
<1>3. ASSUME NEW r \in Ref, SpawnStep(r)  PROVE status'[q] # "none"
  BY <1>1, <1>2, <1>3
     DEF SpawnStep, RestoreRegisters, RestoreReplaces, SpawnClaims, Register, SpawnProbes,
         SpawnReclaims, SpawnRefused, SpawnFails, RunStarts, SpawnFailsLate, ResultAccepted,
         SpawnAttaches, SetStatus
<1>4. ASSUME NEW r \in Ref, FinalizeStep(r)  PROVE status'[q] # "none"
  BY <1>1, <1>2, <1>4
     DEF FinalizeStep, FinalizeKept, FinalizeAborted, BeginRelease, Capture, FinalizeDisposes,
         FinalizeUnregisters
<1>5. ASSUME NEW r \in Ref, RevivalStep(r)  PROVE status'[q] # "none"
  BY <1>1, <1>2, <1>5
     DEF RevivalStep, FactoryDeclines, FactoryResolves, ReviverOpens, ReviverClaims,
         ReviverFails,
         ReviverAttaches, SetStatus, ReviverFailsLate, ReviverThrows, RevivalEnds, RevivalRejects
<1>6. ASSUME NEW s \in Session, SessionStep(s)  PROVE status'[q] # "none"
  BY <1>1, <1>2, <1>6 DEF SessionStep, TurnStarts, TurnEnds, DisposeSettles, Mirror, SetStatus
<1>7. CASE TimerParks \/ ParkStep
  BY <1>1, <1>2, <1>7 DEF TimerParks, ParkStep, ParkGivesUp, ParkCommits, ParkEnds, SetStatus
<1>8. ASSUME NEW c \in Caller, CallerStep(c)  PROVE status'[q] # "none"
  BY <1>1, <1>8
     DEF CallerStep, EnsureLive, EnsureLiveCancelsPark, EnsureLiveWaits, KeepsSession,
                    ResolvesAfterPark, CallerReturns
<1>9. ASSUME NEW x \in Releaser, ReleaseStep(x)  PROVE status'[q] # "none"
  BY <1>1, <1>2, <1>9 DEF ReleaseStep, Releases, BeginRelease, Capture, ReleaseCaptures,
                          ReleasePersisted, ReleaseDisposed, ReleaseEnds
<1> QED  BY <1>1, <1>3, <1>4, <1>5, <1>6, <1>7, <1>8, <1>9 DEF Next, vars

\* A step that arms the timer of the row, leaves the row without an idle session of its
\* own, or leaves the row and its timer as they were.
Armed ==
  \/ reg' = NoRef \/ adopted'.ref # reg' \/ status'[reg'] # "idle" \/ sess'[reg'] = NoSession
  \/ adopted'.timer \/ park'.ref # NoRef
  \/ /\ UNCHANGED <<reg, adopted, park>>
     /\ status'[reg] = status[reg] /\ sess'[reg] = sess[reg]
     /\ \A s \in Session : life'[s] = "live" => life[s] = "live"
     /\ \A c \in Caller : caller[c].pc = "cancelDone" => caller'[c].pc = "cancelDone"

\* A step that leaves the calls that cancelled a park alone.
CancelsKept ==
  \A c \in Caller :
    /\ caller[c].pc = "cancelWait" => caller'[c].pc = "cancelWait"
    /\ caller'[c].pc \in {"cancelWait", "cancelDone"} =>
         caller[c].pc \in {"cancelWait", "cancelDone"} /\ caller'[c].ref = caller[c].ref

\* A step that starts, cancels or ends no park, and adopts nothing that is being parked.
ParkKept ==
  park' = park /\ (adopted'.ref \in {adopted.ref, NoRef} \/ adopted'.ref # park.ref)

\* A step that also leaves the calls alone whose park was cancelled.
CallsKept == CancelsKept /\ \A c \in Caller : caller[c].pc = "cancelDone" => caller'[c].pc = "cancelDone"

\* The inductive invariant behind the idle timer.
AInv == IdleAgentIsArmed /\ CancelIsAwaited /\ CancelNames

\* A step that keeps the row armed, the park and the cancelling calls keeps AInv.
LEMMA ArmedKept ==
  ASSUME IInv, AInv, Armed, ParkKept, CancelsKept,
         \A q \in Ref : status[q] # "none" => status'[q] # "none"
  PROVE  AInv'
<1>1. IdleAgentIsArmed'
  <2>1. CASE /\ UNCHANGED <<reg, adopted, park>>
             /\ status'[reg] = status[reg] /\ sess'[reg] = sess[reg]
             /\ \A s \in Session : life'[s] = "live" => life[s] = "live"
             /\ \A c \in Caller : caller[c].pc = "cancelDone" => caller'[c].pc = "cancelDone"
    BY <2>1 DEF AInv, IdleAgentIsArmed, IInv, TypeOK, OptRef, OptSession
  <2> QED  BY <2>1 DEF Armed, IdleAgentIsArmed
<1>2. CancelIsAwaited'
  BY DEF AInv, CancelIsAwaited, ParkKept, CancelsKept
<1>3. CancelNames'
  BY DEF AInv, CancelNames, CancelsKept
<1> QED  BY <1>1, <1>2, <1>3 DEF AInv

\* The status event of an idle row arms its timer unless a park is in flight.
LEMMA SetStatusArms ==
  ASSUME IInv, NEW r \in Ref, NEW st \in {"running", "idle", "parked"}, SetStatus(r, st),
         UNCHANGED <<reg, park>>, reg = r,
         sess'[r] = sess[r] \/ st # "idle",
         \A s \in Session : life'[s] = "live" => life[s] = "live", CallsKept
  PROVE  Armed /\ adopted'.ref = adopted.ref
<1>0. adopted \in Adoption /\ status \in [Ref -> Status]
  BY DEF IInv, TypeOK
<1>1. adopted'.ref = adopted.ref /\ status'[r] = st
  BY <1>0 DEF SetStatus, OnStatus, Adoption
<1>2. CASE st # "idle"
  BY <1>1, <1>2 DEF Armed
<1>3. CASE st = "idle" /\ status[r] # "idle" /\ park.ref = NoRef /\ adopted.ref = r
  BY <1>0, <1>3 DEF Armed, SetStatus, OnStatus, Adoption
<1>4. CASE st = "idle" /\ status[r] = "idle"
  BY <1>0, <1>1, <1>4 DEF Armed, SetStatus, CallsKept
<1>5. CASE park.ref # NoRef \/ adopted.ref # r
  BY <1>1, <1>5 DEF Armed
<1> QED  BY <1>1, <1>2, <1>3, <1>4, <1>5

\* A spawn adopts nothing: its row has no timer to lose.
LEMMA SpawnArms ==
  ASSUME IInv, OInv, NEW r \in Ref, SpawnStep(r)
  PROVE  Armed /\ ParkKept /\ CancelsKept
<1>0. /\ adopted \in Adoption /\ status \in [Ref -> Status] /\ sess \in [Ref -> OptSession]
      /\ life \in [Session -> Life] /\ NotAdopted.ref = NoRef /\ NoRef \notin Ref
      /\ UNCHANGED <<park, caller>>
  BY NilAssumption
     DEF IInv, TypeOK, NotAdopted, SpawnStep, RestoreRegisters, RestoreReplaces, SpawnClaims,
         SpawnProbes, SpawnReclaims, SpawnRefused, SpawnFails, RunStarts, SpawnFailsLate,
         ResultAccepted, SpawnAttaches
<1>1. CallsKept
  BY <1>0 DEF CallsKept, CancelsKept
<1>2. CASE \/ \E st \in {"parked", "aborted"} : RestoreRegisters(r, st) \/ RestoreReplaces(r, st)
           \/ SpawnClaims(r)
  BY <1>0, <1>1, <1>2
     DEF Armed, ParkKept, CallsKept, RestoreRegisters, RestoreReplaces, SpawnClaims, Register,
         OnRemoved
<1>3. CASE SpawnProbes(r) \/ SpawnRefused(r) \/ RunStarts(r) \/ SpawnFailsLate(r)
  BY <1>0, <1>1, <1>3
     DEF Armed, ParkKept, CallsKept, SpawnProbes, SpawnRefused, RunStarts, SpawnFailsLate,
         Disposing,
         sessionVars, IInv, RunBound
<1>4. CASE SpawnReclaims(r) \/ SpawnFails(r)
  BY <1>0, <1>1, <1>4
     DEF Armed, ParkKept, CallsKept, SpawnReclaims, SpawnFails, Unregister, OnRemoved,
         sessionVars
<1>5. CASE ResultAccepted(r)
  BY <1>0, <1>1, <1>5, SetStatusArms DEF ResultAccepted, ParkKept, CallsKept, sessionVars
<1>6. ASSUME NEW s \in Session, SpawnAttaches(r, s)  PROVE Armed /\ ParkKept
  <2>1. CASE Attachable(r)
    BY <1>0, <1>6, <2>1
       DEF SpawnAttaches, Attachable, SetStatus, OnStatus, Armed, ParkKept, Adoption
  <2>2. CASE ~Attachable(r)
    BY <1>0, <1>1, <1>6, <2>2 DEF SpawnAttaches, Armed, ParkKept, CallsKept
  <2> QED  BY <2>1, <2>2
<1> QED  BY <1>1, <1>2, <1>3, <1>4, <1>5, <1>6 DEF SpawnStep, CallsKept

\* A revival that ends puts its row to idle, and the status event arms the timer.
LEMMA RevivalArms ==
  ASSUME IInv, OInv, NEW r \in Ref, RevivalStep(r)
  PROVE  Armed /\ ParkKept /\ CancelsKept
<1>0. /\ adopted \in Adoption /\ status \in [Ref -> Status] /\ sess \in [Ref -> OptSession]
      /\ life \in [Session -> Life] /\ NotAdopted.ref = NoRef /\ NoRef \notin Ref
      /\ RevivalHolds /\ RevivalBound
  BY NilAssumption DEF IInv, OInv, TypeOK, NotAdopted
<1>1. park' = park
  BY
     DEF RevivalStep, FactoryDeclines, FactoryResolves, ReviverOpens, ReviverClaims,
         ReviverFails,
         ReviverAttaches, ReviverFailsLate, ReviverThrows, RevivalEnds, RevivalRejects
<1>2. CallsKept
  <2>1. ASSUME NEW answer, answer.pc \in {"idle", "got"}, Tell(r, answer)  PROVE CallsKept
    <3> SUFFICES ASSUME NEW c \in Caller
                 PROVE  /\ caller[c].pc \in {"cancelWait", "cancelDone"} => caller'[c] = caller[c]
                        /\ caller'[c].pc \in {"cancelWait", "cancelDone"} => caller'[c] = caller[c]
      BY DEF CallsKept, CancelsKept
    <3> QED  BY <2>1 DEF Tell
  <2>2. CASE UNCHANGED caller
    BY <2>2 DEF CallsKept, CancelsKept
  <2>3. NoCall.pc = "idle" /\ \A s : Got(s).pc = "got"
    BY DEF NoCall, Got
  <2> QED
    BY <2>1, <2>2, <2>3
       DEF RevivalStep, FactoryDeclines, FactoryResolves, ReviverOpens, ReviverClaims,
           ReviverFails,
           ReviverAttaches, ReviverFailsLate, ReviverThrows, RevivalEnds, RevivalRejects, Settle
<1>3. CASE FactoryResolves(r)
  BY <1>0, <1>1, <1>2, <1>3 DEF Armed, ParkKept, CallsKept, FactoryResolves, RevivalHolds
<1>4. CASE ReviverAttaches(r) /\ Attachable(r)
  BY <1>0, <1>1, <1>2, <1>4
     DEF ReviverAttaches, Attachable, SetStatus, OnStatus, Armed, ParkKept, CallsKept, Adoption
<1>5. CASE RevivalEnds(r) /\ life' = life
  <2>1. CASE SetStatus(r, "idle") /\ reg = r
    BY <1>0, <1>1, <1>2, <1>5, <2>1, SetStatusArms DEF RevivalEnds, ParkKept, CallsKept
  <2>2. CASE UNCHANGED <<status, adopted>>
    BY <1>1, <1>2, <1>5, <2>2 DEF RevivalEnds, Armed, ParkKept, CallsKept
  <2> QED  BY <1>5, <2>1, <2>2 DEF RevivalEnds
<1>6. CASE ReviverFails(r) \/ ReviverThrows(r) \/ RevivalRejects(r)
  <2>1. adopted' \in {adopted, NotAdopted} /\ UNCHANGED <<reg, status, sess>>
    BY <1>6 DEF ReviverFails, ReviverThrows, RevivalRejects, DropCold
  <2>2. \A s \in Session : life'[s] = "live" => life[s] = "live"
    BY <1>6 DEF ReviverFails, ReviverThrows, RevivalRejects, sessionVars
  <2>3. CASE adopted' = NotAdopted
    BY <1>0, <1>1, <1>2, <2>1, <2>3 DEF Armed, ParkKept, CallsKept
  <2> QED  BY <1>0, <1>1, <1>2, <2>1, <2>2, <2>3 DEF Armed, ParkKept, CallsKept
<1>7. CASE \/ FactoryDeclines(r) \/ (\E s \in Session : ReviverOpens(r, s)) \/ ReviverClaims(r)
           \/ ReviverFailsLate(r) \/ (ReviverAttaches(r) /\ ~Attachable(r))
           \/ (RevivalEnds(r) /\ life' # life)
  <2>1. UNCHANGED <<reg, status, sess, adopted>>
    BY <1>7
       DEF FactoryDeclines, ReviverOpens, ReviverClaims, ReviverFailsLate, ReviverAttaches,
           RevivalEnds
  <2>2. life' = life \/ \E s \in Session, l \in {"building", "disposing"} : life' = [life EXCEPT ![s] = l]
    BY <1>0, <1>7
       DEF FactoryDeclines, ReviverOpens, ReviverClaims, ReviverFailsLate, ReviverAttaches,
           RevivalEnds,
           Disposing, RevivalBound, sessionVars
  <2> QED  BY <1>0, <1>1, <1>2, <2>1, <2>2 DEF Armed, ParkKept, CallsKept
<1> QED
  BY <1>2, <1>3, <1>4, <1>5, <1>6, <1>7 DEF RevivalStep, CallsKept

\* A turn that ends arms the timer; a dispose takes row and adoption away.
LEMMA SessionArms ==
  ASSUME IInv, OInv, NEW s \in Session, SessionStep(s)
  PROVE  Armed /\ ParkKept /\ CancelsKept
<1>0. /\ adopted \in Adoption /\ life \in [Session -> Life] /\ NotAdopted.ref = NoRef
      /\ reg \in OptRef /\ UNCHANGED <<park, caller>>
  BY DEF IInv, TypeOK, NotAdopted, SessionStep, TurnStarts, TurnEnds, DisposeSettles
<1>1. CallsKept
  BY <1>0 DEF CallsKept, CancelsKept
<1>2. ASSUME NEW st \in {"running", "idle"}, Mirror(s, st), UNCHANGED <<reg, sess, life>>
      PROVE  Armed /\ ParkKept
  <2>1. CASE reg \in Ref /\ SetStatus(reg, st)
    BY <1>0, <1>1, <1>2, <2>1, SetStatusArms DEF ParkKept
  <2>2. CASE UNCHANGED <<status, adopted>>
    BY <1>0, <1>1, <1>2, <2>2 DEF Armed, ParkKept, CallsKept
  <2> QED  BY <1>0, <1>2, <2>1, <2>2, NilAssumption DEF Mirror, LiveSession, OptRef
<1>3. CASE DisposeSettles(s)
  BY <1>0, <1>1, <1>3 DEF DisposeSettles, Unregister, OnRemoved, Armed, ParkKept, CallsKept
<1> QED  BY <1>1, <1>2, <1>3 DEF SessionStep, TurnStarts, TurnEnds, CallsKept

\* release drops the adoption of the ref it releases.
LEMMA BeginReleaseArms ==
  ASSUME IInv, NEW x \in Releaser, NEW r \in Ref, reg \in {r, NoRef}, NEW tomb \in BOOLEAN,
         BeginRelease(x, r, tomb), UNCHANGED <<reg, caller>>, AInv,
         \A q \in Ref : status[q] # "none" => status'[q] # "none"
  PROVE  AInv'
<1>0. NotAdopted.ref = NoRef /\ NoRef \notin Ref /\ park \in Park
  BY NilAssumption DEF NotAdopted, IInv, TypeOK
<1>1. adopted'.ref # r /\ adopted' \in {adopted, NotAdopted}
  BY <1>0 DEF BeginRelease, OnRemoved
<1>2. IdleAgentIsArmed' /\ CancelNames'
  BY <1>0, <1>1 DEF IdleAgentIsArmed, AInv, CancelNames
<1>3. CancelIsAwaited'
  BY <1>0, <1>1 DEF BeginRelease, Park, AInv, CancelIsAwaited
<1> QED  BY <1>2, <1>3 DEF AInv

\* A park that ends leaves no idle session without a timer: a call that cancelled it is
\* still there, or the row has no adopted session of its own.
LEMMA ParkArms ==
  ASSUME IInv, OInv, OneGeneration, AInv, TimerParks \/ ParkStep,
         \A q \in Ref : status[q] # "none" => status'[q] # "none"
  PROVE  AInv'
<1>0. /\ adopted \in Adoption /\ park \in Park /\ reg \in OptRef /\ NoRef \notin Ref
      /\ caller \in [Caller -> Call] /\ status \in [Ref -> Status] /\ sess \in [Ref -> OptSession]
      /\ RowBound /\ NewIsUntouched /\ ParkHolds /\ NotParking.ref = NoRef
  BY NilAssumption DEF IInv, OInv, TypeOK, NotParking
<1>1. park.ref # NoRef /\ reg # NoRef => reg = park.ref
  BY <1>0 DEF OneGeneration, RowBound, NewIsUntouched, Park, OptRef
<1>2. CASE TimerParks
  <2>1. IdleAgentIsArmed'
    BY <1>0, <1>2 DEF AInv, IdleAgentIsArmed, TimerParks, Adoption, LiveSession, NotParking
  <2>2. CancelIsAwaited'
    BY <1>0, <1>2 DEF AInv, CancelIsAwaited, TimerParks, Adoption, NotParking
  <2>3. CancelNames'
    BY <1>2 DEF AInv, CancelNames, TimerParks
  <2> QED  BY <2>1, <2>2, <2>3 DEF AInv
<1>3. ASSUME SettlePark, UNCHANGED <<reg, status, sess, adopted>>,
             park.ref # NoRef /\ reg # NoRef =>
               \/ sess[reg] = NoSession \/ adopted.ref # reg
               \/ \E c \in Caller : caller[c].pc = "cancelWait",
             park.ref # NoRef
      PROVE  AInv'
  <2>1. \A c \in Caller :
          /\ caller'[c].ref = caller[c].ref
          /\ caller[c].pc = "cancelWait" => caller'[c].pc = "cancelDone"
          /\ caller'[c].pc \in {"cancelWait", "cancelDone"} => caller[c].pc \in {"cancelWait", "cancelDone"}
    BY <1>0, <1>3 DEF SettlePark, Call
  <2>2. IdleAgentIsArmed'
    BY <1>3, <2>1 DEF IdleAgentIsArmed
  <2>3. CancelIsAwaited'
    BY <1>0, <1>3 DEF CancelIsAwaited, SettlePark
  <2>4. CancelNames'
    BY <1>3, <2>1 DEF AInv, CancelNames
  <2> QED  BY <2>2, <2>3, <2>4 DEF AInv
<1>4. CASE ParkGivesUp
  BY <1>0, <1>1, <1>3, <1>4
     DEF ParkGivesUp, ParkStillValid, ParkHolds, ParkBound, IInv, AInv, CancelIsAwaited
<1>5. CASE ParkEnds
  BY <1>0, <1>1, <1>3, <1>5 DEF ParkEnds, ParkHolds
<1>6. CASE ParkCommits
  <2>1. park'.ref = park.ref /\ park'.detached /\ park.ref # NoRef /\ UNCHANGED caller
    BY <1>0, <1>6 DEF ParkCommits, Park
  <2> QED  BY <1>6, <2>1 DEF AInv, IdleAgentIsArmed, CancelIsAwaited, CancelNames
<1> QED  BY <1>2, <1>3, <1>4, <1>5, <1>6 DEF ParkStep

\* A call that takes the timer away by cancelling a park arms it again.
LEMMA CallerArms ==
  ASSUME IInv, OInv, OneGeneration, AInv, NEW c \in Caller, CallerStep(c),
         \A q \in Ref : status[q] # "none" => status'[q] # "none"
  PROVE  AInv'
<1>0. /\ adopted \in Adoption /\ park \in Park /\ reg \in OptRef /\ NoRef \notin Ref
      /\ caller \in [Caller -> Call] /\ RowBound /\ NoParkPending
  BY NilAssumption DEF IInv, OInv, TypeOK
<1>1. NoCall.pc = "idle" /\ (\A s : Got(s).pc = "got") /\ (\A q : Waits(q).pc = "reviveWait")
  BY DEF NoCall, Got, Waits
<1>2. ASSUME UNCHANGED <<reg, status, sess, life, adopted, park>>,
             caller[c].pc \notin {"cancelWait", "cancelDone"},
             \E call : caller' = [caller EXCEPT ![c] = call] /\ call.pc \notin {"cancelWait", "cancelDone"}
      PROVE  AInv'
  <2>1. Armed /\ ParkKept /\ CancelsKept
    BY <1>0, <1>2 DEF Armed, ParkKept, CancelsKept
  <2> QED  BY <2>1, ArmedKept
<1>3. ASSUME Resolve(c)
      PROVE  \E call : caller' = [caller EXCEPT ![c] = call] /\ call.pc \notin {"cancelWait", "cancelDone"}
  BY <1>1, <1>3 DEF Resolve, StartRevival
<1>4. CASE EnsureLive(c)
  BY <1>2, <1>3, <1>4 DEF EnsureLive, sessionVars
<1>5. CASE EnsureLiveCancelsPark(c)
  <2>1. reg \in Ref /\ status[reg] # "none"
    BY <1>0, <1>5 DEF EnsureLiveCancelsPark, LiveSession, OptRef, RowBound
  <2>2. /\ caller'[c].pc = "cancelWait" /\ caller'[c].ref = reg
        /\ \A d \in Caller : d # c => caller'[d] = caller[d]
        /\ park'.ref = park.ref /\ park.ref # NoRef
        /\ UNCHANGED <<reg, status, sess, adopted>>
    BY <1>0, <1>5 DEF EnsureLiveCancelsPark, NoCall, Park
  <2> QED  BY <2>1, <2>2 DEF AInv, IdleAgentIsArmed, CancelIsAwaited, CancelNames
<1>6. CASE EnsureLiveWaits(c) \/ CallerReturns(c)
  <2>1. [NoCall EXCEPT !.pc = "parkWait"].pc = "parkWait"
    BY DEF NoCall
  <2> QED  BY <1>1, <1>2, <1>6, <2>1 DEF EnsureLiveWaits, CallerReturns, sessionVars
<1>7. CASE KeepsSession(c)
  <2>1. reg \in Ref /\ caller[c].ref = reg
    BY <1>0, <1>7
       DEF KeepsSession, LiveSession, OptRef, RowBound, AInv, CancelNames, OneGeneration
  <2>2. adopted'.ref = adopted.ref /\ (adopted.ref = reg /\ status[reg] = "idle" => adopted'.timer)
    BY <1>0, <1>7, <2>1 DEF KeepsSession, Adoption
  <2>3. CancelsKept
    BY <1>0, <1>1, <1>7 DEF KeepsSession, CancelsKept
  <2>4. Armed /\ ParkKept
    BY <1>7, <2>2 DEF KeepsSession, Armed, ParkKept
  <2> QED  BY <2>3, <2>4, ArmedKept
<1>8. CASE ResolvesAfterPark(c)
  <2>1. CASE caller[c].pc = "parkDone"
    BY <1>2, <1>3, <1>8, <2>1 DEF ResolvesAfterPark, sessionVars
  <2>2. CASE caller[c].pc = "cancelDone" /\ LiveSession = NoSession
    <3>1. Armed /\ ParkKept
      BY <1>8, <2>2 DEF ResolvesAfterPark, Armed, ParkKept, LiveSession
    <3>2. CancelsKept
      BY <1>0, <1>3, <1>8, <2>2 DEF ResolvesAfterPark, CancelsKept
    <3> QED  BY <3>1, <3>2, ArmedKept
  <2> QED  BY <1>8, <2>1, <2>2 DEF ResolvesAfterPark
<1> QED  BY <1>4, <1>5, <1>6, <1>7, <1>8 DEF CallerStep

\* The finalizer that keeps an agent adopts it with a timer, the others drop the row.
LEMMA FinalizeArms ==
  ASSUME IInv, OInv, AInv, NEW r \in Ref, FinalizeStep(r),
         \A q \in Ref : status[q] # "none" => status'[q] # "none"
  PROVE  AInv'
<1>0. /\ adopted \in Adoption /\ reg \in OptRef /\ NotAdopted.ref = NoRef /\ NoRef \notin Ref
      /\ life \in [Session -> Life] /\ RunHolds /\ RunBound /\ OneHolder
  BY NilAssumption DEF IInv, OInv, TypeOK, NotAdopted
<1>1. caller' = caller
  BY DEF FinalizeStep, FinalizeKept, FinalizeAborted, FinalizeDisposes, FinalizeUnregisters
<1>2. CancelsKept
  BY <1>1 DEF CancelsKept
<1>3. ASSUME NEW hot \in BOOLEAN, NEW owns \in BOOLEAN, FinalizeKept(r, hot, owns)  PROVE AInv'
  <2>1. reg = r /\ park.ref # r
    BY <1>0, <1>3, OwnedRowIsItsOwn DEF FinalizeKept, RunHolds
  <2>2. adopted'.ref = reg /\ adopted'.timer /\ park' = park
    BY <1>3 DEF FinalizeKept
  <2>3. Armed /\ ParkKept
    BY <2>1, <2>2 DEF Armed, ParkKept
  <2> QED  BY <1>2, <2>3, ArmedKept
<1>4. ASSUME NEW x \in Releaser, NEW tomb \in BOOLEAN, FinalizeAborted(r, x, tomb)  PROVE AInv'
  <2>1. reg = r
    BY <1>4, OwnedRowIsItsOwn DEF FinalizeAborted
  <2>2. BeginRelease(x, r, tomb) /\ UNCHANGED <<reg, caller>>
    BY <1>4, <2>1 DEF FinalizeAborted
  <2> QED  BY <2>1, <2>2, BeginReleaseArms
<1>5. CASE FinalizeDisposes(r)
  <2>1. Armed /\ ParkKept
    BY <1>0, <1>1, <1>5 DEF FinalizeDisposes, Disposing, RunBound, Armed, ParkKept
  <2> QED  BY <1>2, <2>1, ArmedKept
<1>6. CASE FinalizeUnregisters(r)
  <2>1. Armed /\ ParkKept
    BY <1>0, <1>1, <1>6
       DEF FinalizeUnregisters, Unregister, OnRemoved, Armed, ParkKept, sessionVars
  <2> QED  BY <1>2, <2>1, ArmedKept
<1> QED  BY <1>3, <1>4, <1>5, <1>6 DEF FinalizeStep

\* A release drops the adoption before it does anything else.
LEMMA ReleaseArms ==
  ASSUME IInv, OInv, AInv, NEW x \in Releaser, ReleaseStep(x),
         \A q \in Ref : status[q] # "none" => status'[q] # "none"
  PROVE  AInv'
<1>0. /\ adopted \in Adoption /\ reg \in OptRef /\ NotAdopted.ref = NoRef /\ NoRef \notin Ref
      /\ life \in [Session -> Life] /\ sess \in [Ref -> OptSession] /\ status \in [Ref -> Status]
      /\ release \in [Releaser -> Release] /\ ReleaseBound
  BY NilAssumption DEF IInv, TypeOK, NotAdopted
<1>1. caller' = caller
  BY DEF ReleaseStep, Releases, ReleaseCaptures, ReleasePersisted, ReleaseDisposed, ReleaseEnds
<1>2. CancelsKept
  BY <1>1 DEF CancelsKept
<1>3. ASSUME NEW tomb \in BOOLEAN, Releases(x, tomb)  PROVE AInv'
  <2> DEFINE q == IF reg # NoRef THEN reg ELSE adopted.ref
  <2>1. q \in Ref /\ reg \in {q, NoRef}
    BY <1>0, <1>3 DEF Releases, Adoption, OptRef
  <2>2. BeginRelease(x, q, tomb) /\ UNCHANGED <<reg, caller>>
    BY <1>1, <1>3 DEF Releases
  <2> HIDE DEF q
  <2> QED  BY <2>1, <2>2, BeginReleaseArms
<1>4. CASE ReleaseCaptures(x)
  <2>1. CASE UNCHANGED <<status, sess>>
    <3>1. \A s \in Session : life'[s] = "live" => life[s] = "live"
      BY <1>0, <1>4 DEF ReleaseCaptures, Capture, Disposing
    <3>2. Armed
      BY <1>1, <1>4, <2>1, <3>1 DEF ReleaseCaptures, Armed
    <3>3. ParkKept
      BY <1>4 DEF ReleaseCaptures, ParkKept
    <3> QED  BY <1>2, <3>2, <3>3, ArmedKept
  <2>2. CASE sess' = [sess EXCEPT ![reg] = NoSession]
    <3>1. Armed /\ ParkKept
      BY <1>0, <1>4, <2>2 DEF ReleaseCaptures, Armed, ParkKept, OptRef
    <3> QED  BY <1>2, <3>1, ArmedKept
  <2> QED  BY <1>4, <2>1, <2>2 DEF ReleaseCaptures, Capture
<1>5. CASE ReleasePersisted(x) \/ ReleaseDisposed(x)
  <2>1. Armed /\ ParkKept
    BY <1>0, <1>1, <1>5
       DEF ReleasePersisted, ReleaseDisposed, Disposing, Armed, ParkKept, sessionVars
  <2> QED  BY <1>2, <2>1, ArmedKept
<1>6. CASE ReleaseEnds(x)
  <2>1. Armed /\ ParkKept
    BY <1>0, <1>1, <1>6 DEF ReleaseEnds, Unregister, OnRemoved, Armed, ParkKept, sessionVars
  <2> QED  BY <1>2, <2>1, ArmedKept
<1> QED  BY <1>3, <1>4, <1>5, <1>6 DEF ReleaseStep

\* Every step of one generation keeps AInv.
LEMMA ArmedStep ==
  ASSUME IInv, OInv, OneGeneration => AInv, [Next]_vars
  PROVE  (OneGeneration => AInv)'
<1>1. \A q \in Ref : status[q] # "none" => status'[q] # "none"
  BY CreatedStays
<1>2. SUFFICES ASSUME OneGeneration'  PROVE AInv'
  OBVIOUS
<1>3. OneGeneration /\ AInv
  BY <1>1, <1>2 DEF OneGeneration
<1>4. ASSUME Armed /\ ParkKept /\ CancelsKept  PROVE AInv'
  BY <1>1, <1>3, <1>4, ArmedKept
<1>5. CASE UNCHANGED vars
  BY <1>4, <1>5 DEF vars, Armed, ParkKept, CancelsKept
<1> QED
  BY <1>1, <1>3, <1>4, <1>5, SpawnArms, RevivalArms, SessionArms, ParkArms, CallerArms,
     FinalizeArms, ReleaseArms DEF Next

\* An adopted agent that is idle with a live session has its TTL timer, or a park of it is
\* under way, as long as the id had one generation (the timer of a second one is swallowed
\* by the park of the first: agent-lifecycle.ts, the coalescing in #parks).
THEOREM IdleAgentHasATimer == Spec => [](OneGeneration => IdleAgentIsArmed)
<1>1. Init => AInv
  BY NilAssumption
     DEF Init, AInv, IdleAgentIsArmed, CancelIsAwaited, CancelNames, NotParking, NoCall
<1>2. IInv /\ OInv /\ (OneGeneration => AInv) /\ [Next]_vars => (OneGeneration => AInv)'
  BY ArmedStep
<1>3. AInv => IdleAgentIsArmed
  BY DEF AInv
<1> QED  BY <1>1, <1>2, <1>3, InductiveInvariant, OwnershipInvariant, PTL DEF Spec
=============================================================================
